--------------------------- MODULE CollectorProofs ---------------------------
(***************************************************************************)
(* For any objects and bounds: no collection runs while a finalizer does;  *)
(* an object waits for its finalizer in one queue and is called once; and  *)
(* a collection clears and finalizes exactly what a definition of          *)
(* reachability says.                                                      *)
(***************************************************************************)
EXTENDS Collector, FiniteSetTheorems, FunctionTheorems, SequenceTheorems, TLAPS

-----------------------------------------------------------------------------
(* What Among keeps of a sequence.                                         *)

\* Positions are finitely many.
LEMMA PositionsFinite ==
  ASSUME NEW T, NEW s \in Seq(T), NEW K \in SUBSET DOMAIN s
  PROVE  IsFiniteSet(K) /\ Cardinality(K) \in Nat /\ K \subseteq Nat
<1>1. DOMAIN s = 1 .. Len(s) /\ Len(s) \in Nat
  OBVIOUS
<1>2. IsFiniteSet(1 .. Len(s))
  BY <1>1, FS_Interval
<1>3. IsFiniteSet(K)
  BY <1>1, <1>2, FS_Subset
<1> QED
  BY <1>1, <1>3, FS_CardinalityType

\* The ranks of a finite set of numbers count it from one on, in its order.
LEMMA RanksIncrease ==
  ASSUME NEW K \in SUBSET Nat, IsFiniteSet(K)
  PROVE  /\ \A i \in K : Rank(K, i) \in 1 .. Cardinality(K)
         /\ \A i, j \in K : i < j => Rank(K, i) < Rank(K, j)
<1> DEFINE Upto(i) == {j \in K : j <= i}
<1>1. \A i \in K : IsFiniteSet(Upto(i)) /\ Cardinality(Upto(i)) \in Nat
  BY FS_Subset, FS_CardinalityType
<1>2. ASSUME NEW i \in K PROVE Cardinality(Upto(i)) \in 1 .. Cardinality(K)
  <2>1. i \in Upto(i)
    OBVIOUS
  <2>2. Cardinality(Upto(i)) # 0
    BY <1>1, <2>1, FS_EmptySet
  <2>3. Cardinality(Upto(i)) <= Cardinality(K) /\ Cardinality(K) \in Nat
    BY FS_Subset, FS_CardinalityType
  <2> QED
    BY <1>1, <2>2, <2>3
<1>3. ASSUME NEW i \in K, NEW j \in K, i < j
      PROVE  Cardinality(Upto(i)) < Cardinality(Upto(j))
  <2>1. Upto(i) \in SUBSET Upto(j)
    <3>1. i \in Nat /\ j \in Nat /\ \A k \in K : k \in Nat
      OBVIOUS
    <3>2. \A k \in Upto(i) : k \in Upto(j)
      BY <1>3, <3>1
    <3> QED
      BY <3>2
  <2>2. j \in Upto(j) /\ j \notin Upto(i)
    BY <1>3
  <2>3. Upto(i) # Upto(j)
    BY <2>2
  <2>4. Cardinality(Upto(i)) <= Cardinality(Upto(j)) /\ Cardinality(Upto(i)) # Cardinality(Upto(j))
    BY <1>1, <2>1, <2>3, FS_Subset
  <2> QED
    BY <1>1, <2>4
<1> QED
  BY <1>2, <1>3 DEF Rank

\* Ranks number what they rank, without gaps.
LEMMA RanksReachAll ==
  ASSUME NEW K \in SUBSET Nat, IsFiniteSet(K), NEW n \in 1 .. Cardinality(K)
  PROVE  \E i \in K : Rank(K, i) = n
<1> DEFINE r == [i \in K |-> Rank(K, i)]
           N == 1 .. Cardinality(K)
<1>1. r \in [K -> N]
  BY RanksIncrease
<1>2. \A i, j \in K : r[i] = r[j] => i = j
  BY RanksIncrease
<1>3. r \in Injection(K, N)
  BY <1>1, <1>2, Fun_IsInj
<1>4. IsFiniteSet(N) /\ Cardinality(N) = Cardinality(K)
  BY FS_Interval, FS_CardinalityType
<1>5. r \in Surjection(K, N)
  BY <1>3, <1>4, FS_Injection
<1>6. \E i \in K : r[i] = n
  <2>1. n \in N
    OBVIOUS
  <2> HIDE DEF r, N
  <2>2. \A m \in N : \E i \in K : r[i] = m
    BY <1>5, Fun_SurjectionProperties
  <2> QED
    BY <2>1, <2>2
<1> QED
  BY <1>6

\* Among(s, S) reads s at the positions of elements of S, all of them, each
\* once and in order.
LEMMA AmongReads ==
  ASSUME NEW T, NEW s \in Seq(T), NEW S
  PROVE  LET K == Positions(s, S)
             n == Cardinality(K)
         IN /\ n \in Nat /\ IsFiniteSet(K)
            /\ Among(s, S) \in Seq(T) /\ Len(Among(s, S)) = n
            /\ \E place \in [1 .. n -> K] :
                 /\ \A m \in 1 .. n : Among(s, S)[m] = s[place[m]]
                 /\ \A l, m \in 1 .. n : l < m => place[l] < place[m]
                 /\ \A i \in K : \E m \in 1 .. n : place[m] = i
<1> DEFINE K == Positions(s, S)
           n == Cardinality(K)
           place == [m \in 1 .. n |-> CHOOSE i \in K : Rank(K, i) = m]
<1>1. K \in SUBSET DOMAIN s
  BY DEF Positions
<1>2. IsFiniteSet(K) /\ n \in Nat /\ K \in SUBSET Nat
  BY <1>1, PositionsFinite
<1>3. \A m \in 1 .. n : place[m] \in K /\ Rank(K, place[m]) = m
  BY <1>2, RanksReachAll
<1>4. place \in [1 .. n -> K]
  BY <1>3
<1>5. Among(s, S) = [m \in 1 .. n |-> s[place[m]]]
  BY DEF Among
<1>6. ASSUME NEW l \in 1 .. n, NEW m \in 1 .. n, l < m PROVE place[l] < place[m]
  <2> HIDE DEF place, K
  <2>1. place[l] \in K /\ place[m] \in K /\ place[l] \in Nat /\ place[m] \in Nat
    BY <1>2, <1>3
  <2>2. Rank(K, place[l]) < Rank(K, place[m])
    BY <1>2, <1>3, <1>6
  <2>3. CASE place[m] < place[l]
    <3>1. Rank(K, place[m]) < Rank(K, place[l])
      BY <1>2, <2>1, <2>3, RanksIncrease
    <3> QED
      BY <1>2, <1>3, <1>6, <3>1
  <2>4. place[l] # place[m]
    BY <1>2, <1>3, <1>6
  <2> QED
    BY <2>1, <2>3, <2>4
<1>7. ASSUME NEW i \in K PROVE \E m \in 1 .. n : place[m] = i
  <2> DEFINE m == Rank(K, i)
  <2> HIDE DEF place, K, m
  <2>1. m \in 1 .. n
    BY <1>2, RanksIncrease DEF m
  <2>2. place[m] \in K /\ Rank(K, place[m]) = Rank(K, i)
    BY <1>3, <2>1 DEF m
  <2>3. place[m] = i
    <3>1. place[m] \in Nat /\ i \in Nat
      BY <1>2, <2>2
    <3>2. ~(place[m] < i) /\ ~(i < place[m])
      <4>1. \A j, k \in K : j < k => Rank(K, j) < Rank(K, k)
        BY <1>2, RanksIncrease
      <4>2. Rank(K, i) \in 1 .. n
        BY <2>1 DEF m
      <4> QED
        BY <1>2, <2>2, <3>1, <4>1, <4>2
    <3> QED
      BY <3>1, <3>2
  <2> QED
    BY <2>1, <2>3
<1>8. \A m \in 1 .. n : s[place[m]] \in T
  BY <1>1, <1>3
<1>9. Among(s, S) \in Seq(T) /\ Len(Among(s, S)) = n
  <2> HIDE DEF place, K
  <2> QED
    BY <1>2, <1>5, <1>8
<1> QED
  <2> HIDE DEF place, n
  <2>1. \A m \in 1 .. n : Among(s, S)[m] = s[place[m]]
    BY <1>5
  <2> HIDE DEF K
  <2>2. \E a \in [1 .. n -> K] :
          /\ \A m \in 1 .. n : Among(s, S)[m] = s[a[m]]
          /\ \A l, m \in 1 .. n : l < m => a[l] < a[m]
          /\ \A i \in K : \E m \in 1 .. n : a[m] = i
    BY <1>4, <1>6, <1>7, <2>1
  <2> QED
    BY <1>2, <1>9, <2>2 DEF K, n

\* Among has the chosen elements.
LEMMA AmongElements ==
  ASSUME NEW T, NEW s \in Seq(T), NEW S
  PROVE  /\ Among(s, S) \in Seq(T)
         /\ \A x : x \in ToSet(Among(s, S)) <=> x \in S /\ x \in ToSet(s)
<1> DEFINE K == Positions(s, S)
           n == Cardinality(K)
<1>1. PICK place \in [1 .. n -> K] :
        /\ \A m \in 1 .. n : Among(s, S)[m] = s[place[m]]
        /\ \A l, m \in 1 .. n : l < m => place[l] < place[m]
        /\ \A i \in K : \E m \in 1 .. n : place[m] = i
  BY ONLY AmongReads
<1>2. Among(s, S) \in Seq(T) /\ Len(Among(s, S)) = n /\ n \in Nat
  BY AmongReads
<1>3. DOMAIN Among(s, S) = 1 .. n
  BY <1>2
<1> HIDE DEF n
<1>4. ASSUME NEW x \in ToSet(Among(s, S)) PROVE x \in S /\ x \in ToSet(s)
  <2>1. PICK m \in 1 .. n : x = Among(s, S)[m]
    BY <1>3 DEF ToSet
  <2> QED
    BY <1>1, <2>1 DEF ToSet, Positions
<1>5. ASSUME NEW x \in ToSet(s), x \in S PROVE x \in ToSet(Among(s, S))
  <2>1. PICK i \in K : x = s[i]
    BY <1>5 DEF ToSet, Positions
  <2>2. PICK m \in 1 .. n : place[m] = i
    BY <1>1
  <2> QED
    BY <1>1, <1>3, <2>1, <2>2 DEF ToSet
<1> QED
  BY <1>2, <1>4, <1>5

\* Nothing of S in s, and nothing is among it.
LEMMA AmongNone ==
  ASSUME NEW T, NEW s \in Seq(T), NEW S, \A i \in DOMAIN s : s[i] \notin S
  PROVE  Among(s, S) = <<>>
<1>1. Positions(s, S) = {}
  BY DEF Positions
<1>2. Cardinality(Positions(s, S)) = 0
  BY <1>1, FS_EmptySet
<1>3. Among(s, S) \in Seq(T) /\ Len(Among(s, S)) = 0
  BY <1>2, AmongReads
<1> QED
  BY <1>3, EmptySeq

-----------------------------------------------------------------------------
(* How often an element occurs.                                            *)

\* Sets in one-to-one correspondence have the same size.
LEMMA SameSize ==
  ASSUME NEW A, NEW B, IsFiniteSet(A), NEW f \in [A -> B],
         \A x, y \in A : f[x] = f[y] => x = y,
         \A y \in B : \E x \in A : f[x] = y
  PROVE  Cardinality(A) = Cardinality(B)
<1>1. f \in Bijection(A, B)
  BY Fun_IsBij
<1>2. ExistsBijection(A, B)
  BY <1>1, Fun_ExistsBij
<1> QED
  BY <1>2, FS_Bijection

\* An occurrence count is a natural number.
LEMMA OccurrencesType ==
  ASSUME NEW T, NEW s \in Seq(T), NEW o
  PROVE  /\ IsFiniteSet({i \in DOMAIN s : s[i] = o})
         /\ Occurrences(s, o) \in Nat
         /\ Occurrences(s, o) = 0 <=> o \notin ToSet(s)
<1> DEFINE K == {i \in DOMAIN s : s[i] = o}
<1>1. K \in SUBSET DOMAIN s
  OBVIOUS
<1>2. IsFiniteSet(K) /\ Cardinality(K) \in Nat
  BY <1>1, PositionsFinite
<1>3. Cardinality(K) = 0 <=> K = {}
  BY <1>2, FS_EmptySet
<1>4. K = {} <=> o \notin ToSet(s)
  BY DEF ToSet
<1> QED
  BY <1>2, <1>3, <1>4 DEF Occurrences

\* Nothing occurs in the empty sequence.
LEMMA OccurrencesEmpty == \A o : Occurrences(<<>>, o) = 0 /\ ToSet(<<>>) = {}
<1>1. DOMAIN <<>> = {}
  OBVIOUS
<1>2. \A o : {i \in DOMAIN <<>> : <<>>[i] = o} = {}
  BY <1>1
<1>3. \A o : Occurrences(<<>>, o) = 0
  BY <1>2, FS_EmptySet DEF Occurrences
<1>4. ToSet(<<>>) = {}
  BY <1>1 DEF ToSet
<1> QED
  BY <1>3, <1>4

\* How often an element is among the chosen.
LEMMA OccurrencesAmong ==
  ASSUME NEW T, NEW s \in Seq(T), NEW S, NEW o
  PROVE  Occurrences(Among(s, S), o) = IF o \in S THEN Occurrences(s, o) ELSE 0
<1>1. CASE o \notin S
  <2>1. o \notin ToSet(Among(s, S)) /\ Among(s, S) \in Seq(T)
    BY <1>1, AmongElements
  <2> QED
    BY <1>1, <2>1, OccurrencesType
<1>2. CASE o \in S
  <2> DEFINE K == Positions(s, S)
             n == Cardinality(K)
             A == {m \in DOMAIN Among(s, S) : Among(s, S)[m] = o}
             B == {i \in DOMAIN s : s[i] = o}
  <2>1. PICK place \in [1 .. n -> K] :
          /\ \A m \in 1 .. n : Among(s, S)[m] = s[place[m]]
          /\ \A l, m \in 1 .. n : l < m => place[l] < place[m]
          /\ \A i \in K : \E m \in 1 .. n : place[m] = i
    BY AmongReads
  <2>2. Among(s, S) \in Seq(T) /\ Len(Among(s, S)) = n /\ n \in Nat
    BY AmongReads
  <2>3. DOMAIN Among(s, S) = 1 .. n
    BY <2>2
  <2>4. \A i \in K : i \in DOMAIN s
    BY DEF Positions
  <2>5. B \subseteq K
    BY <1>2 DEF Positions
  <2> DEFINE f == [m \in A |-> place[m]]
  <2> HIDE DEF K, n
  <2>6. f \in [A -> B]
    BY <2>1, <2>3, <2>4
  <2>7. \A l, m \in A : f[l] = f[m] => l = m
    <3> SUFFICES ASSUME NEW l \in A, NEW m \in A, place[l] = place[m] PROVE l = m
      OBVIOUS
    <3>1. l \in 1 .. n /\ m \in 1 .. n /\ place[l] \in Nat
      BY <2>1, <2>3, <2>4
    <3> QED
      BY <2>1, <3>1
  <2>8. \A i \in B : \E m \in A : f[m] = i
    BY <2>1, <2>3, <2>5
  <2>9. IsFiniteSet(A)
    BY <2>2, OccurrencesType
  <2>10. Cardinality(A) = Cardinality(B)
    <3> HIDE DEF A, B, f
    <3> QED
      BY <2>6, <2>7, <2>8, <2>9, SameSize
  <2> QED
    BY <1>2, <2>10 DEF Occurrences
<1> QED
  BY <1>1, <1>2

\* Occurrences add up.
LEMMA OccurrencesConcat ==
  ASSUME NEW T, NEW s \in Seq(T), NEW t \in Seq(T), NEW o
  PROVE  Occurrences(s \o t, o) = Occurrences(s, o) + Occurrences(t, o)
<1> DEFINE A == {i \in DOMAIN s : s[i] = o}
           B == {i \in DOMAIN t : t[i] = o}
           C == {i \in DOMAIN (s \o t) : (s \o t)[i] = o}
           D == {i \in C : i > Len(s)}
           f == [i \in B |-> i + Len(s)]
<1>1. /\ Len(s) \in Nat /\ Len(t) \in Nat
      /\ DOMAIN s = 1 .. Len(s) /\ DOMAIN t = 1 .. Len(t)
      /\ DOMAIN (s \o t) = 1 .. Len(s) + Len(t) /\ s \o t \in Seq(T)
  OBVIOUS
<1>2. \A i \in 1 .. Len(s) + Len(t) : (s \o t)[i] = IF i <= Len(s) THEN s[i] ELSE t[i - Len(s)]
  BY ConcatProperties
<1>3. IsFiniteSet(A) /\ IsFiniteSet(B) /\ IsFiniteSet(C)
  BY <1>1, OccurrencesType
<1>4. IsFiniteSet(D)
  BY <1>3, FS_Subset
<1>5. C = A \union D /\ A \intersect D = {}
  BY <1>1, <1>2
<1>6. f \in [B -> D]
  BY <1>1, <1>2
<1>7. \A i, j \in B : f[i] = f[j] => i = j
  BY <1>1
<1>8. ASSUME NEW j \in D PROVE \E i \in B : f[i] = j
  <2>1. j - Len(s) \in B
    BY <1>1, <1>2
  <2>2. f[j - Len(s)] = j
    BY <1>1, <2>1
  <2> QED
    BY <2>1, <2>2
<1> HIDE DEF A, B, C, D, f
<1>9. Cardinality(B) = Cardinality(D)
  BY <1>3, <1>6, <1>7, <1>8, SameSize
<1>10. Cardinality(C) = Cardinality(A) + Cardinality(D)
  <2>1. Cardinality(C) = Cardinality(A) + Cardinality(D) - Cardinality({})
    BY <1>3, <1>4, <1>5, FS_Union
  <2> QED
    BY <1>3, <1>4, <2>1, FS_EmptySet, FS_CardinalityType
<1> QED
  BY <1>9, <1>10 DEF Occurrences, A, B, C

\* One element occurs once.
LEMMA OccurrencesSingle ==
  ASSUME NEW x, NEW o
  PROVE  Occurrences(<<x>>, o) = IF x = o THEN 1 ELSE 0
<1>1. DOMAIN <<x>> = {1} /\ <<x>>[1] = x
  OBVIOUS
<1>2. {i \in DOMAIN <<x>> : <<x>>[i] = o} = IF x = o THEN {1} ELSE {}
  BY <1>1
<1> QED
  BY <1>2, FS_Singleton, FS_EmptySet DEF Occurrences

\* An appended element occurs once more.
LEMMA OccurrencesAppend ==
  ASSUME NEW T, NEW s \in Seq(T), NEW x \in T, NEW o
  PROVE  Occurrences(Append(s, x), o) = Occurrences(s, o) + (IF x = o THEN 1 ELSE 0)
<1>1. Append(s, x) = s \o <<x>> /\ <<x>> \in Seq(T)
  OBVIOUS
<1>2. Occurrences(s \o <<x>>, o) = Occurrences(s, o) + Occurrences(<<x>>, o)
  BY <1>1, OccurrencesConcat
<1>3. Occurrences(<<x>>, o) = IF x = o THEN 1 ELSE 0
  BY OccurrencesSingle
<1> QED
  BY <1>1, <1>2, <1>3

\* The first occurs once less in the tail.
LEMMA OccurrencesTail ==
  ASSUME NEW T, NEW s \in Seq(T), s # <<>>, NEW o
  PROVE  /\ Tail(s) \in Seq(T) /\ Head(s) \in T
         /\ Occurrences(s, o) = Occurrences(Tail(s), o) + (IF Head(s) = o THEN 1 ELSE 0)
<1> DEFINE h == Head(s)
           u == Tail(s)
<1>1. s = <<h>> \o u /\ h \in T /\ u \in Seq(T) /\ <<h>> \in Seq(T)
  OBVIOUS
<1>2. Occurrences(<<h>>, o) = IF h = o THEN 1 ELSE 0
  BY OccurrencesSingle
<1>3. Occurrences(u, o) \in Nat
  BY <1>1, OccurrencesType
<1> HIDE DEF h, u
<1>4. Occurrences(<<h>> \o u, o) = Occurrences(<<h>>, o) + Occurrences(u, o)
  BY <1>1, OccurrencesConcat
<1>5. Occurrences(s, o) = Occurrences(<<h>>, o) + Occurrences(u, o)
  BY <1>1, <1>4
<1>6. Occurrences(s, o) = Occurrences(u, o) + (IF h = o THEN 1 ELSE 0)
  BY <1>2, <1>3, <1>5
<1> QED
  BY <1>1, <1>6 DEF h, u

\* The elements of a sequence, and those of the sequences made from it.
LEMMA ConcatElements ==
  ASSUME NEW T, NEW s \in Seq(T), NEW t \in Seq(T)
  PROVE  /\ s \o t \in Seq(T)
         /\ \A x : x \in ToSet(s \o t) <=> x \in ToSet(s) \/ x \in ToSet(t)
<1>1. /\ Len(s) \in Nat /\ Len(t) \in Nat
      /\ DOMAIN s = 1 .. Len(s) /\ DOMAIN t = 1 .. Len(t)
      /\ DOMAIN (s \o t) = 1 .. Len(s) + Len(t) /\ s \o t \in Seq(T)
  OBVIOUS
<1>2. \A i \in 1 .. Len(s) + Len(t) : (s \o t)[i] = IF i <= Len(s) THEN s[i] ELSE t[i - Len(s)]
  BY ConcatProperties
<1>3. ASSUME NEW x \in ToSet(s) PROVE x \in ToSet(s \o t)
  <2>1. PICK i \in 1 .. Len(s) : s[i] = x
    BY <1>1 DEF ToSet
  <2>2. i \in 1 .. Len(s) + Len(t) /\ (s \o t)[i] = x
    BY <1>1, <1>2, <2>1
  <2> QED
    BY <1>1, <2>2 DEF ToSet
<1>4. ASSUME NEW x \in ToSet(t) PROVE x \in ToSet(s \o t)
  <2>1. PICK i \in 1 .. Len(t) : t[i] = x
    BY <1>1 DEF ToSet
  <2>2. i + Len(s) \in 1 .. Len(s) + Len(t) /\ (s \o t)[i + Len(s)] = x
    BY <1>1, <1>2, <2>1
  <2> QED
    BY <1>1, <2>2 DEF ToSet
<1>5. ASSUME NEW x \in ToSet(s \o t) PROVE x \in ToSet(s) \/ x \in ToSet(t)
  <2>1. PICK i \in 1 .. Len(s) + Len(t) : (s \o t)[i] = x
    BY <1>1 DEF ToSet
  <2>2. CASE i <= Len(s)
    BY <1>1, <1>2, <2>1, <2>2 DEF ToSet
  <2>3. CASE i > Len(s)
    <3>1. i - Len(s) \in 1 .. Len(t) /\ t[i - Len(s)] = x
      BY <1>1, <1>2, <2>1, <2>3
    <3> QED
      BY <1>1, <3>1 DEF ToSet
  <2> QED
    BY <1>1, <2>2, <2>3
<1> QED
  BY <1>1, <1>3, <1>4, <1>5

\* The elements of an extended sequence.
LEMMA AppendElements ==
  ASSUME NEW T, NEW s \in Seq(T), NEW y \in T
  PROVE  /\ Append(s, y) \in Seq(T)
         /\ \A x : x \in ToSet(Append(s, y)) <=> x \in ToSet(s) \/ x = y
<1>1. Append(s, y) = s \o <<y>> /\ <<y>> \in Seq(T) /\ DOMAIN <<y>> = {1} /\ <<y>>[1] = y
  OBVIOUS
<1>2. \A x : x \in ToSet(<<y>>) <=> x = y
  BY <1>1 DEF ToSet
<1>3. \A x : x \in ToSet(s \o <<y>>) <=> x \in ToSet(s) \/ x \in ToSet(<<y>>)
  BY <1>1, ConcatElements
<1> QED
  BY <1>1, <1>2, <1>3

\* A reversal keeps every count.
LEMMA OccurrencesReverse ==
  ASSUME NEW T, NEW s \in Seq(T), NEW o
  PROVE  Reverse(s) \in Seq(T) /\ Occurrences(Reverse(s), o) = Occurrences(s, o)
<1> DEFINE A == {i \in DOMAIN s : s[i] = o}
           B == {i \in DOMAIN Reverse(s) : Reverse(s)[i] = o}
           f == [i \in A |-> Len(s) - i + 1]
<1>1. Len(s) \in Nat /\ DOMAIN s = 1 .. Len(s)
  OBVIOUS
<1>2. DOMAIN Reverse(s) = 1 .. Len(s) /\ \A i \in 1 .. Len(s) : Reverse(s)[i] = s[Len(s) - i + 1]
  BY <1>1 DEF Reverse
<1>3. Reverse(s) \in Seq(T)
  BY <1>1 DEF Reverse
<1>4. f \in [A -> B]
  BY <1>1, <1>2
<1>5. \A i, j \in A : f[i] = f[j] => i = j
  BY <1>1
<1>6. ASSUME NEW j \in B PROVE \E i \in A : f[i] = j
  <2>1. Len(s) - j + 1 \in A
    BY <1>1, <1>2
  <2>2. f[Len(s) - j + 1] = j
    BY <1>1, <1>2, <2>1
  <2> QED
    BY <2>1, <2>2
<1>7. IsFiniteSet(A)
  BY OccurrencesType
<1> HIDE DEF A, B, f
<1>8. Cardinality(A) = Cardinality(B)
  BY <1>4, <1>5, <1>6, <1>7, SameSize
<1> QED
  BY <1>3, <1>8 DEF Occurrences, A, B

-----------------------------------------------------------------------------
(* The finalizer thread.  The flag gcBusy is what keeps finalizers and      *)
(* collections apart, so it must be set in both and reset by each way out. *)

\* Inductive: the finalizer thread holds something only in a finalizer, and
\* gcBusy is set exactly while a collection marks or a finalizer runs.
BusyInv ==
  /\ hand # {} => phase = "finalizer"
  /\ phase \in {"mark", "finalizer"} <=> gcBusy
  /\ gcBusy \in BOOLEAN

\* BusyInv holds at first.
LEMMA InitBusy == Init => BusyInv
BY DEF Init, BusyInv

\* Every step keeps BusyInv.
LEMMA NextBusy == BusyInv /\ [Next]_vars => BusyInv'
<1> SUFFICES ASSUME BusyInv, [Next]_vars PROVE BusyInv'
  OBVIOUS
<1> USE DEF BusyInv
<1>1. ASSUME NEW o \in Objects, NEW m \in Modes, NEW fin \in BOOLEAN, New(o, m, fin)
      PROVE BusyInv'
  BY <1>1 DEF New
<1>2. ASSUME NEW t \in Objects, NEW k \in Objects \union {Scalar}, NEW v \in Objects, Store(t, k, v)
      PROVE BusyInv'
  BY <1>2 DEF Store, flags
<1>3. ASSUME NEW e \in entries, Load(e) PROVE BusyInv'
  BY <1>3 DEF Load, flags
<1>4. ASSUME NEW o \in Objects, Drop(o) \/ Keep(o) PROVE BusyInv'
  BY <1>4 DEF Drop, Keep, flags
<1>5. ASSUME NEW automatic \in BOOLEAN, Collect(automatic) PROVE BusyInv'
  BY <1>5 DEF Collect, LuaRuns
<1>6. ASSUME NEW t \in Objects, Propagate(t) PROVE BusyInv'
  BY <1>6 DEF Propagate, flags
<1>7. CASE ConvergeTable \/ ConvergeAgain \/ Resurrect
  BY <1>7 DEF ConvergeTable, ConvergeAgain, Resurrect, flags
<1>8. CASE Finish
  BY <1>8 DEF Finish, Converged
<1>9. CASE CallFinalizer
  BY <1>9 DEF CallFinalizer
<1>10. CASE EndFinalizer \/ AbortFinalizers
  BY <1>10 DEF EndFinalizer, AbortFinalizers
<1>11. CASE EndFinalizers \/ Close
  BY <1>11 DEF EndFinalizers, Close, flags
<1>12. CASE UNCHANGED vars
  BY <1>12 DEF vars, flags
<1> QED
  BY <1>1, <1>2, <1>3, <1>4, <1>5, <1>6, <1>7, <1>8, <1>9, <1>10, <1>11, <1>12 DEF Next

\* A collection never runs while the finalizer thread holds an object, for any
\* objects and bounds (callFinalizer's gcBusy).
THEOREM FinalizerExcludesMarking == Spec => []FinalizerThreadEmpty
<1>1. BusyInv => FinalizerThreadEmpty
  BY DEF BusyInv, FinalizerThreadEmpty
<1> QED
  BY InitBusy, NextBusy, <1>1, PTL DEF Spec

-----------------------------------------------------------------------------
(* Types.                                                                  *)

\* The types hold at first.
LEMMA InitType == Init => TypeOK
<1> SUFFICES ASSUME Init PROVE TypeOK
  OBVIOUS
<1>1. mode = <<>> /\ DOMAIN mode = {} /\ mode \in [{} -> Modes]
  BY DEF Init
<1>2. <<>> \in Seq({})
  OBVIOUS
<1> QED
  BY <1>1, <1>2 DEF Init, TypeOK, Existing

\* The objects traverseTable marks exist.
LEMMA KeptExists ==
  ASSUME TypeOK, NEW t \in marked
  PROVE  Kept(t) \subseteq Existing
<1>1. \A e \in entries : e[2] \in Existing \union {Scalar} /\ e[3] \in Existing
  BY DEF TypeOK
<1>2. Scalar \notin Existing
  BY ObjectsAssumption DEF TypeOK
<1>3. mode[t] \in {"", "k", "v", "kv"}
  BY ObjectsAssumption DEF TypeOK
<1>4. \A x \in Kept(t) : x \in Existing
  <2>1. CASE mode[t] = ""
    <3>1. Kept(t) = (UNION {{e[2], e[3]} : e \in EntriesOf(t)}) \ {Scalar}
      BY <2>1 DEF Kept
    <3>2. \A x \in Kept(t) : x # Scalar /\ \E e \in entries : x = e[2] \/ x = e[3]
      BY <3>1 DEF EntriesOf
    <3> QED
      BY <1>1, <3>2
  <2>2. CASE mode[t] = "v"
    BY <1>1, <1>2, <2>2 DEF Kept, EntriesOf
  <2>3. CASE mode[t] = "k"
    BY <1>1, <1>2, <2>3 DEF Kept, EntriesOf, IsMarked
  <2>4. CASE mode[t] = "kv"
    BY <1>1, <1>2, <2>4 DEF Kept, EntriesOf
  <2> QED
    BY <1>3, <2>1, <2>2, <2>3, <2>4
<1> QED
  BY <1>4

\* A sequence over a set is one over a larger set.
LEMMA SeqMonotone == ASSUME NEW A, NEW B, A \subseteq B, NEW s \in Seq(A) PROVE s \in Seq(B)
<1>1. Len(s) \in Nat /\ DOMAIN s = 1 .. Len(s) /\ \A i \in 1 .. Len(s) : s[i] \in B
  OBVIOUS
<1>2. s \in [1 .. Len(s) -> B]
  BY <1>1
<1> QED
  BY <1>1, <1>2

\* The elements of a sequence.
LEMMA ElementsIn == ASSUME NEW T, NEW s \in Seq(T) PROVE \A x \in ToSet(s) : x \in T
BY DEF ToSet

\* Every step keeps the types.
LEMMA NextType == TypeOK /\ [Next]_vars => TypeOK'
<1> SUFFICES ASSUME TypeOK, [Next]_vars PROVE TypeOK'
  OBVIOUS
<1>0. TypeOK
  OBVIOUS
<1> USE DEF TypeOK, Existing
<1>1. ASSUME NEW o \in Objects, NEW m \in Modes, NEW fin \in BOOLEAN, New(o, m, fin)
      PROVE TypeOK'
  <2>1. /\ mode' = [p \in Existing \union {o} |-> IF p = o THEN m ELSE mode[p]]
        /\ roots' = roots \union {o} /\ o \notin Existing
        /\ gcWatch' = (gcWatch \/ m # "" \/ (fin /\ ~closed))
        /\ UNCHANGED <<entries, toFinalize, gcBusy, closed, phase, marking, hand, before, called>>
    BY <1>1 DEF New
  <2>2. Existing' = Existing \union {o} /\ mode' \in [Existing' -> Modes]
    BY <2>1
  <2>3. gc \subseteq gc' /\ gc' \subseteq Existing'
    BY <1>1, <2>2 DEF New
  <2>4. finalizable' \in Seq(gc') /\ flagged' \subseteq gc'
    <3>1. CASE fin /\ ~(closed \/ o \in flagged)
      <4>1. finalizable' = Append(finalizable, o) /\ flagged' = flagged \union {o} /\ o \in gc'
        BY <1>1, <3>1 DEF New, NoteFinalizer
      <4>2. finalizable \in Seq(gc')
        BY <2>3, SeqMonotone
      <4> QED
        BY <4>1, <4>2, <2>3
    <3>2. CASE ~(fin /\ ~(closed \/ o \in flagged))
      <4>1. finalizable' = finalizable /\ flagged' = flagged
        BY <1>1, <3>2 DEF New, NoteFinalizer
      <4>2. finalizable \in Seq(gc')
        BY <2>3, SeqMonotone
      <4> QED
        BY <4>1, <4>2, <2>3
    <3> QED
      BY <3>1, <3>2
  <2>5. toFinalize' \in Seq(gc') /\ dying' \in Seq(gc')
    BY <2>1, <2>3, SeqMonotone DEF marking
  <2>6. \A e \in entries' : e \in Existing' \X (Existing' \union {Scalar}) \X Existing'
    BY <2>1, <2>2
  <2>7. roots' \subseteq Existing' /\ hand' \subseteq Existing'
    BY <2>1, <2>2
  <2>8. marked' \subseteq Existing' /\ gray' \subseteq marked' /\ ephemerons' \in Seq(marked') /\ weakTables' \subseteq marked'
    BY <2>1, <2>2 DEF marking
  <2>9. at' \in Nat /\ changed' \in BOOLEAN /\ called' \in [Objects -> Nat]
        /\ phase' \in {"lua", "mark", "finalize", "finalizer"}
        /\ gcBusy' \in BOOLEAN /\ gcWatch' \in BOOLEAN /\ closed' \in BOOLEAN
    BY <2>1 DEF marking
  <2>10. Existing' \subseteq Objects
    BY <2>2
  <2> QED
    BY <2>2, <2>3, <2>4, <2>5, <2>6, <2>7, <2>8, <2>9, <2>10
<1>2. ASSUME NEW t \in Objects, NEW k \in Objects \union {Scalar}, NEW v \in Objects, Store(t, k, v)
      PROVE TypeOK'
  <2>1. \A e \in entries' : e \in Existing \X (Existing \union {Scalar}) \X Existing
    BY <1>2 DEF Store, Held
  <2> QED
    BY <1>2, <2>1 DEF Store, queues, flags, marking, history
<1>3. ASSUME NEW e \in entries, Load(e) PROVE TypeOK'
  <2>1. roots' \subseteq Existing
    BY <1>3 DEF Load
  <2> QED
    BY <1>3, <2>1 DEF Load, queues, flags, marking, history
<1>4. ASSUME NEW o \in Objects, Drop(o) \/ Keep(o) PROVE TypeOK'
  BY <1>4 DEF Drop, Keep, queues, flags, marking, history
<1>5. ASSUME NEW automatic \in BOOLEAN, Collect(automatic) PROVE TypeOK'
  <2>1. marked' \subseteq Existing
    BY <1>5, ElementsIn DEF Collect
  <2>2. <<>> \in Seq(marked') /\ <<>> \in Seq(gc)
    OBVIOUS
  <2> QED
    BY <1>5, <2>1, <2>2 DEF Collect, heapVars, queues
<1>6. ASSUME NEW t \in Objects, Propagate(t) PROVE TypeOK'
  <2>1. marked' = marked \union Kept(t) /\ t \in marked
    BY <1>6 DEF Propagate
  <2>2. marked' \subseteq Existing /\ gray' \subseteq marked'
    BY <1>6, <2>1, KeptExists DEF Propagate
  <2>3. ephemerons' \in Seq(marked')
    <3>1. ephemerons \in Seq(marked')
      BY <2>1, SeqMonotone
    <3> QED
      BY <1>6, <2>1, <3>1 DEF Propagate
  <2>4. weakTables' \subseteq marked'
    BY <1>6, <2>1 DEF Propagate
  <2> QED
    BY <1>6, <2>2, <2>3, <2>4 DEF Propagate, heapVars, queues, flags, history
<1>7. CASE ConvergeTable
  <2>1. PICK new : /\ new = {e[3] : e \in {f \in EntriesOf(ephemerons[at]) : IsMarked(f[2])}} \ marked
                   /\ Mark(new) /\ changed' = (changed \/ new # {})
    BY <1>7 DEF ConvergeTable
  <2>2. new \subseteq Existing
    BY <2>1 DEF EntriesOf
  <2>3. marked' \subseteq Existing /\ gray' \subseteq marked' /\ marked \subseteq marked'
    BY <2>1, <2>2 DEF Mark
  <2>4. ephemerons' \in Seq(marked') /\ weakTables' \subseteq marked'
    BY <1>7, <2>3, SeqMonotone DEF ConvergeTable
  <2>5. at' \in Nat /\ changed' \in BOOLEAN
    BY <1>7, <2>1 DEF ConvergeTable
  <2> QED
    BY <1>7, <2>3, <2>4, <2>5 DEF ConvergeTable, heapVars, queues, flags, history
<1>8. CASE ConvergeAgain
  BY <1>8 DEF ConvergeAgain, heapVars, queues, flags, history
<1>9. CASE Resurrect
  <2>1. dying' \in Seq(gc) /\ finalizable' \in Seq(gc)
    BY <1>9, AmongElements DEF Resurrect
  <2>2. \A x \in ToSet(dying') : x \in gc
    BY <2>1, ElementsIn
  <2>3. marked' \subseteq Existing /\ gray' \subseteq marked' /\ marked \subseteq marked'
    BY <1>9, <2>2 DEF Resurrect, Mark
  <2>4. ephemerons' \in Seq(marked') /\ weakTables' \subseteq marked'
    BY <1>9, <2>3, SeqMonotone DEF Resurrect
  <2>5. entries' \subseteq entries
    BY <1>9 DEF Resurrect
  <2> QED
    BY <1>9, <2>1, <2>3, <2>4, <2>5 DEF Resurrect, flags, history
<1>10. CASE Finish
  <2>1. Reverse(dying) \in Seq(gc)
    BY OccurrencesReverse
  <2>2. toFinalize' \in Seq(gc)
    BY <1>10, <2>1 DEF Finish
  <2>3. entries' \subseteq entries
    BY <1>10 DEF Finish
  <2>4. <<>> \in Seq({}) /\ <<>> \in Seq(gc)
    OBVIOUS
  <2> QED
    BY <1>10, <2>2, <2>3, <2>4 DEF Finish, Converged
<1>11. CASE CallFinalizer
  <2>1. Tail(toFinalize) \in Seq(gc) /\ Head(toFinalize) \in gc
    BY <1>11 DEF CallFinalizer
  <2>2. called' \in [Objects -> Nat]
    BY <1>11, <2>1 DEF CallFinalizer
  <2> QED
    BY <1>11, <2>1, <2>2 DEF CallFinalizer, heapVars, marking
<1>12. CASE EndFinalizer \/ AbortFinalizers
  BY <1>12 DEF EndFinalizer, AbortFinalizers, heapVars, queues, marking, history
<1>13. CASE EndFinalizers
  BY <1>13 DEF EndFinalizers, heapVars, queues, flags, marking, history
<1>14. CASE Close
  <2>1. Reverse(finalizable) \in Seq(gc)
    BY OccurrencesReverse
  <2>2. toFinalize' \in Seq(gc) /\ finalizable' \in Seq(gc)
    BY <1>14, <2>1 DEF Close
  <2> QED
    BY <1>14, <2>2 DEF Close, heapVars, marking, history
<1>15. CASE UNCHANGED vars
  BY <1>15 DEF vars, heapVars, queues, flags, marking, history
<1> QED
  BY <1>1, <1>2, <1>3, <1>4, <1>5, <1>6, <1>7, <1>8, <1>9, <1>10, <1>11, <1>12, <1>13, <1>14, <1>15 DEF Next

\* Every object the collector, its lists and its queues name exists, and
\* every object in a queue has a __gc (collector, globalState).
THEOREM TypeCorrect == Spec => []TypeOK
BY InitType, NextType, PTL DEF Spec
-----------------------------------------------------------------------------
(* Queues.                                                                 *)

\* Inductive, with the types and the flag: nothing is dying but in a
\* collection, and Close leaves no queue that could be filled again.
QueueInv ==
  /\ phase # "mark" => dying = <<>>
  /\ closed => phase # "mark" /\ finalizable = <<>>
  /\ closed /\ phase = "lua" => toFinalize = <<>>

CountInv == TypeOK /\ BusyInv /\ QueueInv /\ QueuedOrCalledOnce

\* QueueInv holds at first.
LEMMA InitQueue == Init => QueueInv
BY DEF Init, QueueInv

\* So do the counts.
LEMMA InitCounts == Init => QueuedOrCalledOnce
BY OccurrencesEmpty DEF Init, QueuedOrCalledOnce

\* Every step keeps QueueInv.
LEMMA NextQueue == TypeOK /\ BusyInv /\ QueueInv /\ [Next]_vars => QueueInv'
<1> SUFFICES ASSUME TypeOK, BusyInv, QueueInv, [Next]_vars PROVE QueueInv'
  OBVIOUS
<1> USE DEF QueueInv
<1>1. ASSUME NEW o \in Objects, NEW m \in Modes, NEW fin \in BOOLEAN, New(o, m, fin)
      PROVE QueueInv'
  BY <1>1 DEF New, NoteFinalizer, marking, LuaRuns
<1>2. ASSUME NEW t \in Objects, NEW k \in Objects \union {Scalar}, NEW v \in Objects, Store(t, k, v)
      PROVE QueueInv'
  BY <1>2 DEF Store, queues, flags, marking
<1>3. ASSUME NEW e \in entries, Load(e) PROVE QueueInv'
  BY <1>3 DEF Load, queues, flags, marking
<1>4. ASSUME NEW o \in Objects, Drop(o) \/ Keep(o) PROVE QueueInv'
  BY <1>4 DEF Drop, Keep, queues, flags, marking
<1>5. ASSUME NEW automatic \in BOOLEAN, Collect(automatic) PROVE QueueInv'
  BY <1>5 DEF Collect, LuaRuns, BusyInv, queues
<1>6. ASSUME NEW t \in Objects, Propagate(t) PROVE QueueInv'
  BY <1>6 DEF Propagate, queues, flags
<1>7. CASE ConvergeTable \/ ConvergeAgain
  BY <1>7 DEF ConvergeTable, ConvergeAgain, queues, flags
<1>8. CASE Resurrect
  BY <1>8 DEF Resurrect, Converged, flags
<1>9. CASE Finish
  BY <1>9 DEF Finish, Converged
<1>10. CASE CallFinalizer
  BY <1>10 DEF CallFinalizer, marking
<1>11. CASE EndFinalizer \/ AbortFinalizers
  BY <1>11 DEF EndFinalizer, AbortFinalizers, queues, marking
<1>12. CASE EndFinalizers \/ Close
  BY <1>12 DEF EndFinalizers, Close, queues, flags, marking
<1>13. CASE UNCHANGED vars
  BY <1>13 DEF vars, queues, flags, marking
<1> QED
  BY <1>1, <1>2, <1>3, <1>4, <1>5, <1>6, <1>7, <1>8, <1>9, <1>10, <1>11, <1>12, <1>13 DEF Next

\* The terms of QueuedOrCalledOnce are numbers.
LEMMA CountTypes ==
  ASSUME TypeOK, NEW o \in Objects
  PROVE  /\ Occurrences(finalizable, o) \in Nat /\ Occurrences(toFinalize, o) \in Nat
         /\ Occurrences(dying, o) \in Nat /\ called[o] \in Nat
BY OccurrencesType DEF TypeOK

\* What a collection resurrects and what it leaves in the queue are, together,
\* what was in the queue.
LEMMA CountsSplit ==
  ASSUME NEW T, NEW s \in Seq(T), NEW A, NEW B,
         \A x \in T : (x \in A \/ x \in B) /\ ~(x \in A /\ x \in B),
         NEW o
  PROVE  Occurrences(Among(s, A), o) + Occurrences(Among(s, B), o) = Occurrences(s, o)
<1>1. Occurrences(Among(s, A), o) = IF o \in A THEN Occurrences(s, o) ELSE 0
  BY OccurrencesAmong
<1>2. Occurrences(Among(s, B), o) = IF o \in B THEN Occurrences(s, o) ELSE 0
  BY OccurrencesAmong
<1>3. Occurrences(s, o) \in Nat
  BY OccurrencesType
<1>4. o \notin T => Occurrences(s, o) = 0
  BY OccurrencesType, ElementsIn
<1> QED
  BY <1>1, <1>2, <1>3, <1>4

\* Every step keeps the counts.
LEMMA NextCounts == CountInv /\ [Next]_vars => QueuedOrCalledOnce'
<1> SUFFICES ASSUME CountInv, [Next]_vars, NEW p \in Objects
             PROVE  Occurrences(finalizable', p) + Occurrences(toFinalize', p)
                      + Occurrences(dying', p) + called'[p] = IF p \in flagged' THEN 1 ELSE 0
  BY DEF QueuedOrCalledOnce
<1>0. /\ TypeOK
      /\ Occurrences(finalizable, p) \in Nat /\ Occurrences(toFinalize, p) \in Nat
      /\ Occurrences(dying, p) \in Nat /\ called[p] \in Nat
      /\ Occurrences(finalizable, p) + Occurrences(toFinalize, p) + Occurrences(dying, p) + called[p]
           = IF p \in flagged THEN 1 ELSE 0
  BY CountTypes DEF CountInv, QueuedOrCalledOnce
<1>T. finalizable \in Seq(gc) /\ toFinalize \in Seq(gc) /\ dying \in Seq(gc)
      /\ flagged \subseteq gc /\ gc \subseteq Existing /\ called \in [Objects -> Nat]
      /\ gc \subseteq Objects
  BY DEF CountInv, TypeOK
<1>1. ASSUME NEW o \in Objects, NEW m \in Modes, NEW fin \in BOOLEAN, New(o, m, fin)
      PROVE Occurrences(finalizable', p) + Occurrences(toFinalize', p)
              + Occurrences(dying', p) + called'[p] = IF p \in flagged' THEN 1 ELSE 0
  <2>1. toFinalize' = toFinalize /\ dying' = dying /\ called' = called /\ o \notin Existing
    BY <1>1 DEF New, marking
  <2>2. CASE fin /\ ~(closed \/ o \in flagged)
    <3>1. finalizable' = Append(finalizable, o) /\ flagged' = flagged \union {o}
      BY <1>1, <2>2 DEF New, NoteFinalizer
    <3>2. finalizable \in Seq(Objects)
      BY <1>T, SeqMonotone
    <3>3. Occurrences(finalizable', p) = Occurrences(finalizable, p) + (IF o = p THEN 1 ELSE 0)
      BY <3>1, <3>2, OccurrencesAppend
    <3>4. o \notin flagged
      BY <2>2
    <3> QED
      BY <1>0, <2>1, <3>1, <3>3, <3>4
  <2>3. CASE ~(fin /\ ~(closed \/ o \in flagged))
    <3>1. finalizable' = finalizable /\ flagged' = flagged
      BY <1>1, <2>3 DEF New, NoteFinalizer
    <3> QED
      BY <1>0, <2>1, <3>1
  <2> QED
    BY <2>2, <2>3
<1>2. ASSUME UNCHANGED <<queues, dying, called>>
      PROVE Occurrences(finalizable', p) + Occurrences(toFinalize', p)
              + Occurrences(dying', p) + called'[p] = IF p \in flagged' THEN 1 ELSE 0
  BY <1>0, <1>2 DEF queues
<1>3. ASSUME NEW automatic \in BOOLEAN, Collect(automatic)
      PROVE UNCHANGED <<queues, dying, called>>
  BY <1>3 DEF Collect, LuaRuns, CountInv, QueueInv
<1>4. CASE Resurrect
  <2>1. /\ dying = <<>> /\ dying' = Among(finalizable, Existing \ marked)
        /\ finalizable' = Among(finalizable, marked)
        /\ toFinalize' = toFinalize /\ called' = called /\ flagged' = flagged
    BY <1>4 DEF Resurrect, history
  <2>2. Occurrences(dying', p) + Occurrences(finalizable', p) = Occurrences(finalizable, p)
    <3>1. \A x \in gc : /\ x \in Existing \ marked \/ x \in marked
                        /\ ~(x \in Existing \ marked /\ x \in marked)
      BY <1>T
    <3> DEFINE A == Existing \ marked
    <3> HIDE DEF A
    <3>2. Occurrences(Among(finalizable, A), p) + Occurrences(Among(finalizable, marked), p)
            = Occurrences(finalizable, p)
      <4>1. \A x \in gc : (x \in A \/ x \in marked) /\ ~(x \in A /\ x \in marked)
        BY <3>1 DEF A
      <4>2. finalizable \in Seq(gc)
        BY <1>T
      <4> QED
        BY ONLY <4>1, <4>2, CountsSplit
    <3> QED
      BY <2>1, <3>2 DEF A
  <2>3. Occurrences(dying', p) \in Nat /\ Occurrences(finalizable', p) \in Nat
    BY <1>T, <2>1, AmongElements, OccurrencesType
  <2>4. Occurrences(dying, p) = 0
    BY <2>1, OccurrencesEmpty
  <2> QED
    BY <1>0, <2>1, <2>2, <2>3, <2>4
<1>5. CASE Finish
  <2>1. /\ toFinalize' = toFinalize \o Reverse(dying) /\ dying' = <<>>
        /\ finalizable' = finalizable /\ called' = called /\ flagged' = flagged
    BY <1>5 DEF Finish
  <2>2. Reverse(dying) \in Seq(gc) /\ Occurrences(Reverse(dying), p) = Occurrences(dying, p)
    BY <1>T, OccurrencesReverse
  <2>3. Occurrences(toFinalize', p) = Occurrences(toFinalize, p) + Occurrences(dying, p)
    BY <1>T, <2>1, <2>2, OccurrencesConcat
  <2>4. Occurrences(dying', p) = 0
    BY <2>1, OccurrencesEmpty
  <2> QED
    BY <1>0, <2>1, <2>3, <2>4
<1>6. CASE CallFinalizer
  <2>1. /\ toFinalize # <<>> /\ toFinalize' = Tail(toFinalize)
        /\ called' = [called EXCEPT ![Head(toFinalize)] = @ + 1]
        /\ finalizable' = finalizable /\ dying' = dying /\ flagged' = flagged
    BY <1>6 DEF CallFinalizer, marking
  <2>2. /\ Tail(toFinalize) \in Seq(gc) /\ Head(toFinalize) \in gc
        /\ Occurrences(toFinalize, p) = Occurrences(Tail(toFinalize), p) + (IF Head(toFinalize) = p THEN 1 ELSE 0)
    BY <1>T, <2>1, OccurrencesTail
  <2>3. Occurrences(Tail(toFinalize), p) \in Nat
    BY <2>2, OccurrencesType
  <2> DEFINE o == Head(toFinalize)
             rest == Occurrences(Tail(toFinalize), p)
             one == IF o = p THEN 1 ELSE 0
  <2>4. called'[p] = called[p] + one
    BY <1>0, <1>T, <2>1, <2>2, SMTT(60)
  <2>5. finalizable' = finalizable /\ dying' = dying /\ flagged' = flagged
        /\ Occurrences(toFinalize', p) = rest /\ rest \in Nat
        /\ Occurrences(toFinalize, p) = rest + one /\ one \in {0, 1}
    BY <2>1, <2>2, <2>3
  <2> HIDE DEF one, rest
  <2>6. Occurrences(finalizable, p) + rest + Occurrences(dying, p) + called'[p] = IF p \in flagged THEN 1 ELSE 0
    BY ONLY <1>0, <2>4, <2>5
  <2> QED
    BY ONLY <2>5, <2>6
<1>7. CASE Close
  <2>1. /\ toFinalize' = toFinalize \o Reverse(finalizable) /\ finalizable' = <<>>
        /\ dying' = dying /\ called' = called /\ flagged' = flagged
    BY <1>7 DEF Close, marking, history
  <2>2. /\ Reverse(finalizable) \in Seq(gc)
        /\ Occurrences(Reverse(finalizable), p) = Occurrences(finalizable, p)
    BY <1>T, OccurrencesReverse
  <2>3. Occurrences(toFinalize', p) = Occurrences(toFinalize, p) + Occurrences(finalizable, p)
    BY <1>T, <2>1, <2>2, OccurrencesConcat
  <2>4. Occurrences(finalizable', p) = 0
    BY <2>1, OccurrencesEmpty
  <2> QED
    BY <1>0, <2>1, <2>3, <2>4
<1>8. ASSUME NEW t \in Objects, NEW k \in Objects \union {Scalar}, NEW v \in Objects, Store(t, k, v)
      PROVE UNCHANGED <<queues, dying, called>>
  BY <1>8 DEF Store, marking, history
<1>9. ASSUME NEW e \in entries, Load(e) PROVE UNCHANGED <<queues, dying, called>>
  BY <1>9 DEF Load, marking, history
<1>10. ASSUME NEW o \in Objects, Drop(o) \/ Keep(o) PROVE UNCHANGED <<queues, dying, called>>
  BY <1>10 DEF Drop, Keep, marking, history
<1>11. ASSUME NEW t \in Objects, Propagate(t) PROVE UNCHANGED <<queues, dying, called>>
  BY <1>11 DEF Propagate, history
<1>12. CASE ConvergeTable \/ ConvergeAgain
  BY <1>2, <1>12 DEF ConvergeTable, ConvergeAgain, history
<1>13. CASE EndFinalizer \/ AbortFinalizers
  BY <1>2, <1>13 DEF EndFinalizer, AbortFinalizers, marking, history
<1>14. CASE EndFinalizers \/ UNCHANGED vars
  BY <1>2, <1>14 DEF EndFinalizers, vars, marking, history
<1> QED
  BY <1>1, <1>2, <1>3, <1>4, <1>5, <1>6, <1>7, <1>8, <1>9, <1>10, <1>11, <1>12, <1>13, <1>14 DEF Next

\* CountInv holds of every behaviour.
LEMMA CountInductive == Spec => []CountInv
<1>1. Init => CountInv
  BY InitType, InitBusy, InitQueue, InitCounts DEF CountInv
<1>2. CountInv /\ [Next]_vars => CountInv'
  BY NextType, NextBusy, NextQueue, NextCounts DEF CountInv
<1> QED
  BY <1>1, <1>2, PTL DEF Spec

\* An object with a finalizer waits in exactly one queue until it is called,
\* and is called once, for any objects and bounds (finalizable, toFinalize).
THEOREM FinalizedOnce == Spec => []QueuedOrCalledOnce
<1>1. CountInv => QueuedOrCalledOnce
  BY DEF CountInv
<1> QED
  BY CountInductive, <1>1, PTL

\* After Close every object ever queued has had its finalizer called, for any
\* objects and bounds: the queues are empty then, and an object that is in no
\* queue was called (Close, runFinalizers).
THEOREM ClosedFinalizesAll == Spec => []CloseFinalizesAll
<1>1. CountInv => CloseFinalizesAll
  <2> SUFFICES ASSUME CountInv, closed, phase = "lua", NEW o \in flagged PROVE called[o] > 0
    BY DEF CloseFinalizesAll
  <2>1. dying = <<>> /\ finalizable = <<>> /\ toFinalize = <<>>
    BY DEF CountInv, QueueInv
  <2>2. o \in Objects /\ called[o] \in Nat
    BY DEF CountInv, TypeOK
  <2>3. Occurrences(finalizable, o) + Occurrences(toFinalize, o) + Occurrences(dying, o) + called[o] = 1
    BY <2>2 DEF CountInv, QueuedOrCalledOnce
  <2> QED
    BY <2>1, <2>2, <2>3, OccurrencesEmpty
<1> QED
  BY CountInductive, <1>1, PTL
-----------------------------------------------------------------------------
(* Marking.  Reach(R, E) is what every closed set that holds R holds; the   *)
(* marked objects are at any time in each such set, and when convergence    *)
(* ends they are one.                                                       *)

MarkRoots == before.reached \union ToSet(dying)

ClosedUnder(S, E) == \A e \in E : e[1] \in S => Holds(S \union {Scalar}, e)

\* The entries are those of the beginning, but for the values cleared before
\* anything was resurrected.
BeforeInv ==
  /\ before.reached \subseteq Existing
  /\ \A e \in before.entries : e \in Existing \X (Existing \union {Scalar}) \X Existing
  /\ before.finalizable \in Seq(gc)
  /\ dying = <<>> => entries = before.entries /\ finalizable = before.finalizable
  /\ dying # <<>> =>
       /\ Reached \subseteq marked \ gray
       /\ dying = Among(before.finalizable, Existing \ Reached)
       /\ entries = {e \in before.entries :
            ~(mode[e[1]] \in {"v", "kv"} /\ e[1] \in Reached /\ e[3] \notin Reached)}

\* What a traversed table holds is marked, or the table waits in a list.
TraversedInv ==
  \A t \in marked \ gray :
    /\ mode[t] = "k" => t \in ToSet(ephemerons)
    /\ mode[t] \in {"v", "kv"} => t \in weakTables
    /\ \A e \in before.entries : e[1] = t =>
         /\ mode[t] \in {"", "v"} => IsMarked(e[2])
         /\ mode[t] = "" => IsMarked(e[3])

\* The lists hold traversed tables of their mode, and a pass that marked
\* nothing leaves nothing to mark in the ephemeron tables it did.
ListsInv ==
  /\ \A t \in ToSet(ephemerons) : t \in marked \ gray /\ mode[t] = "k"
  /\ \A t \in weakTables : t \in marked \ gray /\ mode[t] \in {"v", "kv"}
  /\ at > 0
  /\ ~changed /\ at > 1 =>
       /\ gray = {}
       /\ \A i \in DOMAIN ephemerons : i < at =>
            \A e \in before.entries : e[1] = ephemerons[i] /\ IsMarked(e[2]) => IsMarked(e[3])

\* All marked objects are reachable.
SoundInv ==
  /\ MarkRoots \subseteq marked
  /\ \A S \in SUBSET Existing :
       MarkRoots \subseteq S /\ ClosedUnder(S, before.entries) => marked \subseteq S

MarkInv ==
  phase = "mark" => BeforeInv /\ TraversedInv /\ ListsInv /\ SoundInv

\* What is reached depends on the heap before the collection.
LEMMA ReachedSame == UNCHANGED <<mode, before>> => Reached' = Reached
BY DEF Reached, Reach, Holds, Existing

\* Types of what the collection began with and of what it reads.
LEMMA MarkTypes ==
  ASSUME TypeOK, BeforeInv
  PROVE  /\ \A e \in before.entries : /\ e[1] \in Existing /\ e[3] \in Existing
                                      /\ e[2] \in Existing \union {Scalar}
                                      /\ mode[e[1]] \in {"", "k", "v", "kv"}
         /\ entries \subseteq before.entries
         /\ Scalar \notin Existing
         /\ \A t \in Existing : mode[t] \in {"", "k", "v", "kv"}
         /\ \A e \in before.entries :
              e \in entries \/ (mode[e[1]] \in {"v", "kv"} /\ e[1] \in marked \ gray)
<1>1. Scalar \notin Existing /\ \A t \in Existing : mode[t] \in {"", "k", "v", "kv"}
  BY ObjectsAssumption DEF TypeOK
<1>2. \A e \in before.entries : e[1] \in Existing /\ e[3] \in Existing /\ e[2] \in Existing \union {Scalar}
  BY DEF BeforeInv
<1>3. entries \subseteq before.entries
  BY DEF BeforeInv
<1>4. \A e \in before.entries :
        e \in entries \/ (mode[e[1]] \in {"v", "kv"} /\ e[1] \in marked \ gray)
  BY DEF BeforeInv
<1> QED
  BY <1>1, <1>2, <1>3, <1>4

\* When convergence ends, the marked objects are exactly the reachable ones.
LEMMA ConvergedExact ==
  ASSUME TypeOK, BeforeInv, TraversedInv, ListsInv, SoundInv, Converged
  PROVE  /\ marked = Reach(MarkRoots, before.entries)
         /\ \A t \in marked : /\ t \in ToSet(ephemerons) <=> mode[t] = "k"
                              /\ t \in weakTables <=> mode[t] \in {"v", "kv"}
<1>1. gray = {} /\ at > Len(ephemerons) /\ ~changed /\ marked \subseteq Existing
  BY DEF Converged, TypeOK
<1>2. \A t \in marked : /\ t \in ToSet(ephemerons) <=> mode[t] = "k"
                        /\ t \in weakTables <=> mode[t] \in {"v", "kv"}
  BY <1>1 DEF TraversedInv, ListsInv
<1>3. ClosedUnder(marked, before.entries)
  <2> SUFFICES ASSUME NEW e \in before.entries, e[1] \in marked
               PROVE  Holds(marked \union {Scalar}, e)
    BY DEF ClosedUnder
  <2>1. mode[e[1]] \in {"", "k", "v", "kv"}
    BY MarkTypes
  <2>2. /\ mode[e[1]] \in {"", "v"} => IsMarked(e[2])
        /\ mode[e[1]] = "" => IsMarked(e[3])
    BY <1>1 DEF TraversedInv
  <2>3. mode[e[1]] = "k" /\ IsMarked(e[2]) => IsMarked(e[3])
    <3> SUFFICES ASSUME mode[e[1]] = "k", IsMarked(e[2]) PROVE IsMarked(e[3])
      OBVIOUS
    <3>1. PICK i \in DOMAIN ephemerons : ephemerons[i] = e[1]
      BY <1>2 DEF ToSet
    <3>2. i \in 1 .. Len(ephemerons) /\ Len(ephemerons) \in Nat /\ at \in Nat
      <4>1. ephemerons \in Seq(marked) /\ at \in Nat
        BY DEF TypeOK
      <4> QED
        BY <4>1
    <3>3. i < at /\ at > 1
      BY <1>1, <3>2
    <3> QED
      BY <1>1, <3>1, <3>3 DEF ListsInv
  <2> DEFINE M == marked \union {Scalar}
  <2>4. \A x : IsMarked(x) <=> x \in M
    BY DEF IsMarked
  <2> HIDE DEF M
  <2>5. /\ mode[e[1]] = "" => e[2] \in M /\ e[3] \in M
        /\ mode[e[1]] = "v" => e[2] \in M
        /\ mode[e[1]] = "k" /\ e[2] \in M => e[3] \in M
    BY <2>2, <2>3, <2>4
  <2>6. Holds(M, e)
    BY <2>1, <2>5 DEF Holds
  <2> QED
    BY <2>6 DEF M
<1>4. \A o \in marked : o \in Reach(MarkRoots, before.entries)
  BY <1>1 DEF SoundInv, Reach, ClosedUnder
<1>5. \A o \in Reach(MarkRoots, before.entries) : o \in marked
  <2>1. marked \in SUBSET Existing /\ MarkRoots \subseteq marked
    BY <1>1 DEF SoundInv
  <2>2. \A e \in before.entries : e[1] \in marked => Holds(marked \union {Scalar}, e)
    BY <1>3 DEF ClosedUnder
  <2> QED
    BY <2>1, <2>2 DEF Reach
<1> QED
  BY <1>2, <1>4, <1>5

\* The start of a collection keeps MarkInv.
LEMMA CollectMarks ==
  ASSUME TypeOK, QueueInv, NEW automatic \in BOOLEAN, Collect(automatic)
  PROVE  MarkInv'
<1>1. /\ marked' = roots \union ToSet(toFinalize) /\ gray' = marked'
      /\ ephemerons' = <<>> /\ weakTables' = {} /\ at' = 1 /\ changed' = FALSE /\ dying' = <<>>
      /\ before' = [entries |-> entries, reached |-> marked', finalizable |-> finalizable]
      /\ mode' = mode /\ gc' = gc /\ entries' = entries /\ finalizable' = finalizable
  BY DEF Collect, heapVars, queues
<1>2. before'.entries = entries /\ before'.reached = marked' /\ before'.finalizable = finalizable
  BY <1>1
<1>3. marked' \subseteq Existing'
  BY <1>1, ElementsIn DEF TypeOK, Existing
<1>4. BeforeInv'
  BY <1>1, <1>2, <1>3 DEF BeforeInv, TypeOK, Existing
<1>5. TraversedInv' /\ ListsInv'
  <2>1. ToSet(ephemerons') = {}
    BY <1>1, OccurrencesEmpty
  <2>2. marked' \ gray' = {}
    BY <1>1
  <2>3. ListsInv'
    BY <1>1, <2>1 DEF ListsInv
  <2> QED
    BY <2>2, <2>3 DEF TraversedInv
<1>6. SoundInv'
  BY <1>1, <1>2, OccurrencesEmpty DEF SoundInv, MarkRoots
<1> QED
  BY <1>4, <1>5, <1>6 DEF MarkInv

\* Marking keeps it.
LEMMA PropagateMarks ==
  ASSUME TypeOK, MarkInv, NEW t \in Objects, Propagate(t)
  PROVE  MarkInv'
<1>0. BeforeInv /\ TraversedInv /\ ListsInv /\ SoundInv
  BY DEF MarkInv, Propagate
<1>1. /\ t \in gray /\ gray \subseteq marked /\ marked \subseteq Existing
      /\ marked' = marked \union Kept(t)
      /\ gray' = (gray \ {t}) \union (Kept(t) \ marked)
      /\ ephemerons' = IF mode[t] = "k" THEN Append(ephemerons, t) ELSE ephemerons
      /\ weakTables' = IF mode[t] \in {"v", "kv"} THEN weakTables \union {t} ELSE weakTables
      /\ mode' = mode /\ gc' = gc /\ entries' = entries /\ finalizable' = finalizable
      /\ dying' = dying /\ before' = before /\ at' = at /\ changed' = changed
  BY DEF Propagate, TypeOK, heapVars, queues, history
<1>2. /\ \A x \in marked \ gray : x \in marked' \ gray'
      /\ \A x \in marked' \ gray' : x \in marked \ gray \/ x = t
      /\ t \in marked' \ gray'
  BY <1>1
<1>3. \A x : IsMarked(x) => IsMarked(x)'
  BY <1>1 DEF IsMarked
<1>4. BeforeInv'
  <2>1. Reached' = Reached
    BY <1>1, ReachedSame
  <2> QED
    BY <1>0, <1>1, <1>2, <2>1 DEF BeforeInv, Existing
<1>5. \A x : x \in ToSet(ephemerons') <=> x \in ToSet(ephemerons) \/ (mode[t] = "k" /\ x = t)
  <2>1. ephemerons \in Seq(marked) /\ t \in marked
    BY <1>1 DEF TypeOK
  <2> QED
    BY <1>1, <2>1, AppendElements
<1>6. \A e \in before.entries : e[1] = t =>
        /\ e \in EntriesOf(t) /\ mode[t] \in {"", "k", "v", "kv"}
        /\ e[2] \in Existing \union {Scalar} /\ e[3] \in Existing
  BY <1>0, <1>1, MarkTypes DEF EntriesOf
<1>7. TraversedInv'
  <2>1. \A e \in before.entries : e[1] = t =>
          /\ mode[t] \in {"", "v"} => e[2] \in Kept(t) \union {Scalar}
          /\ mode[t] = "" => e[3] \in Kept(t)
    <3> SUFFICES ASSUME NEW e \in before.entries, e[1] = t
                 PROVE  /\ mode[t] \in {"", "v"} => e[2] \in Kept(t) \union {Scalar}
                        /\ mode[t] = "" => e[3] \in Kept(t)
      OBVIOUS
    <3>1. e[3] # Scalar
      BY <1>0, <1>6, MarkTypes
    <3>2. CASE mode[t] = ""
      <4>1. Kept(t) = (UNION {{f[2], f[3]} : f \in EntriesOf(t)}) \ {Scalar}
        BY <3>2 DEF Kept
      <4>2. e[2] \in {e[2], e[3]} /\ e[3] \in {e[2], e[3]} /\ e \in EntriesOf(t)
        BY <1>6
      <4> QED
        BY <3>1, <3>2, <4>1, <4>2
    <3>3. CASE mode[t] = "v"
      <4>1. Kept(t) = {f[2] : f \in EntriesOf(t)} \ {Scalar}
        BY <3>3 DEF Kept
      <4> QED
        BY <1>6, <3>3, <4>1
    <3> QED
      BY <3>2, <3>3
  <2>2. SUFFICES ASSUME NEW x \in marked' \ gray'
                 PROVE  /\ mode[x] = "k" => x \in ToSet(ephemerons')
                        /\ mode[x] \in {"v", "kv"} => x \in weakTables'
                        /\ \A e \in before.entries : e[1] = x =>
                             /\ mode[x] \in {"", "v"} => IsMarked(e[2])'
                             /\ mode[x] = "" => IsMarked(e[3])'
    BY <1>1 DEF TraversedInv, IsMarked
  <2>3. CASE x = t
    BY <1>1, <1>5, <2>1, <2>3 DEF IsMarked
  <2>4. CASE x \in marked \ gray
    <3>1. /\ mode[x] = "k" => x \in ToSet(ephemerons)
          /\ mode[x] \in {"v", "kv"} => x \in weakTables
          /\ \A e \in before.entries : e[1] = x =>
               /\ mode[x] \in {"", "v"} => IsMarked(e[2])
               /\ mode[x] = "" => IsMarked(e[3])
      BY <1>0, <2>4 DEF TraversedInv
    <3> QED
      BY <1>1, <1>3, <1>5, <3>1
  <2> QED
    BY <1>2, <2>3, <2>4
<1>8. ListsInv'
  <2>1. \A x \in ToSet(ephemerons') : x \in marked' \ gray' /\ mode'[x] = "k"
    BY <1>0, <1>1, <1>2, <1>5 DEF ListsInv
  <2>2. \A x \in weakTables' : x \in marked' \ gray' /\ mode'[x] \in {"v", "kv"}
    BY <1>0, <1>1, <1>2 DEF ListsInv
  <2>3. at' > 0 /\ ~(~changed' /\ at' > 1)
    BY <1>0, <1>1 DEF ListsInv
  <2> QED
    BY <2>1, <2>2, <2>3 DEF ListsInv
<1>9. SoundInv'
  <2>1. MarkRoots' = MarkRoots /\ MarkRoots \subseteq marked'
    BY <1>0, <1>1 DEF MarkRoots, SoundInv
  <2>2. ASSUME NEW S \in SUBSET Existing, MarkRoots \subseteq S, ClosedUnder(S, before.entries)
        PROVE  marked' \subseteq S
    <3>1. marked \subseteq S /\ t \in S
      BY <1>0, <1>1, <2>2 DEF SoundInv
    <3>2. Scalar \notin S /\ mode[t] \in {"", "k", "v", "kv"}
      BY <1>0, <1>1, MarkTypes
    <3>3. \A e \in EntriesOf(t) :
            /\ e[3] \in Existing
            /\ mode[t] = "" => e[2] \in S \union {Scalar} /\ e[3] \in S \union {Scalar}
            /\ mode[t] = "v" => e[2] \in S \union {Scalar}
            /\ mode[t] = "k" /\ e[2] \in S \union {Scalar} => e[3] \in S \union {Scalar}
      <4> SUFFICES ASSUME NEW e \in EntriesOf(t)
                   PROVE  /\ e[3] \in Existing
                          /\ mode[t] = "" => e[2] \in S \union {Scalar} /\ e[3] \in S \union {Scalar}
                          /\ mode[t] = "v" => e[2] \in S \union {Scalar}
                          /\ mode[t] = "k" /\ e[2] \in S \union {Scalar} => e[3] \in S \union {Scalar}
        OBVIOUS
      <4>1. e \in before.entries /\ e[1] = t
        BY <1>0, MarkTypes DEF EntriesOf
      <4> DEFINE M == S \union {Scalar}
      <4>2. Holds(M, e)
        BY <2>2, <3>1, <4>1 DEF ClosedUnder
      <4> HIDE DEF M
      <4>3. /\ mode[t] = "" => e[2] \in M /\ e[3] \in M
            /\ mode[t] = "v" => e[2] \in M
            /\ mode[t] = "k" /\ e[2] \in M => e[3] \in M
        BY <3>2, <4>1, <4>2 DEF Holds
      <4> QED
        BY <1>6, <4>1, <4>3 DEF M
    <3>4. \A e \in EntriesOf(t) : e[3] # Scalar
      BY <1>0, <3>3, MarkTypes
    <3>5. \A x \in Kept(t) : x \in S
      <4>1. CASE mode[t] = ""
        <5>1. Kept(t) = (UNION {{f[2], f[3]} : f \in EntriesOf(t)}) \ {Scalar}
          BY <4>1 DEF Kept
        <5>2. \A x \in Kept(t) : x # Scalar /\ \E f \in EntriesOf(t) : x = f[2] \/ x = f[3]
          BY <5>1
        <5> QED
          BY <3>3, <4>1, <5>2
      <4>2. CASE mode[t] = "v"
        BY <3>3, <4>2 DEF Kept
      <4>3. CASE mode[t] = "k"
        <5>1. Kept(t) = {e[3] : e \in {f \in EntriesOf(t) : IsMarked(f[2])}}
          BY <4>3 DEF Kept
        <5> QED
          BY <3>1, <3>3, <3>4, <4>3, <5>1 DEF IsMarked
      <4>4. CASE mode[t] = "kv"
        BY <4>4 DEF Kept
      <4> QED
        BY <3>2, <4>1, <4>2, <4>3, <4>4
    <3> QED
      BY <1>1, <3>1, <3>5
  <2>3. \A S : ClosedUnder(S, before.entries)' <=> ClosedUnder(S, before.entries)
    BY <1>1 DEF ClosedUnder, Holds
  <2> QED
    BY <1>1, <2>1, <2>2, <2>3 DEF SoundInv, Existing
<1> QED
  BY <1>4, <1>7, <1>8, <1>9 DEF MarkInv
\* A pass over the ephemerons keeps it.
LEMMA ConvergeMarks ==
  ASSUME TypeOK, MarkInv, ConvergeTable
  PROVE  MarkInv'
<1> DEFINE t == ephemerons[at]
           new == {e[3] : e \in {f \in EntriesOf(t) : IsMarked(f[2])}} \ marked
<1>0. BeforeInv /\ TraversedInv /\ ListsInv /\ SoundInv
  BY DEF MarkInv, ConvergeTable
<1>1. /\ gray = {} /\ at <= Len(ephemerons)
      /\ marked' = marked \union new /\ gray' = gray \union (new \ marked)
      /\ changed' = (changed \/ new # {}) /\ at' = at + 1
      /\ ephemerons' = ephemerons /\ weakTables' = weakTables
      /\ mode' = mode /\ gc' = gc /\ entries' = entries /\ finalizable' = finalizable
      /\ dying' = dying /\ before' = before
  BY DEF ConvergeTable, Mark, heapVars, queues, history
<1>2. ephemerons \in Seq(marked) /\ at \in Nat /\ at > 0 /\ marked \subseteq Existing
  BY <1>0 DEF TypeOK, ListsInv
<1>3. at \in DOMAIN ephemerons /\ t \in marked /\ mode[t] = "k"
  <2>1. at \in 1 .. Len(ephemerons) /\ Len(ephemerons) \in Nat
    BY <1>1, <1>2
  <2>2. at \in DOMAIN ephemerons
    BY <1>2, <2>1
  <2> QED
    BY <1>0, <2>2 DEF ToSet, ListsInv
<1>4. marked' \ gray' = marked /\ marked \ gray = marked
  BY <1>1
<1>5. \A x : IsMarked(x) => IsMarked(x)'
  BY <1>1 DEF IsMarked
<1>6. \A e \in before.entries : e[1] = t => e \in EntriesOf(t) /\ e[3] \in Existing
  BY <1>0, <1>3, MarkTypes DEF EntriesOf
<1>7. \A e \in EntriesOf(t) : e \in before.entries /\ e[1] = t
  BY <1>0, MarkTypes DEF EntriesOf
<1>8. BeforeInv'
  <2>1. Reached' = Reached
    BY <1>1, ReachedSame
  <2> QED
    BY <1>0, <1>1, <1>4, <2>1 DEF BeforeInv, Existing
<1>9. TraversedInv'
  <2> HIDE DEF new, t
  <2> SUFFICES ASSUME NEW x \in marked
               PROVE  /\ mode[x] = "k" => x \in ToSet(ephemerons)
                      /\ mode[x] \in {"v", "kv"} => x \in weakTables
                      /\ \A e \in before.entries : e[1] = x =>
                           /\ mode[x] \in {"", "v"} => IsMarked(e[2])'
                           /\ mode[x] = "" => IsMarked(e[3])'
    BY <1>1, <1>4 DEF TraversedInv, IsMarked
  <2> QED
    BY <1>0, <1>4, <1>5 DEF TraversedInv
<1>10. ListsInv'
  <2>1. /\ \A x \in ToSet(ephemerons) : x \in marked' \ gray' /\ mode[x] = "k"
        /\ \A x \in weakTables : x \in marked' \ gray' /\ mode[x] \in {"v", "kv"}
    BY <1>0, <1>4 DEF ListsInv
  <2>2. at' > 0
    BY <1>1, <1>2
  <2>3. ASSUME ~changed'
        PROVE  /\ gray' = {}
               /\ \A i \in DOMAIN ephemerons : i < at' =>
                    \A e \in before.entries : e[1] = ephemerons[i] /\ IsMarked(e[2])' => IsMarked(e[3])'
    <3>1. ~changed /\ new = {}
      BY <1>1, <2>3
    <3> HIDE DEF new
    <3>2. gray' = {} /\ marked' = marked
      BY <1>1, <3>1
    <3>3. \A x : IsMarked(x)' <=> IsMarked(x)
      BY <3>2 DEF IsMarked
    <3>4. ASSUME NEW i \in DOMAIN ephemerons, i < at', NEW e \in before.entries,
                 e[1] = ephemerons[i], IsMarked(e[2])
          PROVE  IsMarked(e[3])
      <4>1. i \in Nat /\ i >= 1
        BY <1>2
      <4>2. CASE i < at
        <5>1. at > 1
          BY <1>2, <4>1, <4>2
        <5> QED
          BY <1>0, <3>1, <3>4, <4>2, <5>1 DEF ListsInv
      <4>3. CASE i = at
        <5>1. e \in EntriesOf(t)
          BY <1>6, <3>4, <4>3
        <5>2. e[3] \in marked
          BY <3>1, <3>4, <5>1 DEF new
        <5> QED
          BY <5>2 DEF IsMarked
      <4> QED
        BY <1>1, <1>2, <3>4, <4>1, <4>2, <4>3
    <3> QED
      BY <3>2, <3>3, <3>4
  <2> HIDE DEF new, t
  <2> QED
    BY <1>1, <2>1, <2>2, <2>3 DEF ListsInv, IsMarked
<1>11. SoundInv'
  <2>1. MarkRoots' = MarkRoots /\ MarkRoots \subseteq marked'
    BY <1>0, <1>1 DEF MarkRoots, SoundInv
  <2>2. ASSUME NEW S \in SUBSET Existing, MarkRoots \subseteq S, ClosedUnder(S, before.entries)
        PROVE  marked' \subseteq S
    <3>1. marked \subseteq S
      BY <1>0, <2>2 DEF SoundInv
    <3>2. ASSUME NEW e \in EntriesOf(t), IsMarked(e[2]) PROVE e[3] \in S
      <4>1. Holds(S \union {Scalar}, e)
        BY <1>3, <1>7, <2>2, <3>1 DEF ClosedUnder
      <4>2. e[2] \in S \union {Scalar} /\ mode[e[1]] = "k"
        BY <1>3, <1>7, <3>1, <3>2 DEF IsMarked
      <4>3. e[3] \in S \union {Scalar}
        BY <4>1, <4>2 DEF Holds
      <4>4. e[3] # Scalar
        BY <1>0, <1>6, <1>7, MarkTypes
      <4> QED
        BY <4>3, <4>4
    <3>3. \A x \in new : x \in S
      BY <3>2
    <3> HIDE DEF new
    <3> QED
      BY <1>1, <3>1, <3>3
  <2>3. \A S : ClosedUnder(S, before.entries)' <=> ClosedUnder(S, before.entries)
    BY <1>1 DEF ClosedUnder, Holds
  <2> HIDE DEF new, t
  <2> QED
    BY <1>1, <2>1, <2>2, <2>3 DEF SoundInv, Existing
<1> QED
  BY <1>8, <1>9, <1>10, <1>11 DEF MarkInv

\* So does the start of another pass.
LEMMA AgainMarks ==
  ASSUME TypeOK, MarkInv, ConvergeAgain
  PROVE  MarkInv'
<1>0. BeforeInv /\ TraversedInv /\ ListsInv /\ SoundInv
  BY DEF MarkInv, ConvergeAgain
<1>1. /\ at' = 1 /\ marked' = marked /\ gray' = gray
      /\ ephemerons' = ephemerons /\ weakTables' = weakTables
      /\ mode' = mode /\ gc' = gc /\ entries' = entries /\ finalizable' = finalizable
      /\ dying' = dying /\ before' = before
  BY DEF ConvergeAgain, heapVars, queues, history
<1>2. Reached' = Reached
  BY <1>1, ReachedSame
<1>3. BeforeInv'
  BY <1>0, <1>1, <1>2 DEF BeforeInv, Existing
<1>4. TraversedInv'
  BY <1>0, <1>1 DEF TraversedInv, IsMarked
<1>5. ListsInv'
  BY <1>0, <1>1 DEF ListsInv
<1>6. SoundInv'
  BY <1>0, <1>1 DEF SoundInv, MarkRoots, ClosedUnder, Holds, Existing
<1> QED
  BY <1>3, <1>4, <1>5, <1>6 DEF MarkInv

\* So does the marking of what is to be finalized.
LEMMA ResurrectMarks ==
  ASSUME TypeOK, MarkInv, Resurrect
  PROVE  MarkInv'
<1>0. BeforeInv /\ TraversedInv /\ ListsInv /\ SoundInv /\ Converged
  BY DEF MarkInv, Resurrect, Converged
<1>1. /\ dying = <<>> /\ gray = {}
      /\ entries' = entries \ DeadValues(entries)
      /\ dying' = Among(finalizable, Existing \ marked)
      /\ marked' = marked \union ToSet(dying') /\ gray' = gray \union (ToSet(dying') \ marked)
      /\ at' = 1 /\ ephemerons' = ephemerons /\ weakTables' = weakTables
      /\ mode' = mode /\ gc' = gc /\ before' = before
  BY DEF Resurrect, Converged, Mark, history
<1>2. finalizable \in Seq(gc) /\ gc \subseteq Existing /\ marked \subseteq Existing
  BY DEF TypeOK
<1>3. \A x : x \in ToSet(dying') <=> x \in Existing \ marked /\ x \in ToSet(finalizable)
  BY <1>1, <1>2, AmongElements
<1>4. dying' # <<>>
  <2>1. PICK i \in DOMAIN finalizable : finalizable[i] \notin marked
    BY DEF Resurrect
  <2>2. finalizable[i] \in ToSet(finalizable) /\ finalizable[i] \in Existing
    BY <1>2, <2>1 DEF ToSet
  <2>3. ToSet(dying') # {}
    BY <1>3, <2>1, <2>2
  <2> QED
    BY <2>3, OccurrencesEmpty
<1>5. marked' \ gray' = marked /\ marked \ gray = marked
  BY <1>1, <1>3
<1>6. \A x : IsMarked(x) => IsMarked(x)'
  BY <1>1 DEF IsMarked
<1>7. /\ marked = Reach(MarkRoots, before.entries)
      /\ \A t \in marked : t \in weakTables <=> mode[t] \in {"v", "kv"}
  BY <1>0, ConvergedExact
<1>8. MarkRoots = before.reached
  BY <1>1, OccurrencesEmpty DEF MarkRoots
<1>9. marked = Reached
  BY <1>7, <1>8 DEF Reached
<1>10. BeforeInv'
  <2>1. Reached' = marked
    BY <1>1, <1>9, ReachedSame
  <2>2. dying' = Among(before.finalizable, Existing \ marked)
    BY <1>0, <1>1 DEF BeforeInv
  <2>3. entries = before.entries
    BY <1>0, <1>1 DEF BeforeInv
  <2>4. entries' = {e \in before.entries :
                      ~(mode[e[1]] \in {"v", "kv"} /\ e[1] \in marked /\ e[3] \notin marked)}
    <3>1. \A e \in before.entries : e[1] \in weakTables <=> mode[e[1]] \in {"v", "kv"} /\ e[1] \in marked
      BY <1>0, <1>7 DEF ListsInv
    <3> QED
      BY <1>1, <2>3, <3>1 DEF DeadValues
  <2> QED
    BY <1>0, <1>1, <1>4, <1>5, <2>1, <2>2, <2>4 DEF BeforeInv, Existing
<1>11. TraversedInv'
  <2> SUFFICES ASSUME NEW x \in marked
               PROVE  /\ mode[x] = "k" => x \in ToSet(ephemerons)
                      /\ mode[x] \in {"v", "kv"} => x \in weakTables
                      /\ \A e \in before.entries : e[1] = x =>
                           /\ mode[x] \in {"", "v"} => IsMarked(e[2])'
                           /\ mode[x] = "" => IsMarked(e[3])'
    BY <1>1, <1>5 DEF TraversedInv, IsMarked
  <2> QED
    BY <1>0, <1>5, <1>6 DEF TraversedInv
<1>12. ListsInv'
  BY <1>0, <1>1, <1>5 DEF ListsInv
<1>13. SoundInv'
  <2>1. MarkRoots' = before.reached \union ToSet(dying') /\ MarkRoots' \subseteq marked'
    <3>1. before.reached \subseteq marked
      BY <1>0, <1>8 DEF SoundInv
    <3>2. MarkRoots' = before.reached \union ToSet(dying')
      BY <1>1 DEF MarkRoots
    <3> QED
      BY <1>1, <3>1, <3>2
  <2>2. ASSUME NEW S \in SUBSET Existing, MarkRoots' \subseteq S, ClosedUnder(S, before.entries)
        PROVE  marked' \subseteq S
    <3>1. marked \subseteq S
      BY <1>0, <1>8, <2>1, <2>2 DEF SoundInv
    <3> QED
      BY <1>1, <2>1, <2>2, <3>1
  <2>3. \A S : ClosedUnder(S, before.entries)' <=> ClosedUnder(S, before.entries)
    BY <1>1 DEF ClosedUnder, Holds
  <2> QED
    BY <1>1, <2>1, <2>2, <2>3 DEF SoundInv, Existing
<1> QED
  BY <1>10, <1>11, <1>12, <1>13 DEF MarkInv

\* Every step keeps it.
LEMMA NextMarks == CountInv /\ MarkInv /\ [Next]_vars => MarkInv'
<1> SUFFICES ASSUME CountInv, MarkInv, [Next]_vars PROVE MarkInv'
  OBVIOUS
<1>0. TypeOK /\ QueueInv
  BY DEF CountInv
<1>1. ASSUME NEW o \in Objects, NEW m \in Modes, NEW fin \in BOOLEAN, New(o, m, fin)
      PROVE MarkInv'
  BY <1>1 DEF New, LuaRuns, MarkInv
<1>2. ASSUME NEW t \in Objects, NEW k \in Objects \union {Scalar}, NEW v \in Objects, Store(t, k, v)
      PROVE MarkInv'
  BY <1>2 DEF Store, LuaRuns, MarkInv
<1>3. ASSUME NEW e \in entries, Load(e) PROVE MarkInv'
  BY <1>3 DEF Load, LuaRuns, MarkInv
<1>4. ASSUME NEW o \in Objects, Drop(o) \/ Keep(o) PROVE MarkInv'
  BY <1>4 DEF Drop, Keep, LuaRuns, MarkInv
<1>5. ASSUME NEW automatic \in BOOLEAN, Collect(automatic) PROVE MarkInv'
  BY <1>0, <1>5, CollectMarks
<1>6. ASSUME NEW t \in Objects, Propagate(t) PROVE MarkInv'
  BY <1>0, <1>6, PropagateMarks
<1>7. CASE ConvergeTable \/ ConvergeAgain \/ Resurrect
  BY <1>0, <1>7, ConvergeMarks, AgainMarks, ResurrectMarks
<1>8. CASE Finish \/ CallFinalizer \/ EndFinalizer \/ AbortFinalizers \/ EndFinalizers \/ Close
  BY <1>8 DEF Finish, CallFinalizer, EndFinalizer, AbortFinalizers, EndFinalizers, Close, MarkInv
<1>9. CASE UNCHANGED vars
  <2>1. UNCHANGED <<mode, gc, entries, finalizable, phase, before>> /\ UNCHANGED marking
    BY <1>9 DEF vars, heapVars, queues, history
  <2>2. Reached' = Reached
    BY <2>1, ReachedSame
  <2>3. BeforeInv => BeforeInv'
    BY <2>1, <2>2 DEF BeforeInv, Existing, marking
  <2>4. (TraversedInv => TraversedInv') /\ (ListsInv => ListsInv')
    BY <2>1 DEF TraversedInv, ListsInv, IsMarked, marking
  <2>5. SoundInv => SoundInv'
    BY <2>1 DEF SoundInv, MarkRoots, ClosedUnder, Holds, Existing, marking
  <2> QED
    BY <2>1, <2>3, <2>4, <2>5 DEF MarkInv
<1> QED
  BY <1>1, <1>2, <1>3, <1>4, <1>5, <1>6, <1>7, <1>8, <1>9 DEF Next

CollectorInv == CountInv /\ MarkInv

\* The invariant holds of every behaviour.
LEMMA CollectorInductive == Spec => []CollectorInv
<1>1. Init => MarkInv
  BY DEF Init, MarkInv
<1>2. CountInv /\ [Next]_vars => CountInv'
  BY NextType, NextBusy, NextQueue, NextCounts DEF CountInv
<1>3. Init => CountInv
  BY InitType, InitBusy, InitQueue, InitCounts DEF CountInv
<1>4. CollectorInv /\ [Next]_vars => CollectorInv'
  BY <1>2, NextMarks DEF CollectorInv
<1>5. Init => CollectorInv
  BY <1>1, <1>3 DEF CollectorInv
<1> QED
  BY <1>4, <1>5, PTL DEF Spec

\* When a collection ends what is marked is what is reachable with what it
\* resurrected; and what it resurrected is what had a finalizer and was not
\* reachable before.
LEMMA FinishExact ==
  ASSUME CollectorInv, Finish
  PROVE  /\ marked = Resurrected
         /\ dying = <<>> => marked = Reached
         /\ dying = Among(before.finalizable, Existing \ Reached)
         /\ \A t \in marked : /\ t \in ToSet(ephemerons) <=> mode[t] = "k"
                              /\ t \in weakTables <=> mode[t] \in {"v", "kv"}
<1>0. TypeOK /\ BeforeInv /\ TraversedInv /\ ListsInv /\ SoundInv /\ Converged
  BY DEF CollectorInv, CountInv, MarkInv, Finish, Converged
<1>1. /\ marked = Reach(MarkRoots, before.entries)
      /\ \A t \in marked : /\ t \in ToSet(ephemerons) <=> mode[t] = "k"
                           /\ t \in weakTables <=> mode[t] \in {"v", "kv"}
  BY <1>0, ConvergedExact
<1>2. marked = Resurrected
  BY <1>1 DEF MarkRoots, Resurrected
<1>3. dying = <<>> => marked = Reached
  <2> SUFFICES ASSUME dying = <<>> PROVE marked = Reached
    OBVIOUS
  <2>1. MarkRoots = before.reached
    BY OccurrencesEmpty DEF MarkRoots
  <2> QED
    BY <1>1, <2>1 DEF Reached
<1>4. dying = Among(before.finalizable, Existing \ Reached)
  <2>1. CASE dying # <<>>
    BY <1>0, <2>1 DEF BeforeInv
  <2>2. CASE dying = <<>>
    <3>1. \A i \in DOMAIN finalizable : finalizable[i] \notin Existing \ Reached
      BY <1>3, <2>2 DEF Finish
    <3>2. finalizable \in Seq(gc) /\ before.finalizable = finalizable
      BY <1>0, <2>2 DEF TypeOK, BeforeInv
    <3>3. Among(finalizable, Existing \ Reached) = <<>>
      BY <3>1, <3>2, AmongNone
    <3> QED
      BY <2>2, <3>2, <3>3
  <2> QED
    BY <2>1, <2>2
<1> QED
  BY <1>1, <1>2, <1>3, <1>4

\* A collection finalizes exactly what had a finalizer and was not reachable,
\* newest first, after what was due, whatever the order it marked in, for any
\* objects and bounds (collect).
THEOREM UnreachableFinalized == Spec => FinalizesUnreachable
<1>1. CollectorInv /\ [Next]_vars =>
        [Finish => toFinalize' = toFinalize \o Reverse(Among(before.finalizable, Existing \ Reached))]_vars
  <2> SUFFICES ASSUME CollectorInv, Finish
               PROVE  toFinalize' = toFinalize \o Reverse(Among(before.finalizable, Existing \ Reached))
    OBVIOUS
  <2>1. toFinalize' = toFinalize \o Reverse(dying)
    BY DEF Finish
  <2> QED
    BY <2>1, FinishExact
<1> QED
  BY CollectorInductive, <1>1, PTL DEF Spec, FinalizesUnreachable

\* A collection removes exactly the weak entries whose value or key is not
\* reachable at the time Lua's manual gives for it, whatever the order objects
\* are marked in, for any objects and bounds (clearValues, clearKeys,
\* convergeEphemerons).
THEOREM WeakEntriesCleared == Spec => WeakEntriesExact
<1>1. CollectorInv /\ [Next]_vars =>
        [Finish => entries' = {e \in before.entries : ~Cleared(e)}]_vars
  <2> SUFFICES ASSUME CollectorInv, Finish
               PROVE  entries' = {e \in before.entries : ~Cleared(e)}
    OBVIOUS
  <2>0. TypeOK /\ BeforeInv /\ ListsInv /\ gray = {}
    BY DEF CollectorInv, CountInv, MarkInv, Finish, Converged
  <2>1. /\ marked = Resurrected /\ (dying = <<>> => marked = Reached)
        /\ \A t \in marked : /\ t \in ToSet(ephemerons) <=> mode[t] = "k"
                             /\ t \in weakTables <=> mode[t] \in {"v", "kv"}
    BY FinishExact
  <2>2. \A t \in ToSet(ephemerons) \union weakTables : t \in marked
    BY <2>0 DEF ListsInv
  <2>3. entries' = entries \ (DeadValues(entries) \union DeadKeys(entries))
    BY DEF Finish
  <2>4. \A e \in before.entries :
          e \in entries <=> (dying = <<>> \/ ~(mode[e[1]] \in {"v", "kv"} /\ e[1] \in Reached /\ e[3] \notin Reached))
    BY <2>0 DEF BeforeInv
  <2>5. \A e \in before.entries :
          e \in DeadValues(entries) <=> /\ e \in entries /\ mode[e[1]] \in {"v", "kv"}
                                        /\ e[1] \in marked /\ e[3] \notin marked
    BY <2>1, <2>2 DEF DeadValues
  <2>6. \A e \in before.entries :
          e \in DeadKeys(entries) <=> /\ e \in entries /\ mode[e[1]] \in {"k", "kv"}
                                      /\ e[1] \in marked /\ e[2] \notin marked \union {Scalar}
    BY <2>1, <2>2 DEF DeadKeys, IsMarked
  <2>7. \A e \in before.entries : e \in entries' <=> ~Cleared(e)
    BY <2>1, <2>3, <2>4, <2>5, <2>6 DEF Cleared
  <2>8. entries' \subseteq before.entries
    BY <2>0, <2>3, MarkTypes
  <2> QED
    BY <2>7, <2>8
<1> QED
  BY CollectorInductive, <1>1, PTL DEF Spec, WeakEntriesExact
=============================================================================
