----------------------------- MODULE TableLemmas -----------------------------
(* What each operation on a table does to what its keys give, and what it  *)
(* preserves of the table's parts.                                         *)
EXTENDS TableOps, FiniteSetTheorems, FunctionTheorems, SequenceTheorems, WellFoundedInduction, TLAPS

-----------------------------------------------------------------------------
(* What Among keeps of a sequence.                                         *)

\* Positions are finitely many.
LEMMA PositionsFinite ==
  ASSUME NEW T, NEW s \in Seq(T), NEW K \in SUBSET DOMAIN s
  PROVE  IsFiniteSet(K) /\ Cardinality(K) \in Nat /\ K \subseteq Nat
<1>1. DOMAIN s = 1 .. Len(s) /\ Len(s) \in Nat
  OBVIOUS
<1>2. IsFiniteSet(1 .. Len(s))
  BY <1>1, FS_Interval
<1>3. IsFiniteSet(K)
  BY <1>1, <1>2, FS_Subset
<1> QED
  BY <1>1, <1>3, FS_CardinalityType

\* The ranks of a finite set of numbers count it from one on, in its order.
LEMMA RanksIncrease ==
  ASSUME NEW K \in SUBSET Nat, IsFiniteSet(K)
  PROVE  /\ \A i \in K : Rank(K, i) \in 1 .. Cardinality(K)
         /\ \A i, j \in K : i < j => Rank(K, i) < Rank(K, j)
<1> DEFINE Upto(i) == {j \in K : j <= i}
<1>1. \A i \in K : IsFiniteSet(Upto(i)) /\ Cardinality(Upto(i)) \in Nat
  BY FS_Subset, FS_CardinalityType
<1>2. ASSUME NEW i \in K PROVE Cardinality(Upto(i)) \in 1 .. Cardinality(K)
  <2>1. i \in Upto(i)
    OBVIOUS
  <2>2. Cardinality(Upto(i)) # 0
    BY <1>1, <2>1, FS_EmptySet
  <2>3. Cardinality(Upto(i)) <= Cardinality(K) /\ Cardinality(K) \in Nat
    BY FS_Subset, FS_CardinalityType
  <2> QED
    BY <1>1, <2>2, <2>3
<1>3. ASSUME NEW i \in K, NEW j \in K, i < j
      PROVE  Cardinality(Upto(i)) < Cardinality(Upto(j))
  <2>1. Upto(i) \in SUBSET Upto(j)
    <3>1. i \in Nat /\ j \in Nat /\ \A k \in K : k \in Nat
      OBVIOUS
    <3>2. \A k \in Upto(i) : k \in Upto(j)
      BY <1>3, <3>1
    <3> QED
      BY <3>2
  <2>2. j \in Upto(j) /\ j \notin Upto(i)
    BY <1>3
  <2>3. Upto(i) # Upto(j)
    BY <2>2
  <2>4. Cardinality(Upto(i)) <= Cardinality(Upto(j)) /\ Cardinality(Upto(i)) # Cardinality(Upto(j))
    BY <1>1, <2>1, <2>3, FS_Subset
  <2> QED
    BY <1>1, <2>4
<1> QED
  BY <1>2, <1>3 DEF Rank

\* Ranks number what they rank, without gaps.
LEMMA RanksReachAll ==
  ASSUME NEW K \in SUBSET Nat, IsFiniteSet(K), NEW n \in 1 .. Cardinality(K)
  PROVE  \E i \in K : Rank(K, i) = n
<1> DEFINE r == [i \in K |-> Rank(K, i)]
           N == 1 .. Cardinality(K)
<1>1. r \in [K -> N]
  BY RanksIncrease
<1>2. \A i, j \in K : r[i] = r[j] => i = j
  BY RanksIncrease
<1>3. r \in Injection(K, N)
  BY <1>1, <1>2, Fun_IsInj
<1>4. IsFiniteSet(N) /\ Cardinality(N) = Cardinality(K)
  BY FS_Interval, FS_CardinalityType
<1>5. r \in Surjection(K, N)
  BY <1>3, <1>4, FS_Injection
<1>6. \E i \in K : r[i] = n
  <2>1. n \in N
    OBVIOUS
  <2> HIDE DEF r, N
  <2>2. \A m \in N : \E i \in K : r[i] = m
    BY <1>5, Fun_SurjectionProperties
  <2> QED
    BY <2>1, <2>2
<1> QED
  BY <1>6

\* Among(s, S) reads s at the positions of elements of S, all of them, each
\* once and in order.
LEMMA AmongReads ==
  ASSUME NEW T, NEW s \in Seq(T), NEW S
  PROVE  LET K == Positions(s, S)
             n == Cardinality(K)
         IN /\ n \in Nat /\ IsFiniteSet(K)
            /\ Among(s, S) \in Seq(T) /\ Len(Among(s, S)) = n
            /\ \E place \in [1 .. n -> K] :
                 /\ \A m \in 1 .. n : Among(s, S)[m] = s[place[m]]
                 /\ \A l, m \in 1 .. n : l < m => place[l] < place[m]
                 /\ \A i \in K : \E m \in 1 .. n : place[m] = i
<1> DEFINE K == Positions(s, S)
           n == Cardinality(K)
           place == [m \in 1 .. n |-> CHOOSE i \in K : Rank(K, i) = m]
<1>1. K \in SUBSET DOMAIN s
  BY DEF Positions
<1>2. IsFiniteSet(K) /\ n \in Nat /\ K \in SUBSET Nat
  BY <1>1, PositionsFinite
<1>3. \A m \in 1 .. n : place[m] \in K /\ Rank(K, place[m]) = m
  BY <1>2, RanksReachAll
<1>4. place \in [1 .. n -> K]
  BY <1>3
<1>5. Among(s, S) = [m \in 1 .. n |-> s[place[m]]]
  BY DEF Among
<1>6. ASSUME NEW l \in 1 .. n, NEW m \in 1 .. n, l < m PROVE place[l] < place[m]
  <2> HIDE DEF place, K
  <2>1. place[l] \in K /\ place[m] \in K /\ place[l] \in Nat /\ place[m] \in Nat
    BY <1>2, <1>3
  <2>2. Rank(K, place[l]) < Rank(K, place[m])
    BY <1>2, <1>3, <1>6
  <2>3. CASE place[m] < place[l]
    <3>1. Rank(K, place[m]) < Rank(K, place[l])
      BY <1>2, <2>1, <2>3, RanksIncrease
    <3> QED
      BY <1>2, <1>3, <1>6, <3>1
  <2>4. place[l] # place[m]
    BY <1>2, <1>3, <1>6
  <2> QED
    BY <2>1, <2>3, <2>4
<1>7. ASSUME NEW i \in K PROVE \E m \in 1 .. n : place[m] = i
  <2> DEFINE m == Rank(K, i)
  <2> HIDE DEF place, K, m
  <2>1. m \in 1 .. n
    BY <1>2, RanksIncrease DEF m
  <2>2. place[m] \in K /\ Rank(K, place[m]) = Rank(K, i)
    BY <1>3, <2>1 DEF m
  <2>3. place[m] = i
    <3>1. place[m] \in Nat /\ i \in Nat
      BY <1>2, <2>2
    <3>2. ~(place[m] < i) /\ ~(i < place[m])
      <4>1. \A j, k \in K : j < k => Rank(K, j) < Rank(K, k)
        BY <1>2, RanksIncrease
      <4>2. Rank(K, i) \in 1 .. n
        BY <2>1 DEF m
      <4> QED
        BY <1>2, <2>2, <3>1, <4>1, <4>2
    <3> QED
      BY <3>1, <3>2
  <2> QED
    BY <2>1, <2>3
<1>8. \A m \in 1 .. n : s[place[m]] \in T
  BY <1>1, <1>3
<1>9. Among(s, S) \in Seq(T) /\ Len(Among(s, S)) = n
  <2> HIDE DEF place, K
  <2> QED
    BY <1>2, <1>5, <1>8
<1> QED
  <2> HIDE DEF place, n
  <2>1. \A m \in 1 .. n : Among(s, S)[m] = s[place[m]]
    BY <1>5
  <2> HIDE DEF K
  <2>2. \E a \in [1 .. n -> K] :
          /\ \A m \in 1 .. n : Among(s, S)[m] = s[a[m]]
          /\ \A l, m \in 1 .. n : l < m => a[l] < a[m]
          /\ \A i \in K : \E m \in 1 .. n : a[m] = i
    BY <1>4, <1>6, <1>7, <2>1
  <2> QED
    BY <1>2, <1>9, <2>2 DEF K, n

-----------------------------------------------------------------------------
(* Induction up to a bound, and functions defined by recursion.            *)

\* A set of naturals that is not empty has a least.
LEMMA LeastOf ==
  ASSUME NEW K \in SUBSET Nat, K # {}
  PROVE  Min(K) \in K /\ \A j \in K : Min(K) <= j
<1> DEFINE R == OpToRel(<, Nat)
<1>1. R = {p \in Nat \X Nat : p[1] < p[2]}
  BY DEF OpToRel
<1>2. IsWellFoundedOn(R, Nat)
  BY NatLessThanWellFounded, Zenon
<1> HIDE DEF R
<1>3. PICK i \in K : \A j \in K : <<j, i>> \notin R
  BY <1>2, WFMin
<1>4. ASSUME NEW j \in K PROVE i <= j
  <2>1. ~(j < i)
    BY <1>1, <1>3
  <2> QED
    BY <2>1
<1> QED
  BY <1>4 DEF Min

\* If any of 0 .. n is in S, then one is whose predecessor is not.
LEMMA FirstOf ==
  ASSUME NEW n \in Nat, NEW S \in SUBSET (0 .. n), S # {}
  PROVE  \E m \in S : m \in 0 .. n /\ (m # 0 => m - 1 \in 0 .. n /\ m - 1 \notin S)
<1>1. Min(S) \in S /\ \A j \in S : Min(S) <= j
  BY LeastOf
<1> DEFINE m == Min(S)
<1> HIDE DEF m
<1>2. m \in S /\ m \in 0 .. n /\ \A j \in S : m <= j
  BY <1>1 DEF m
<1>3. m # 0 => m - 1 \in 0 .. n /\ m - 1 \notin S
  BY <1>2
<1> QED
  BY <1>2, <1>3

\* f starts at x and takes steps up to m.
Iterated(f, m, X, x, step) ==
  f \in [0 .. m -> X] /\ f[0] = x /\ \A n \in 1 .. m : f[n] = step[n - 1][f[n - 1]]

\* An iteration's elements are determined.
LEMMA IteratedOnce ==
  ASSUME NEW X, NEW x \in X, NEW step \in [Nat -> [X -> X]], NEW m \in Nat, NEW f, NEW l \in Nat, NEW g,
         Iterated(f, m, X, x, step), Iterated(g, l, X, x, step), NEW n \in Nat, n <= m, n <= l
  PROVE  f[n] = g[n]
<1> SUFFICES ASSUME f[n] # g[n] PROVE FALSE
  OBVIOUS
<1> DEFINE S == {i \in 0 .. n : f[i] # g[i]}
<1>0. S \in SUBSET (0 .. n) /\ S # {}
  OBVIOUS
<1> HIDE DEF S
<1>1. PICK e \in S : e \in 0 .. n /\ (e # 0 => e - 1 \in 0 .. n /\ e - 1 \notin S)
  BY <1>0, FirstOf
<1> USE DEF S
<1>2. e # 0
  BY <1>1 DEF Iterated
<1>3. f[e - 1] = g[e - 1]
  BY <1>1, <1>2
<1>4. e \in 1 .. m /\ e \in 1 .. l
  BY <1>1, <1>2
<1>5. f[e] = step[e - 1][f[e - 1]] /\ g[e] = step[e - 1][g[e - 1]]
  BY <1>4 DEF Iterated
<1> QED
  BY <1>1, <1>3, <1>5

\* There is an iteration of any length.
LEMMA IteratedFar ==
  ASSUME NEW X, NEW x \in X, NEW step \in [Nat -> [X -> X]], NEW m \in Nat
  PROVE  \E f : Iterated(f, m, X, x, step)
<1> SUFFICES ASSUME \A f : ~Iterated(f, m, X, x, step) PROVE FALSE
  OBVIOUS
<1> DEFINE S == {i \in 0 .. m : \A f : ~Iterated(f, i, X, x, step)}
<1>0. S \in SUBSET (0 .. m) /\ S # {}
  OBVIOUS
<1> HIDE DEF S
<1>1. PICK e \in S : e \in 0 .. m /\ (e # 0 => e - 1 \in 0 .. m /\ e - 1 \notin S)
  BY <1>0, FirstOf
<1> USE DEF S
<1>2. e # 0
  <2>1. Iterated([i \in 0 .. 0 |-> x], 0, X, x, step)
    BY DEF Iterated
  <2> QED
    BY <1>1, <2>1
<1>3. PICK f : Iterated(f, e - 1, X, x, step)
  BY <1>1, <1>2
<1> DEFINE last == step[e - 1][f[e - 1]]
           g == [i \in 0 .. e |-> IF i = e THEN last ELSE f[i]]
<1>4. f \in [0 .. e - 1 -> X] /\ e \in Nat /\ e - 1 \in Nat /\ f[0] = x
      /\ \A n \in 1 .. e - 1 : f[n] = step[n - 1][f[n - 1]]
  BY <1>1, <1>2, <1>3 DEF Iterated
<1>5. f[e - 1] \in X
  BY <1>4
<1>6. last \in X
  BY <1>4, <1>5
<1> HIDE DEF last
<1>7. g \in [0 .. e -> X] /\ g[0] = x
  BY <1>2, <1>4, <1>6
<1>8. ASSUME NEW n \in 1 .. e PROVE g[n] = step[n - 1][g[n - 1]]
  <2>1. CASE n = e
    BY <1>4, <2>1 DEF last
  <2>2. CASE n \in 1 .. e - 1
    BY <1>4, <2>2
  <2> QED
    BY <1>4, <2>1, <2>2
<1>9. Iterated(g, e, X, x, step)
  BY <1>7, <1>8 DEF Iterated
<1> QED
  BY <1>1, <1>9

\* A function on the naturals is defined by its first value and its steps.
Follows(f, X, x, step) ==
  f \in [Nat -> X] /\ f[0] = x /\ \A n \in Nat \ {0} : f[n] = step[n - 1][f[n - 1]]

\* There is one without end.
LEMMA Iterates ==
  ASSUME NEW X, NEW x \in X, NEW step \in [Nat -> [X -> X]]
  PROVE  \E f : Follows(f, X, x, step)
<1> DEFINE place(m) == CHOOSE f : Iterated(f, m, X, x, step)
           g == [m \in Nat |-> place(m)[m]]
<1>1. \A m \in Nat : Iterated(place(m), m, X, x, step)
  BY IteratedFar
<1> HIDE DEF place
<1>2. g \in [Nat -> X]
  BY <1>1 DEF Iterated
<1>3. g[0] = x
  BY <1>1 DEF Iterated
<1>4. ASSUME NEW n \in Nat \ {0} PROVE g[n] = step[n - 1][g[n - 1]]
  <2>1. n - 1 \in Nat /\ n - 1 <= n /\ n \in 1 .. n
    OBVIOUS
  <2>2. place(n)[n] = step[n - 1][place(n)[n - 1]]
    BY <1>1, <2>1 DEF Iterated
  <2>3. place(n)[n - 1] = place(n - 1)[n - 1]
    BY <1>1, <2>1, IteratedOnce
  <2> QED
    BY <2>1, <2>2, <2>3
<1>5. Follows(g, X, x, step)
  BY <1>2, <1>3, <1>4 DEF Follows
<1> QED
  BY <1>5

-----------------------------------------------------------------------------
(* Tables in order.                                                        *)

Label == Strings \union {Tombstone(k) : k \in Strings}
Fields == {"arr", "shape", "slots", "dead", "buried", "hash", "snapshot"}

\* The slots and their shape: a string has at most one slot, and a slot whose
\* key was buried is nil.
Slotted(r, V) ==
  /\ r.shape \in Shape
  /\ r.slots \in Seq(V) /\ Len(r.slots) = Len(r.shape.keys)
  /\ \A i, j \in DOMAIN r.shape.keys :
       r.shape.keys[i] = r.shape.keys[j] /\ r.shape.keys[i] \in Strings => i = j
  /\ \A i \in DOMAIN r.shape.keys : r.shape.keys[i] \notin Strings => r.slots[i] = Nil

\* The other keys: none is both in the array and in the hash, which holds no nil.
Numbered(r, V) ==
  /\ r.arr \in Seq(V)
  /\ DOMAIN r.hash \subseteq Int /\ IsFiniteSet(DOMAIN r.hash)
  /\ r.hash = [k \in DOMAIN r.hash |-> r.hash[k]]
  /\ \A k \in DOMAIN r.hash : k \notin DOMAIN r.arr /\ r.hash[k] \in V /\ r.hash[k] # Nil

WellFormed(r, V) == Fields \subseteq DOMAIN r /\ Nil \in V /\ Slotted(r, V) /\ Numbered(r, V)

-----------------------------------------------------------------------------
(* Strings.                                                                *)

\* The types of the slots and of their shape.
LEMMA ShapeParts ==
  ASSUME NEW V, NEW r, Slotted(r, V)
  PROVE  /\ r.shape.dict \in BOOLEAN
         /\ r.shape.keys \in Seq(Label)
         /\ DOMAIN r.shape = {"dict", "keys"}
         /\ Len(r.slots) \in Nat
         /\ DOMAIN r.slots = 1 .. Len(r.slots)
         /\ DOMAIN r.shape.keys = DOMAIN r.slots
         /\ \A i \in DOMAIN r.slots : r.slots[i] \in V
BY DEF Slotted, Shape, Label

\* A string's slot holds its value; without one it has none.
LEMMA AtSlot ==
  ASSUME NEW V, NEW r, Slotted(r, V), NEW k \in Strings
  PROVE  /\ \A i \in DOMAIN r.shape.keys : r.shape.keys[i] = k => At(r, k) = r.slots[i]
         /\ (\A i \in DOMAIN r.shape.keys : r.shape.keys[i] # k) => At(r, k) = Nil
<1>1. ASSUME NEW i \in DOMAIN r.shape.keys, r.shape.keys[i] = k
      PROVE  At(r, k) = r.slots[i]
  <2>1. SlotsOf(r.shape, k) = {i}
    BY <1>1 DEF SlotsOf, Slotted
  <2>2. (CHOOSE j \in {i} : TRUE) = i
    OBVIOUS
  <2> QED
    BY <2>1, <2>2 DEF At
<1>2. ASSUME \A i \in DOMAIN r.shape.keys : r.shape.keys[i] # k
      PROVE  At(r, k) = Nil
  <2>1. SlotsOf(r.shape, k) = {}
    BY <1>2 DEF SlotsOf
  <2> QED
    BY <2>1 DEF At
<1> QED
  BY <1>1, <1>2

\* Compaction keeps what every string gives, and drops the nil slots.
LEMMA CompactKeeps ==
  ASSUME NEW V, NEW r, WellFormed(r, V)
  PROVE  LET c == Compact(r)
         IN /\ WellFormed(c, V)
            /\ c.arr = r.arr /\ c.hash = r.hash /\ c.snapshot = r.snapshot
            /\ c.dead = 0 /\ c.buried = 0 /\ c.shape.dict = r.shape.dict
            /\ DOMAIN c = DOMAIN r
            /\ \A f \in DOMAIN r \ Fields : c[f] = r[f]
            /\ \A k \in Strings : At(c, k) = At(r, k)
            /\ \A i \in DOMAIN c.shape.keys :
                 c.slots[i] # Nil /\ \E j \in DOMAIN r.shape.keys : c.shape.keys[i] = r.shape.keys[j]
<1> DEFINE all == [i \in DOMAIN r.slots |-> i]
           K == {i \in DOMAIN r.slots : r.slots[i] # Nil}
           live == Among(all, K)
           c == Compact(r)
<1>1. /\ r.shape.keys \in Seq(Label) /\ Len(r.slots) \in Nat /\ DOMAIN r.slots = 1 .. Len(r.slots)
      /\ DOMAIN r.shape.keys = DOMAIN r.slots /\ DOMAIN r.shape = {"dict", "keys"}
      /\ \A i \in DOMAIN r.slots : r.slots[i] \in V
  BY ShapeParts DEF WellFormed
<1>2. all \in Seq(Nat) /\ DOMAIN all = DOMAIN r.slots /\ \A i \in DOMAIN all : all[i] = i
  BY <1>1
<1>3. Positions(all, K) = K
  BY <1>2 DEF Positions
<1> DEFINE n == Cardinality(K)
<1> HIDE DEF all, K
<1>4. /\ n \in Nat /\ live \in Seq(Nat) /\ Len(live) = n
      /\ \E at \in [1 .. n -> K] :
           /\ \A m \in 1 .. n : live[m] = all[at[m]]
           /\ \A l, m \in 1 .. n : l < m => at[l] < at[m]
           /\ \A i \in K : \E m \in 1 .. n : at[m] = i
  BY <1>2, <1>3, AmongReads
<1>5. PICK at \in [1 .. n -> K] :
        /\ \A m \in 1 .. n : live[m] = all[at[m]]
        /\ \A l, m \in 1 .. n : l < m => at[l] < at[m]
        /\ \A i \in K : \E m \in 1 .. n : at[m] = i
  BY <1>4
<1>N. n \in Nat /\ live \in Seq(Nat) /\ Len(live) = n
  BY <1>4
<1>K. \A i \in K : i \in DOMAIN r.slots /\ i \in Nat
  BY <1>1 DEF K
<1> HIDE DEF live, n
<1>6. DOMAIN live = 1 .. n /\ \A m \in 1 .. n : live[m] = at[m] /\ live[m] \in K /\ live[m] \in DOMAIN r.slots
  BY <1>2, <1>K, <1>N, <1>5
<1>7. c = [r EXCEPT !.shape.keys = [m \in DOMAIN live |-> r.shape.keys[live[m]]],
                    !.slots = [m \in DOMAIN live |-> r.slots[live[m]]],
                    !.dead = 0, !.buried = 0]
  BY DEF Compact, all, K, live
<1> HIDE DEF c
<1>8. /\ c.shape = [r.shape EXCEPT !.keys = [m \in 1 .. n |-> r.shape.keys[live[m]]]]
      /\ c.slots = [m \in 1 .. n |-> r.slots[live[m]]]
      /\ c.arr = r.arr /\ c.hash = r.hash /\ c.snapshot = r.snapshot
      /\ c.dead = 0 /\ c.buried = 0
      /\ DOMAIN c = DOMAIN r
      /\ \A f \in DOMAIN r \ Fields : c[f] = r[f]
  BY <1>6, <1>7 DEF WellFormed, Fields
<1>9. /\ c.shape.dict = r.shape.dict
      /\ c.shape.keys = [m \in 1 .. n |-> r.shape.keys[live[m]]]
  BY <1>1, <1>8
<1>10. Slotted(c, V)
  <2>1. c.shape.keys \in Seq(Label)
    <3>1. \A m \in 1 .. n : r.shape.keys[live[m]] \in Label
      BY <1>1, <1>6
    <3> QED
      BY <1>N, <1>9, <3>1
  <2>2. c.shape \in Shape
    BY <1>8, <2>1, <1>9 DEF WellFormed, Slotted, Shape, Label
  <2>3. c.slots \in Seq(V) /\ Len(c.slots) = n /\ Len(c.shape.keys) = n
    <3>1. \A m \in 1 .. n : r.slots[live[m]] \in V
      BY <1>1, <1>6
    <3> QED
      BY <1>N, <1>8, <1>9, <3>1, SMTT(60)
  <2>4. ASSUME NEW l \in 1 .. n, NEW m \in 1 .. n,
               r.shape.keys[live[l]] = r.shape.keys[live[m]], r.shape.keys[live[l]] \in Strings
        PROVE  l = m
    <3>1. live[l] = live[m]
      BY <1>1, <1>6, <2>4 DEF WellFormed, Slotted
    <3>2. at[l] = at[m] /\ at[l] \in Nat
      BY <1>K, <1>6, <3>1
    <3> QED
      BY <1>N, <1>5, <3>2
  <2>5. \A m \in 1 .. n : r.slots[live[m]] # Nil
    BY <1>6 DEF K
  <2>6. \A m \in 1 .. n : r.shape.keys[live[m]] \in Strings
    BY <1>1, <1>6, <2>5 DEF WellFormed, Slotted
  <2>7. DOMAIN c.shape.keys = 1 .. n
    BY <1>9
  <2> QED
    BY <1>9, <2>2, <2>3, <2>4, <2>6, <2>7 DEF Slotted
<1>11. \A k \in Strings : At(c, k) = At(r, k)
  <2> SUFFICES ASSUME NEW k \in Strings PROVE At(c, k) = At(r, k)
    OBVIOUS
  <2>1. CASE \E m \in 1 .. n : r.shape.keys[live[m]] = k
    <3>1. PICK m \in 1 .. n : r.shape.keys[live[m]] = k
      BY <2>1
    <3>2. At(c, k) = c.slots[m]
      <4>1. m \in DOMAIN c.shape.keys /\ c.shape.keys[m] = k
        BY <1>9, <3>1
      <4> QED
        BY <1>10, <4>1, AtSlot
    <3>3. At(r, k) = r.slots[live[m]]
      BY <1>1, <1>6, <3>1, AtSlot DEF WellFormed
    <3> QED
      BY <1>8, <3>2, <3>3
  <2>2. CASE \A m \in 1 .. n : r.shape.keys[live[m]] # k
    <3>1. At(c, k) = Nil
      <4>1. \A m \in DOMAIN c.shape.keys : c.shape.keys[m] # k
        BY <1>9, <2>2
      <4> QED
        BY <1>10, <4>1, AtSlot
    <3>2. ASSUME NEW i \in DOMAIN r.shape.keys, r.shape.keys[i] = k PROVE r.slots[i] = Nil
      <4>1. i \notin K
        BY <1>5, <1>6, <2>2, <3>2
      <4> QED
        BY <1>1, <3>2, <4>1 DEF K
    <3>3. At(r, k) = Nil
      BY <3>2, AtSlot DEF WellFormed
    <3> QED
      BY <3>1, <3>3
  <2> QED
    BY <2>1, <2>2
<1>12. \A i \in DOMAIN c.shape.keys :
         c.slots[i] # Nil /\ \E j \in DOMAIN r.shape.keys : c.shape.keys[i] = r.shape.keys[j]
  BY <1>1, <1>6, <1>8, <1>9 DEF K
<1>13. WellFormed(c, V)
  BY <1>8, <1>10 DEF WellFormed, Numbered
<1> QED
  BY <1>8, <1>9, <1>11, <1>12, <1>13 DEF c

\* A dictionary stays one, and a shared shape only grows.
Succeeds(a, r, k) ==
  IF r.shape.dict THEN a.shape.dict ELSE a.shape.keys \in {r.shape.keys, Append(r.shape.keys, k)}

\* A key that has no slot gains one, at the end.
LEMMA AddStringKeeps ==
  ASSUME NEW V, NEW r, WellFormed(r, V), NEW k \in Strings, NEW v \in V, NEW crowded \in BOOLEAN,
         SlotsOf(r.shape, k) = {}
  PROVE  LET a == AddString(r, k, v, crowded)
         IN /\ WellFormed(a, V)
            /\ a.arr = r.arr /\ a.hash = r.hash /\ a.snapshot = NoSnapshot
            /\ a.dead \in {0, r.dead} /\ a.buried \in {0, r.buried}
            /\ DOMAIN a = DOMAIN r
            /\ \A f \in DOMAIN r \ Fields : a[f] = r[f]
            /\ At(a, k) = v
            /\ \A l \in Strings \ {k} : At(a, l) = At(r, l)
            /\ \/ a.shape.keys = Append(r.shape.keys, k) /\ ~Compacts(r)
               \/ \A i \in DOMAIN a.shape.keys : a.shape.keys[i] \in Strings
            /\ Succeeds(a, r, k)
<1> DEFINE c == IF Compacts(r) THEN Compact(r) ELSE r
           a == AddString(r, k, v, crowded)
<1>1. /\ WellFormed(c, V) /\ c.arr = r.arr /\ c.hash = r.hash
      /\ c.dead \in {0, r.dead} /\ c.buried \in {0, r.buried}
      /\ DOMAIN c = DOMAIN r /\ \A f \in DOMAIN r \ Fields : c[f] = r[f]
      /\ \A l \in Strings : At(c, l) = At(r, l)
      /\ \A i \in DOMAIN c.shape.keys : \E j \in DOMAIN r.shape.keys : c.shape.keys[i] = r.shape.keys[j]
      /\ (c = r /\ ~Compacts(r)) \/ \A i \in DOMAIN c.shape.keys : c.shape.keys[i] \in Strings
      /\ IF r.shape.dict THEN c.shape.dict ELSE c = r
  <2>1. CASE Compacts(r)
    <3>1. c = Compact(r)
      BY <2>1
    <3> HIDE DEF c
    <3>2. /\ WellFormed(c, V) /\ c.arr = r.arr /\ c.hash = r.hash
          /\ c.dead = 0 /\ c.buried = 0 /\ c.shape.dict = r.shape.dict
          /\ DOMAIN c = DOMAIN r /\ \A f \in DOMAIN r \ Fields : c[f] = r[f]
          /\ \A l \in Strings : At(c, l) = At(r, l)
          /\ \A i \in DOMAIN c.shape.keys :
               c.slots[i] # Nil /\ \E j \in DOMAIN r.shape.keys : c.shape.keys[i] = r.shape.keys[j]
      BY <3>1, CompactKeeps
    <3> QED
      BY <2>1, <3>2 DEF WellFormed, Slotted, Compacts
  <2>2. CASE ~Compacts(r)
    <3>1. c = r
      BY <2>2
    <3> HIDE DEF c
    <3>2. \A i \in DOMAIN c.shape.keys : \E j \in DOMAIN r.shape.keys : c.shape.keys[i] = r.shape.keys[j]
      BY <3>1
    <3> QED
      BY <2>2, <3>1, <3>2
  <2> QED
    BY <2>1, <2>2
<1>2. a = [c EXCEPT !.shape = With(c.shape, k, crowded), !.slots = Append(c.slots, v), !.snapshot = NoSnapshot]
  BY <1>1 DEF AddString, ForgetSnapshot, WellFormed, Fields
<1> HIDE DEF a, c
<1>3. /\ a.shape = With(c.shape, k, crowded) /\ a.slots = Append(c.slots, v)
      /\ a.snapshot = NoSnapshot /\ a.arr = c.arr /\ a.hash = c.hash /\ a.dead = c.dead /\ a.buried = c.buried
      /\ DOMAIN a = DOMAIN c /\ \A f \in DOMAIN c \ Fields : a[f] = c[f]
  BY <1>1, <1>2 DEF WellFormed, Fields
<1>4. /\ c.shape.keys \in Seq(Label) /\ Len(c.slots) \in Nat /\ DOMAIN c.slots = 1 .. Len(c.slots)
      /\ DOMAIN c.shape.keys = DOMAIN c.slots /\ c.slots \in Seq(V) /\ Len(c.shape.keys) = Len(c.slots)
      /\ c.shape.dict \in BOOLEAN
  BY <1>1, ShapeParts DEF WellFormed, Slotted
<1> DEFINE m == Len(c.slots)
<1>5. /\ a.shape.keys = Append(c.shape.keys, k)
      /\ a.shape \in Shape /\ k \in Label
      /\ DOMAIN a.shape.keys = 1 .. m + 1 /\ Len(a.shape.keys) = m + 1
      /\ a.shape.keys[m + 1] = k /\ \A i \in 1 .. m : a.shape.keys[i] = c.shape.keys[i]
  <2>1. a.shape.keys = Append(c.shape.keys, k) /\ k \in Label
    BY <1>3 DEF With, Label
  <2>2. a.shape.keys \in Seq(Label)
    BY <1>4, <2>1
  <2>3. a.shape.dict \in BOOLEAN
    BY <1>3, <1>4, SharedAssumption DEF With
  <2>4. a.shape \in Shape
    BY <1>3, <2>1, <2>2, <2>3 DEF With, Shape, Label
  <2> QED
    BY <1>4, <2>1, <2>4
<1>6. /\ a.slots \in Seq(V) /\ Len(a.slots) = m + 1
      /\ a.slots[m + 1] = v /\ \A i \in 1 .. m : a.slots[i] = c.slots[i]
  BY <1>3, <1>4
<1>7. \A i \in 1 .. m : c.shape.keys[i] # k
  BY <1>1, <1>4 DEF SlotsOf
<1>8. Slotted(a, V)
  <2>1. \A i, j \in 1 .. m + 1 :
          a.shape.keys[i] = a.shape.keys[j] /\ a.shape.keys[i] \in Strings => i = j
    <3> SUFFICES ASSUME NEW i \in 1 .. m + 1, NEW j \in 1 .. m + 1,
                        a.shape.keys[i] = a.shape.keys[j], a.shape.keys[i] \in Strings
                 PROVE  i = j
      OBVIOUS
    <3>1. CASE i = m + 1
      BY <1>4, <1>5, <1>7, <3>1
    <3>2. CASE j = m + 1
      BY <1>4, <1>5, <1>7, <3>2
    <3>3. CASE i \in 1 .. m /\ j \in 1 .. m
      BY <1>1, <1>4, <1>5, <3>3, ZenonT(60) DEF WellFormed, Slotted
    <3> QED
      BY <1>4, <3>1, <3>2, <3>3
  <2>2. \A i \in 1 .. m + 1 : a.shape.keys[i] \notin Strings => a.slots[i] = Nil
    <3> SUFFICES ASSUME NEW i \in 1 .. m + 1, a.shape.keys[i] \notin Strings PROVE a.slots[i] = Nil
      OBVIOUS
    <3>1. i # m + 1
      BY <1>5
    <3>2. i \in 1 .. m
      BY <1>4, <3>1
    <3> QED
      BY <1>1, <1>4, <1>5, <1>6, <3>2 DEF WellFormed, Slotted
  <2> QED
    BY <1>4, <1>5, <1>6, <2>1, <2>2 DEF Slotted
<1>9. WellFormed(a, V)
  BY <1>1, <1>3, <1>8 DEF WellFormed, Numbered
<1>10. At(a, k) = v
  <2>1. m + 1 \in DOMAIN a.shape.keys
    BY <1>4, <1>5
  <2> QED
    BY <1>5, <1>6, <1>8, <2>1, AtSlot
<1>11. ASSUME NEW l \in Strings \ {k} PROVE At(a, l) = At(r, l)
  <2>1. CASE \E i \in 1 .. m : c.shape.keys[i] = l
    <3>1. PICK i \in 1 .. m : c.shape.keys[i] = l
      BY <2>1
    <3>2. i \in DOMAIN a.shape.keys /\ a.shape.keys[i] = l
      BY <1>4, <1>5, <3>1
    <3>3. At(a, l) = a.slots[i]
      BY <1>8, <3>2, AtSlot
    <3>4. At(c, l) = c.slots[i]
      BY <1>1, <1>4, <3>1, AtSlot DEF WellFormed
    <3> QED
      BY <1>1, <1>6, <3>3, <3>4
  <2>2. CASE \A i \in 1 .. m : c.shape.keys[i] # l
    <3>1. At(c, l) = Nil
      BY <1>1, <1>4, <2>2, AtSlot DEF WellFormed
    <3>2. \A i \in DOMAIN a.shape.keys : a.shape.keys[i] # l
      <4> SUFFICES ASSUME NEW i \in 1 .. m + 1 PROVE a.shape.keys[i] # l
        BY <1>5
      <4>1. CASE i = m + 1
        BY <1>5, <4>1
      <4>2. CASE i \in 1 .. m
        BY <1>5, <2>2, <4>2
      <4> QED
        BY <1>4, <4>1, <4>2
    <3>3. At(a, l) = Nil
      BY <1>8, <3>2, AtSlot
    <3> QED
      BY <1>1, <3>1, <3>3
  <2> QED
    BY <2>1, <2>2
<1>12. (a.shape.keys = Append(r.shape.keys, k) /\ ~Compacts(r)) \/ \A i \in DOMAIN a.shape.keys : a.shape.keys[i] \in Strings
  <2>1. CASE c = r /\ ~Compacts(r)
    BY <1>5, <2>1
  <2>2. CASE \A i \in DOMAIN c.shape.keys : c.shape.keys[i] \in Strings
    <3> SUFFICES ASSUME NEW i \in 1 .. m + 1 PROVE a.shape.keys[i] \in Strings
      BY <1>5
    <3>1. CASE i = m + 1
      BY <1>5, <3>1
    <3>2. CASE i \in 1 .. m
      BY <1>4, <1>5, <2>2, <3>2
    <3> QED
      BY <1>4, <3>1, <3>2
  <2> QED
    BY <1>1, <2>1, <2>2
<1>13. Succeeds(a, r, k)
  <2>1. a.shape.dict = (c.shape.dict \/ crowded \/ Len(c.shape.keys) >= MaxShared)
    BY <1>3 DEF With
  <2> QED
    BY <1>1, <1>5, <2>1 DEF Succeeds
<1> QED
  BY <1>1, <1>3, <1>9, <1>10, <1>11, <1>12, <1>13 DEF a

\* A store in a slot changes what its string gives, and moves nothing.
LEMMA SetSlotKeeps ==
  ASSUME NEW V, NEW r, WellFormed(r, V), NEW i \in DOMAIN r.shape.keys, r.shape.keys[i] \in Strings, NEW v \in V
  PROVE  LET a == SetSlot(r, i, v)
         IN /\ WellFormed(a, V)
            /\ a.arr = r.arr /\ a.hash = r.hash /\ a.snapshot = r.snapshot /\ a.shape = r.shape
            /\ a.buried = r.buried /\ (r.dead \in Int => a.dead \in Int)
            /\ DOMAIN a = DOMAIN r
            /\ \A f \in DOMAIN r \ Fields : a[f] = r[f]
            /\ At(a, r.shape.keys[i]) = v
            /\ \A l \in Strings \ {r.shape.keys[i]} : At(a, l) = At(r, l)
<1> DEFINE a == SetSlot(r, i, v)
<1>1. /\ a.slots = [r.slots EXCEPT ![i] = v]
      /\ a.arr = r.arr /\ a.hash = r.hash /\ a.snapshot = r.snapshot /\ a.shape = r.shape /\ a.buried = r.buried
      /\ DOMAIN a = DOMAIN r /\ \A f \in DOMAIN r \ Fields : a[f] = r[f]
  BY DEF SetSlot, WellFormed, Fields
<1>2. r.dead \in Int => a.dead \in Int
  BY DEF SetSlot, WellFormed, Fields
<1> HIDE DEF a
<1>3. /\ Len(r.slots) \in Nat /\ DOMAIN r.slots = 1 .. Len(r.slots) /\ r.slots \in Seq(V)
      /\ DOMAIN r.shape.keys = DOMAIN r.slots
  BY ShapeParts DEF WellFormed, Slotted
<1>4. /\ a.slots \in Seq(V) /\ Len(a.slots) = Len(r.slots) /\ a.slots[i] = v
      /\ \A j \in DOMAIN r.slots : j # i => a.slots[j] = r.slots[j]
  BY <1>1, <1>3
<1>5. Slotted(a, V)
  BY <1>1, <1>3, <1>4 DEF WellFormed, Slotted
<1>6. WellFormed(a, V)
  BY <1>1, <1>5 DEF WellFormed, Numbered
<1>7. At(a, r.shape.keys[i]) = v
  BY <1>1, <1>4, <1>5, AtSlot
<1>8. ASSUME NEW l \in Strings \ {r.shape.keys[i]} PROVE At(a, l) = At(r, l)
  <2>1. CASE \E j \in DOMAIN r.shape.keys : r.shape.keys[j] = l
    <3>1. PICK j \in DOMAIN r.shape.keys : r.shape.keys[j] = l
      BY <2>1
    <3>2. At(a, l) = a.slots[j]
      <4>1. j \in DOMAIN a.shape.keys /\ a.shape.keys[j] = l
        BY <1>1, <3>1
      <4> QED
        BY <1>5, <4>1, AtSlot
    <3>3. At(r, l) = r.slots[j]
      BY <3>1, AtSlot DEF WellFormed
    <3> QED
      BY <1>3, <1>4, <3>1, <3>2, <3>3
  <2>2. CASE \A j \in DOMAIN r.shape.keys : r.shape.keys[j] # l
    BY <1>1, <1>5, <2>2, AtSlot DEF WellFormed
  <2> QED
    BY <2>1, <2>2
<1> QED
  BY <1>1, <1>2, <1>6, <1>7, <1>8 DEF a

\* The shape a gets from r's by a write of k: one more key, or no tombstones.
Grown(a, r, k) ==
  \/ a.shape = r.shape
  \/ a.shape.keys = Append(r.shape.keys, k) /\ SlotsOf(r.shape, k) = {} /\ ~Compacts(r)
  \/ \A i \in DOMAIN a.shape.keys : a.shape.keys[i] \in Strings

\* A write of a string.
LEMMA PutStringKeeps ==
  ASSUME NEW V, NEW r, WellFormed(r, V), NEW k \in Strings, NEW v \in V, NEW crowded \in BOOLEAN
  PROVE  LET a == PutString(r, k, v, crowded)
         IN /\ WellFormed(a, V)
            /\ a.arr = r.arr /\ a.hash = r.hash /\ a.snapshot \in {r.snapshot, NoSnapshot}
            /\ (r.dead \in Int => a.dead \in Int) /\ a.buried \in {0, r.buried}
            /\ DOMAIN a = DOMAIN r
            /\ \A f \in DOMAIN r \ Fields : a[f] = r[f]
            /\ At(a, k) = v
            /\ \A l \in Strings \ {k} : At(a, l) = At(r, l)
            /\ (v = Nil \/ SlotsOf(r.shape, k) # {}) => a.shape = r.shape /\ a.snapshot = r.snapshot
            /\ a.shape = r.shape => a.snapshot = r.snapshot
            /\ Grown(a, r, k) /\ Succeeds(a, r, k)
<1> DEFINE a == PutString(r, k, v, crowded)
<1>1. CASE SlotsOf(r.shape, k) # {}
  <2> DEFINE i == CHOOSE j \in SlotsOf(r.shape, k) : TRUE
  <2>1. i \in DOMAIN r.shape.keys /\ r.shape.keys[i] = k
    BY <1>1 DEF SlotsOf
  <2> HIDE DEF i
  <2>2. a = SetSlot(r, i, v)
    BY <1>1 DEF PutString, i
  <2> HIDE DEF a
  <2>3. /\ WellFormed(a, V)
        /\ a.arr = r.arr /\ a.hash = r.hash /\ a.snapshot = r.snapshot /\ a.shape = r.shape
        /\ a.buried = r.buried /\ (r.dead \in Int => a.dead \in Int)
        /\ DOMAIN a = DOMAIN r
        /\ \A f \in DOMAIN r \ Fields : a[f] = r[f]
        /\ At(a, k) = v
        /\ \A l \in Strings \ {k} : At(a, l) = At(r, l)
    <3> DEFINE b == SetSlot(r, i, v)
    <3>1. r.shape.keys[i] \in Strings
      BY <2>1
    <3> HIDE DEF b
    <3>2. /\ WellFormed(b, V)
          /\ b.arr = r.arr /\ b.hash = r.hash /\ b.snapshot = r.snapshot /\ b.shape = r.shape
          /\ b.buried = r.buried /\ (r.dead \in Int => b.dead \in Int)
          /\ DOMAIN b = DOMAIN r
          /\ \A f \in DOMAIN r \ Fields : b[f] = r[f]
          /\ At(b, r.shape.keys[i]) = v
          /\ \A l \in Strings \ {r.shape.keys[i]} : At(b, l) = At(r, l)
      BY <2>1, <3>1, SetSlotKeeps DEF b
    <3>3. a = b
      BY <2>2 DEF b
    <3> QED
      BY <2>1, <3>2, <3>3
  <2> QED
    BY <2>3 DEF a, Grown, Succeeds
<1>2. CASE SlotsOf(r.shape, k) = {} /\ v = Nil
  <2>1. a = r
    BY <1>2 DEF PutString
  <2>2. At(r, k) = Nil
    BY <1>2 DEF At
  <2> QED
    BY <1>2, <2>1, <2>2 DEF Grown, Succeeds
<1>3. CASE SlotsOf(r.shape, k) = {} /\ v # Nil
  <2>1. a = AddString(r, k, v, crowded)
    BY <1>3 DEF PutString
  <2> HIDE DEF a
  <2>2. /\ WellFormed(a, V)
        /\ a.arr = r.arr /\ a.hash = r.hash /\ a.snapshot = NoSnapshot
        /\ a.dead \in {0, r.dead} /\ a.buried \in {0, r.buried}
        /\ DOMAIN a = DOMAIN r
        /\ \A f \in DOMAIN r \ Fields : a[f] = r[f]
        /\ At(a, k) = v
        /\ \A l \in Strings \ {k} : At(a, l) = At(r, l)
        /\ \/ a.shape.keys = Append(r.shape.keys, k) /\ ~Compacts(r)
           \/ \A i \in DOMAIN a.shape.keys : a.shape.keys[i] \in Strings
        /\ Succeeds(a, r, k)
    BY <1>3, <2>1, AddStringKeeps
  <2>3. a.shape # r.shape
    <3>1. v # At(r, k)
      BY <1>3 DEF At
    <3>2. \E i \in DOMAIN a.shape.keys : a.shape.keys[i] = k
      BY <1>3, <2>2, AtSlot DEF WellFormed
    <3> QED
      BY <1>3, <3>2 DEF SlotsOf
  <2> QED
    BY <1>3, <2>2, <2>3 DEF a, Grown
<1> QED
  BY <1>1, <1>2, <1>3

-----------------------------------------------------------------------------
(* Numbers.                                                                *)

\* The slots alone say what a string gives, and the array and hash a number.
LEMMA StringAt ==
  ASSUME NEW a, NEW r, a.shape = r.shape, a.slots = r.slots, NEW k \in Strings
  PROVE  At(a, k) = At(r, k)
<1>1. SlotsOf(a.shape, k) = SlotsOf(r.shape, k)
  OBVIOUS
<1>2. (CHOOSE i \in SlotsOf(a.shape, k) : TRUE) = (CHOOSE i \in SlotsOf(r.shape, k) : TRUE)
  BY <1>1
<1>3. At(a, k) = IF SlotsOf(a.shape, k) = {} THEN Nil ELSE a.slots[CHOOSE i \in SlotsOf(a.shape, k) : TRUE]
  BY DEF At
<1>4. At(r, k) = IF SlotsOf(r.shape, k) = {} THEN Nil ELSE r.slots[CHOOSE i \in SlotsOf(r.shape, k) : TRUE]
  BY DEF At
<1> HIDE DEF SlotsOf
<1> QED
  BY <1>1, <1>2, <1>3, <1>4

\* A number is looked for in the array, then in the hash.
LEMMA NumberAt ==
  ASSUME NEW r, NEW k \in Int
  PROVE  At(r, k) = IF k \in DOMAIN r.arr THEN r.arr[k]
                    ELSE IF k \in DOMAIN r.hash THEN r.hash[k] ELSE Nil
BY KindsAssumption DEF At

\* An element or the hash has a number's value.
LEMMA AtNumber ==
  ASSUME NEW V, NEW r, WellFormed(r, V), NEW k \in Int
  PROVE  /\ k \in DOMAIN r.arr => At(r, k) = r.arr[k]
         /\ k \in DOMAIN r.hash => At(r, k) = r.hash[k] /\ At(r, k) # Nil
         /\ k \notin DOMAIN r.arr \union DOMAIN r.hash => At(r, k) = Nil
         /\ At(r, k) \in V
         /\ DOMAIN r.arr = 1 .. Len(r.arr) /\ Len(r.arr) \in Nat
<1>1. /\ r.arr \in Seq(V) /\ Nil \in V
      /\ \A l \in DOMAIN r.hash : l \notin DOMAIN r.arr /\ r.hash[l] \in V /\ r.hash[l] # Nil
  BY DEF WellFormed, Numbered
<1>2. DOMAIN r.arr = 1 .. Len(r.arr) /\ Len(r.arr) \in Nat /\ \A i \in DOMAIN r.arr : r.arr[i] \in V
  BY <1>1
<1>3. At(r, k) = IF k \in DOMAIN r.arr THEN r.arr[k]
                 ELSE IF k \in DOMAIN r.hash THEN r.hash[k] ELSE Nil
  BY NumberAt
<1> QED
  BY <1>1, <1>2, <1>3

\* An occupancy is a natural number.
LEMMA OccupancyType ==
  ASSUME NEW V, NEW r, WellFormed(r, V), NEW k \in Int
  PROVE  Occupancy(r, k) \in Nat
<1> DEFINE A == {i \in DOMAIN r.arr : r.arr[i] # Nil}
           B == {l \in DOMAIN r.hash : l <= k}
<1>1. IsFiniteSet(A) /\ Cardinality(A) \in Nat
  BY PositionsFinite DEF WellFormed, Numbered
<1>2. IsFiniteSet(B)
  BY FS_Subset DEF WellFormed, Numbered
<1>3. Cardinality(B) \in Nat
  BY <1>2, FS_CardinalityType
<1> QED
  BY <1>1, <1>3 DEF Occupancy

\* The larger of two numbers.
LEMMA LargerOfTwo == ASSUME NEW a \in Int, NEW b \in Int PROVE Max({a, b}) \in {a, b} /\ Max({a, b}) >= a /\ Max({a, b}) >= b
<1>1. \E x \in {a, b} : \A y \in {a, b} : x >= y
  OBVIOUS
<1>2. Max({a, b}) \in {a, b} /\ \A y \in {a, b} : Max({a, b}) >= y
  BY <1>1 DEF Max
<1> QED
  BY <1>2

\* Elements that move from the hash to the array stay what they were.
LEMMA ExtendArrayKeeps ==
  ASSUME NEW V, NEW r, WellFormed(r, V), NEW last \in Nat, last >= Len(r.arr)
  PROVE  LET a == ExtendArray(r, last)
         IN /\ WellFormed(a, V)
            /\ Len(a.arr) = last
            /\ a.shape = r.shape /\ a.slots = r.slots /\ a.snapshot = r.snapshot
            /\ a.dead = r.dead /\ a.buried = r.buried
            /\ DOMAIN a = DOMAIN r
            /\ \A f \in DOMAIN r \ Fields : a[f] = r[f]
            /\ DOMAIN a.hash \subseteq DOMAIN r.hash
            /\ \A k \in Strings \union Int : At(a, k) = At(r, k)
<1> DEFINE a == ExtendArray(r, last)
<1>1. /\ a.arr = [i \in 1 .. last |-> At(r, i)]
      /\ a.hash = [k \in DOMAIN r.hash \ (1 .. last) |-> r.hash[k]]
      /\ a.shape = r.shape /\ a.slots = r.slots /\ a.snapshot = r.snapshot
      /\ a.dead = r.dead /\ a.buried = r.buried
      /\ DOMAIN a = DOMAIN r /\ \A f \in DOMAIN r \ Fields : a[f] = r[f]
  BY DEF ExtendArray, WellFormed, Fields
<1> HIDE DEF a
<1>2. a.arr \in Seq(V) /\ Len(a.arr) = last /\ DOMAIN a.arr = 1 .. last
  <2>1. \A i \in 1 .. last : At(r, i) \in V
    BY AtNumber
  <2> DEFINE s == [i \in 1 .. last |-> At(r, i)]
  <2>2. s \in Seq(V) /\ Len(s) = last /\ DOMAIN s = 1 .. last
    BY <2>1
  <2> QED
    BY <1>1, <2>2
<1>3. DOMAIN r.arr = 1 .. Len(r.arr) /\ Len(r.arr) \in Nat
  BY DEF WellFormed, Numbered
<1>4. Numbered(a, V)
  <2>1. DOMAIN a.hash \subseteq DOMAIN r.hash
    BY <1>1
  <2>2. IsFiniteSet(DOMAIN a.hash)
    BY <2>1, FS_Subset DEF WellFormed, Numbered
  <2>3. /\ DOMAIN a.hash = DOMAIN r.hash \ (1 .. last)
        /\ \A k \in DOMAIN a.hash : a.hash[k] = r.hash[k]
    BY <1>1
  <2>4. \A k \in DOMAIN a.hash : k \notin DOMAIN a.arr /\ a.hash[k] \in V /\ a.hash[k] # Nil
    BY <1>2, <2>1, <2>3 DEF WellFormed, Numbered
  <2>5. a.hash = [k \in DOMAIN a.hash |-> a.hash[k]]
    BY <1>1
  <2> QED
    BY <1>2, <2>1, <2>2, <2>4, <2>5 DEF WellFormed, Numbered
<1>5. WellFormed(a, V)
  BY <1>1, <1>4 DEF WellFormed, Slotted
<1>6. \A k \in Strings : At(a, k) = At(r, k)
  BY <1>1, StringAt
<1>7. ASSUME NEW k \in Int PROVE At(a, k) = At(r, k)
  <2>1. CASE k \in 1 .. last
    <3>1. a.arr[k] = At(r, k) /\ k \in DOMAIN a.arr
      BY <1>1, <1>2, <2>1
    <3> QED
      BY <1>5, <3>1, AtNumber
  <2>2. CASE k \notin 1 .. last /\ k \in DOMAIN r.hash
    <3>1. k \in DOMAIN a.hash /\ a.hash[k] = r.hash[k]
      BY <1>1, <2>2
    <3> QED
      BY <1>5, <2>2, <3>1, AtNumber
  <2>3. CASE k \notin 1 .. last /\ k \notin DOMAIN r.hash
    <3>1. k \notin DOMAIN r.arr
      BY <1>3, <2>3
    <3>2. k \notin DOMAIN a.arr /\ k \notin DOMAIN a.hash
      BY <1>1, <1>2, <2>3
    <3> QED
      BY <1>5, <2>3, <3>1, <3>2, AtNumber
  <2> QED
    BY <2>1, <2>2, <2>3
<1> QED
  BY <1>1, <1>2, <1>5, <1>6, <1>7 DEF a

\* A new element changes nothing else.
LEMMA SetElementKeeps ==
  ASSUME NEW V, NEW r, WellFormed(r, V), NEW k \in DOMAIN r.arr, NEW v \in V
  PROVE  LET a == [r EXCEPT !.arr[k] = v]
         IN /\ WellFormed(a, V)
            /\ DOMAIN a.arr = DOMAIN r.arr
            /\ a.hash = r.hash /\ a.shape = r.shape /\ a.slots = r.slots /\ a.snapshot = r.snapshot
            /\ a.dead = r.dead /\ a.buried = r.buried
            /\ DOMAIN a = DOMAIN r
            /\ \A f \in DOMAIN r \ Fields : a[f] = r[f]
            /\ k \in Int /\ At(a, k) = v
            /\ \A l \in (Strings \union Int) \ {k} : At(a, l) = At(r, l)
<1> DEFINE a == [r EXCEPT !.arr[k] = v]
<1>1. /\ a.arr = [r.arr EXCEPT ![k] = v]
      /\ a.hash = r.hash /\ a.shape = r.shape /\ a.slots = r.slots /\ a.snapshot = r.snapshot
      /\ a.dead = r.dead /\ a.buried = r.buried
      /\ DOMAIN a = DOMAIN r /\ \A f \in DOMAIN r \ Fields : a[f] = r[f]
  BY DEF WellFormed, Fields
<1> HIDE DEF a
<1>2. r.arr \in Seq(V) /\ DOMAIN r.arr = 1 .. Len(r.arr) /\ Len(r.arr) \in Nat /\ k \in Int
  BY DEF WellFormed, Numbered
<1>3. a.arr \in Seq(V) /\ DOMAIN a.arr = DOMAIN r.arr
  BY <1>1, <1>2
<1>4. WellFormed(a, V)
  BY <1>1, <1>3 DEF WellFormed, Slotted, Numbered
<1>5. At(a, k) = v
  BY <1>1, <1>2, <1>3, <1>4, AtNumber
<1>6. \A l \in Strings : At(a, l) = At(r, l)
  BY <1>1, StringAt
<1>7. \A l \in Int \ {k} : At(a, l) = At(r, l)
  BY <1>1, <1>2, <1>3 DEF At
<1> QED
  BY <1>1, <1>2, <1>3, <1>4, <1>5, <1>6, <1>7, KindsAssumption DEF a

\* A hash without k, and with a value for it.
Without(h, k) == [i \in DOMAIN h \ {k} |-> h[i]]
Updated(h, k, v) == [i \in DOMAIN h \union {k} |-> IF i = k THEN v ELSE h[i]]

\* A write of the hash changes nothing else.
LEMMA HashKeeps ==
  ASSUME NEW V, NEW r, WellFormed(r, V), NEW k \in Int \ DOMAIN r.arr, NEW v \in V, NEW a,
         a.arr = r.arr, a.shape = r.shape, a.slots = r.slots, DOMAIN a = DOMAIN r,
         a.hash = IF v = Nil THEN Without(r.hash, k) ELSE Updated(r.hash, k, v)
  PROVE  /\ WellFormed(a, V) /\ At(a, k) = v
         /\ \A l \in (Strings \union Int) \ {k} : At(a, l) = At(r, l)
         /\ DOMAIN a.hash \subseteq DOMAIN r.hash \union {k}
         /\ (v = Nil \/ k \in DOMAIN r.hash) => DOMAIN a.hash \subseteq DOMAIN r.hash
<1> USE DEF Without, Updated
<1>1. IsFiniteSet(DOMAIN r.hash \union {k}) /\ IsFiniteSet(DOMAIN r.hash \ {k})
  <2>1. IsFiniteSet(DOMAIN r.hash)
    BY DEF WellFormed, Numbered
  <2>2. DOMAIN r.hash \ {k} \subseteq DOMAIN r.hash
    OBVIOUS
  <2> QED
    BY <2>1, <2>2, FS_AddElement, FS_Subset
<1>2. DOMAIN a.hash \in {DOMAIN r.hash \union {k}, DOMAIN r.hash \ {k}}
  OBVIOUS
<1>3. /\ DOMAIN a.hash \subseteq Int /\ a.hash = [i \in DOMAIN a.hash |-> a.hash[i]]
      /\ \A i \in DOMAIN a.hash : i \notin DOMAIN a.arr /\ a.hash[i] \in V /\ a.hash[i] # Nil
  <2>1. /\ DOMAIN r.hash \subseteq Int
        /\ \A i \in DOMAIN r.hash : i \notin DOMAIN r.arr /\ r.hash[i] \in V /\ r.hash[i] # Nil
    BY DEF WellFormed, Numbered
  <2>2. CASE v = Nil
    <3>1. a.hash = [i \in DOMAIN r.hash \ {k} |-> r.hash[i]]
      BY <2>2
    <3> QED
      BY <2>1, <3>1
  <2>3. CASE v # Nil
    <3>1. a.hash = [i \in DOMAIN r.hash \union {k} |-> IF i = k THEN v ELSE r.hash[i]]
      BY <2>3
    <3> QED
      BY <2>1, <2>3, <3>1
  <2> QED
    BY <2>2, <2>3
<1>4. Numbered(a, V)
  BY <1>1, <1>2, <1>3 DEF WellFormed, Numbered
<1>5. WellFormed(a, V)
  BY <1>4 DEF WellFormed, Slotted
<1>6. At(a, k) = v
  BY KindsAssumption DEF At
<1>7. \A l \in Strings : At(a, l) = At(r, l)
  BY StringAt
<1>8. \A l \in Int \ {k} : At(a, l) = At(r, l)
  BY NumberAt
<1> QED
  BY <1>2, <1>5, <1>6, <1>7, <1>8

\* What writes leave of a table's parts: b is r with numbers moved.
SameStrings(b, r) ==
  /\ b.shape = r.shape /\ b.slots = r.slots /\ b.dead = r.dead /\ b.buried = r.buried
  /\ DOMAIN b = DOMAIN r /\ \A f \in DOMAIN r \ Fields : b[f] = r[f]

\* No key of the hash is new to the order it is traversed in.
SameOrder(b, r) ==
  b.snapshot = NoSnapshot \/ (b.snapshot = r.snapshot /\ DOMAIN b.hash \subseteq DOMAIN r.hash)

\* A write of a number, with the array extended to it where it is dense.
LEMMA PutAtIntKeeps ==
  ASSUME NEW V, NEW r, WellFormed(r, V), NEW k \in Int, NEW v \in V
  PROVE  LET a == PutAtInt(r, k, v)
         IN /\ WellFormed(a, V) /\ SameStrings(a, r) /\ SameOrder(a, r)
            /\ DOMAIN a.hash \subseteq DOMAIN r.hash \union {k}
            /\ At(a, k) = v
            /\ \A l \in (Strings \union Int) \ {k} : At(a, l) = At(r, l)
            /\ (v = Nil \/ k \in DOMAIN r.arr) =>
                 DOMAIN a.arr = DOMAIN r.arr /\ a.snapshot = r.snapshot /\ DOMAIN a.hash \subseteq DOMAIN r.hash
<1> DEFINE a == PutAtInt(r, k, v)
<1>1. CASE k \in DOMAIN r.arr
  <2>1. a = [r EXCEPT !.arr[k] = v]
    BY <1>1 DEF PutAtInt
  <2> HIDE DEF a
  <2>2. /\ WellFormed(a, V) /\ DOMAIN a.arr = DOMAIN r.arr /\ a.hash = r.hash /\ a.snapshot = r.snapshot
        /\ a.shape = r.shape /\ a.slots = r.slots /\ a.dead = r.dead /\ a.buried = r.buried
        /\ DOMAIN a = DOMAIN r /\ \A f \in DOMAIN r \ Fields : a[f] = r[f]
        /\ At(a, k) = v /\ \A l \in (Strings \union Int) \ {k} : At(a, l) = At(r, l)
    BY <1>1, <2>1, SetElementKeeps
  <2> QED
    BY <1>1, <2>2 DEF SameStrings, SameOrder, a
<1>2. CASE k \notin DOMAIN r.arr /\ v = Nil
  <2>1. a = [r EXCEPT !.hash = Without(r.hash, k)]
    BY <1>2 DEF PutAtInt, Without
  <2> HIDE DEF a
  <2>2. /\ a.arr = r.arr /\ a.shape = r.shape /\ a.slots = r.slots /\ DOMAIN a = DOMAIN r
        /\ a.hash = Without(r.hash, k)
        /\ a.snapshot = r.snapshot /\ a.dead = r.dead /\ a.buried = r.buried
        /\ \A f \in DOMAIN r \ Fields : a[f] = r[f]
    BY <2>1 DEF WellFormed, Fields
  <2>3. WellFormed(a, V) /\ At(a, k) = v /\ \A l \in (Strings \union Int) \ {k} : At(a, l) = At(r, l)
    BY <1>2, <2>2, HashKeeps
  <2>4. DOMAIN a.hash \subseteq DOMAIN r.hash
    BY <2>2 DEF Without
  <2> QED
    BY <1>2, <2>2, <2>3, <2>4 DEF SameStrings, SameOrder, a
<1>3. CASE k \notin DOMAIN r.arr /\ v # Nil /\ k > 0 /\ Occupancy(r, k) >= k \div 2
  <2> DEFINE last == Max({2 * Occupancy(r, k), k})
             b == ExtendArray(r, last)
  <2>1. a = [b EXCEPT !.arr[k] = v]
    BY <1>3 DEF PutAtInt, Resized
  <2>2. Occupancy(r, k) \in Nat
    BY OccupancyType
  <2>3. last \in Nat /\ last >= k
    <3>1. 2 * Occupancy(r, k) \in Int
      BY <2>2
    <3>2. last \in {2 * Occupancy(r, k), k} /\ last >= k
      BY <3>1, LargerOfTwo
    <3> QED
      BY <1>3, <2>2, <3>2
  <2>4. DOMAIN r.arr = 1 .. Len(r.arr) /\ Len(r.arr) \in Nat
    BY AtNumber
  <2>5. last >= Len(r.arr)
    BY <1>3, <2>3, <2>4
  <2> HIDE DEF a, b, last
  <2>6. /\ WellFormed(b, V) /\ Len(b.arr) = last
        /\ b.shape = r.shape /\ b.slots = r.slots /\ b.snapshot = r.snapshot
        /\ b.dead = r.dead /\ b.buried = r.buried
        /\ DOMAIN b = DOMAIN r /\ \A f \in DOMAIN r \ Fields : b[f] = r[f]
        /\ DOMAIN b.hash \subseteq DOMAIN r.hash
        /\ \A l \in Strings \union Int : At(b, l) = At(r, l)
    BY <2>3, <2>5, ExtendArrayKeeps DEF b
  <2>7. k \in DOMAIN b.arr
    <3>1. DOMAIN b.arr = 1 .. Len(b.arr)
      BY <2>6, AtNumber
    <3> QED
      BY <1>3, <2>3, <2>6, <3>1
  <2>8. /\ WellFormed(a, V) /\ a.hash = b.hash /\ a.snapshot = b.snapshot
        /\ a.shape = b.shape /\ a.slots = b.slots /\ a.dead = b.dead /\ a.buried = b.buried
        /\ DOMAIN a = DOMAIN b /\ \A f \in DOMAIN b \ Fields : a[f] = b[f]
        /\ At(a, k) = v /\ \A l \in (Strings \union Int) \ {k} : At(a, l) = At(b, l)
    <3>1. WellFormed(b, V)
      BY <2>6
    <3> QED
      BY ONLY <2>1, <2>7, <3>1, SetElementKeeps
  <2> QED
    BY <1>3, <2>6, <2>8 DEF SameStrings, SameOrder, a
<1>4. CASE k \notin DOMAIN r.arr /\ v # Nil /\ ~(k > 0 /\ Occupancy(r, k) >= k \div 2)
  <2> DEFINE h == Updated(r.hash, k, v)
  <2>1. a = IF k \in DOMAIN r.hash THEN [r EXCEPT !.hash = h]
            ELSE [r EXCEPT !.hash = h, !.snapshot = NoSnapshot]
    BY <1>4 DEF PutAtInt, AddOrInsertHash, ForgetSnapshot, WellFormed, Fields, Updated
  <2> HIDE DEF a
  <2>2. /\ a.arr = r.arr /\ a.shape = r.shape /\ a.slots = r.slots /\ DOMAIN a = DOMAIN r
        /\ a.hash = h /\ a.dead = r.dead /\ a.buried = r.buried
        /\ \A f \in DOMAIN r \ Fields : a[f] = r[f]
        /\ a.snapshot = IF k \in DOMAIN r.hash THEN r.snapshot ELSE NoSnapshot
    BY <2>1 DEF WellFormed, Fields
  <2>3. WellFormed(a, V) /\ At(a, k) = v /\ \A l \in (Strings \union Int) \ {k} : At(a, l) = At(r, l)
    BY <1>4, <2>2, HashKeeps
  <2>4. DOMAIN a.hash = DOMAIN r.hash \union {k}
    BY <2>2 DEF Updated
  <2> QED
    BY <1>4, <2>2, <2>3, <2>4 DEF SameStrings, SameOrder, a
<1> QED
  BY <1>1, <1>2, <1>3, <1>4

\* A store in the hash of a key it has, or without it: tryPut.
LEMMA TryPutKeeps ==
  ASSUME NEW V, NEW r, WellFormed(r, V), NEW k \in Int, NEW v \in V, At(r, k) # Nil
  PROVE  LET a == TryPut(r, k, v)
         IN /\ WellFormed(a, V) /\ SameStrings(a, r)
            /\ DOMAIN a.arr = DOMAIN r.arr /\ a.snapshot = r.snapshot /\ DOMAIN a.hash \subseteq DOMAIN r.hash
            /\ At(a, k) = v
            /\ \A l \in (Strings \union Int) \ {k} : At(a, l) = At(r, l)
<1> DEFINE a == TryPut(r, k, v)
<1>0. k \notin Strings
  BY KindsAssumption
<1>1. CASE k \in DOMAIN r.arr
  <2>1. a = [r EXCEPT !.arr[k] = v]
    BY <1>0, <1>1 DEF TryPut
  <2> HIDE DEF a
  <2>2. /\ WellFormed(a, V) /\ DOMAIN a.arr = DOMAIN r.arr /\ a.hash = r.hash /\ a.snapshot = r.snapshot
        /\ a.shape = r.shape /\ a.slots = r.slots /\ a.dead = r.dead /\ a.buried = r.buried
        /\ DOMAIN a = DOMAIN r /\ \A f \in DOMAIN r \ Fields : a[f] = r[f]
        /\ At(a, k) = v /\ \A l \in (Strings \union Int) \ {k} : At(a, l) = At(r, l)
    BY <1>1, <2>1, SetElementKeeps
  <2> QED
    BY <2>2 DEF SameStrings, a
<1>2. CASE k \notin DOMAIN r.arr
  <2>1. k \in DOMAIN r.hash
    BY <1>2, AtNumber
  <2>2. a = [r EXCEPT !.hash = IF v = Nil THEN Without(r.hash, k) ELSE Updated(r.hash, k, v)]
    <3>1. CASE v = Nil
      BY <1>0, <1>2, <3>1 DEF TryPut, Without
    <3>2. CASE v # Nil
      <4>1. a = [r EXCEPT !.hash[k] = v]
        BY <1>0, <1>2, <3>2 DEF TryPut
      <4>2. [r.hash EXCEPT ![k] = v] = Updated(r.hash, k, v)
        BY <2>1 DEF Updated
      <4> QED
        BY <3>2, <4>1, <4>2
    <3> QED
      BY <3>1, <3>2
  <2> HIDE DEF a
  <2>3. /\ a.arr = r.arr /\ a.shape = r.shape /\ a.slots = r.slots /\ DOMAIN a = DOMAIN r
        /\ a.dead = r.dead /\ a.buried = r.buried /\ a.snapshot = r.snapshot
        /\ \A f \in DOMAIN r \ Fields : a[f] = r[f]
        /\ a.hash = IF v = Nil THEN Without(r.hash, k) ELSE Updated(r.hash, k, v)
    BY <2>2 DEF WellFormed, Fields
  <2>4. /\ WellFormed(a, V) /\ At(a, k) = v /\ \A l \in (Strings \union Int) \ {k} : At(a, l) = At(r, l)
        /\ DOMAIN a.hash \subseteq DOMAIN r.hash
    BY <1>2, <2>1, <2>3, HashKeeps
  <2> QED
    BY <2>3, <2>4 DEF SameStrings, a
<1> QED
  BY <1>1, <1>2

\* a's shape is r's, or in a dictionary has tombstones for the strings of nil slots.
Interred(a, r) ==
  \/ a = r
  \/ /\ a.shape.dict /\ r.shape.dict
     /\ DOMAIN a.shape.keys = DOMAIN r.shape.keys
     /\ \A i \in DOMAIN r.shape.keys :
          a.shape.keys[i] = IF r.slots[i] = Nil /\ r.shape.keys[i] \in Strings
                              THEN Tombstone(r.shape.keys[i]) ELSE r.shape.keys[i]

\* A burial of dead keys changes nothing that a key gives.
LEMMA BuryKeeps ==
  ASSUME NEW V, NEW r, WellFormed(r, V)
  PROVE  LET a == BuryDeadKeys(r)
         IN /\ WellFormed(a, V)
            /\ a.arr = r.arr /\ a.hash = r.hash /\ a.snapshot = r.snapshot /\ a.slots = r.slots
            /\ a.dead = r.dead /\ (r.dead \in Int /\ r.buried \in Nat => a.buried \in Nat)
            /\ DOMAIN a = DOMAIN r
            /\ \A f \in DOMAIN r \ Fields : a[f] = r[f]
            /\ \A l \in Strings \union Int : At(a, l) = At(r, l)
            /\ Interred(a, r)
<1> DEFINE a == BuryDeadKeys(r)
<1>1. CASE ~(r.shape.dict /\ r.dead > r.buried)
  <2>1. a = r
    BY <1>1 DEF BuryDeadKeys
  <2> HIDE DEF a
  <2>2. Interred(a, r)
    BY <2>1 DEF Interred
  <2> QED
    BY <2>1, <2>2 DEF a
<1>2. CASE r.shape.dict /\ r.dead > r.buried
  <2>1. a = [r EXCEPT !.shape = Buried(r.shape, r.slots), !.buried = r.dead]
    BY <1>2 DEF BuryDeadKeys
  <2> HIDE DEF a
  <2>2. /\ a.arr = r.arr /\ a.hash = r.hash /\ a.snapshot = r.snapshot /\ a.slots = r.slots
        /\ a.dead = r.dead /\ a.buried = r.dead /\ a.shape = Buried(r.shape, r.slots)
        /\ DOMAIN a = DOMAIN r /\ \A f \in DOMAIN r \ Fields : a[f] = r[f]
    BY <2>1 DEF WellFormed, Fields
  <2>3. /\ r.shape.keys \in Seq(Label) /\ DOMAIN r.shape = {"dict", "keys"}
        /\ DOMAIN r.shape.keys = DOMAIN r.slots /\ r.shape.dict \in BOOLEAN
        /\ Len(r.slots) \in Nat /\ DOMAIN r.slots = 1 .. Len(r.slots)
        /\ r.slots \in Seq(V) /\ Len(r.shape.keys) = Len(r.slots)
    BY ShapeParts DEF WellFormed, Slotted
  <2>4. \A i \in DOMAIN r.shape.keys :
          r.shape.keys[i] \in Label /\ (~IsTombstone(r.shape.keys[i]) <=> r.shape.keys[i] \in Strings)
    BY <2>3, KindsAssumption DEF Label, IsTombstone
  <2>5. /\ a.shape.dict = r.shape.dict
        /\ a.shape.keys = [i \in DOMAIN r.shape.keys |->
                             IF r.slots[i] = Nil /\ ~IsTombstone(r.shape.keys[i])
                               THEN Tombstone(r.shape.keys[i]) ELSE r.shape.keys[i]]
        /\ a.shape = [r.shape EXCEPT !.keys = a.shape.keys]
    BY <2>2, <2>3 DEF Buried
  <2>6. \A i \in DOMAIN r.shape.keys :
          a.shape.keys[i] = IF r.slots[i] = Nil /\ r.shape.keys[i] \in Strings
                              THEN Tombstone(r.shape.keys[i]) ELSE r.shape.keys[i]
    BY <2>4, <2>5
  <2>7. DOMAIN a.shape.keys = DOMAIN r.shape.keys /\ a.shape.keys \in Seq(Label) /\ Len(a.shape.keys) = Len(r.slots)
    <3>1. \A i \in DOMAIN r.shape.keys : a.shape.keys[i] \in Label
      BY <2>4, <2>6 DEF Label
    <3>2. DOMAIN a.shape.keys = 1 .. Len(r.slots)
      BY <2>3, <2>5
    <3>3. a.shape.keys \in [1 .. Len(r.slots) -> Label]
      BY <2>3, <2>5, <3>1, <3>2
    <3> QED
      BY <2>3, <3>2, <3>3
  <2>8. a.shape \in Shape
    BY <2>3, <2>5, <2>7 DEF Shape, Label, WellFormed, Slotted
  <2>9. Slotted(a, V)
    <3>1. ASSUME NEW i \in DOMAIN r.shape.keys, NEW j \in DOMAIN r.shape.keys,
                 a.shape.keys[i] = a.shape.keys[j], a.shape.keys[i] \in Strings
          PROVE  i = j
      <4>1. a.shape.keys[i] = r.shape.keys[i] /\ a.shape.keys[j] = r.shape.keys[j]
        BY <2>6, <3>1, KindsAssumption
      <4> QED
        BY <3>1, <4>1 DEF WellFormed, Slotted
    <3>2. ASSUME NEW i \in DOMAIN r.shape.keys, a.shape.keys[i] \notin Strings PROVE r.slots[i] = Nil
      BY <2>6, <3>2 DEF WellFormed, Slotted
    <3> QED
      BY <2>2, <2>3, <2>7, <2>8, <3>1, <3>2 DEF Slotted
  <2>10. WellFormed(a, V)
    BY <2>2, <2>9 DEF WellFormed, Numbered
  <2>11. \A l \in Int : At(a, l) = At(r, l)
    BY <2>2, NumberAt
  <2>12. ASSUME NEW l \in Strings PROVE At(a, l) = At(r, l)
    <3>1. CASE \E i \in DOMAIN r.shape.keys : r.shape.keys[i] = l
      <4>1. PICK i \in DOMAIN r.shape.keys : r.shape.keys[i] = l
        BY <3>1
      <4>2. At(r, l) = r.slots[i]
        BY <4>1, AtSlot DEF WellFormed
      <4>3. CASE r.slots[i] # Nil
        <5>1. i \in DOMAIN a.shape.keys /\ a.shape.keys[i] = l
          BY <2>6, <2>7, <4>1, <4>3
        <5>2. At(a, l) = a.slots[i]
          BY <2>9, <5>1, AtSlot
        <5> QED
          BY <2>2, <4>2, <5>2
      <4>4. CASE r.slots[i] = Nil
        <5>1. ASSUME NEW j \in DOMAIN a.shape.keys PROVE a.shape.keys[j] # l
          <6>1. a.shape.keys[j] = l => r.shape.keys[j] = l /\ j \in DOMAIN r.shape.keys
            BY <2>6, <2>7, KindsAssumption
          <6>2. r.shape.keys[j] = l /\ j \in DOMAIN r.shape.keys => j = i
            BY <4>1 DEF WellFormed, Slotted
          <6>3. a.shape.keys[i] # l
            BY <2>6, <4>1, <4>4, KindsAssumption
          <6> QED
            BY <6>1, <6>2, <6>3
        <5>2. At(a, l) = Nil
          BY <2>9, <5>1, AtSlot
        <5> QED
          BY <4>2, <4>4, <5>2
      <4> QED
        BY <4>3, <4>4
    <3>2. CASE \A i \in DOMAIN r.shape.keys : r.shape.keys[i] # l
      <4>1. At(r, l) = Nil
        BY <3>2, AtSlot DEF WellFormed
      <4>2. \A i \in DOMAIN a.shape.keys : a.shape.keys[i] # l
        BY <2>6, <2>7, <3>2, KindsAssumption
      <4>3. At(a, l) = Nil
        BY <2>9, <4>2, AtSlot
      <4> QED
        BY <4>1, <4>3
    <3> QED
      BY <3>1, <3>2
  <2>13. r.dead \in Int /\ r.buried \in Nat => a.buried \in Nat
    BY <1>2, <2>2
  <2>14. Interred(a, r)
    BY <1>2, <2>5, <2>6, <2>7 DEF Interred
  <2> QED
    BY <1>2, <2>2, <2>10, <2>11, <2>12, <2>13, <2>14 DEF a
<1> QED
  BY <1>1, <1>2

-----------------------------------------------------------------------------
(* The length.                                                             *)

\* The search's interval begins at a border's first part and ends in nil.
Brackets(r, x) ==
  x \in Nat \X Nat /\ x[1] < x[2] /\ (x[1] = 0 \/ At(r, x[1]) # Nil) /\ At(r, x[2]) = Nil
Span(x) == x[2] - x[1]

\* A step keeps that, and shrinks an interval that has a middle.
LEMMA HalvedBrackets ==
  ASSUME NEW r, NEW x, Brackets(r, x)
  PROVE  Brackets(r, Halved(r, x)) /\ (Span(x) > 1 => Span(Halved(r, x)) < Span(x)) /\ (Span(x) <= 1 => Halved(r, x) = x)
<1> DEFINE a == x[1]
           b == x[2]
           m == (a + b) \div 2
<1>1. a \in Nat /\ b \in Nat /\ a < b /\ (a = 0 \/ At(r, a) # Nil) /\ At(r, b) = Nil /\ x = <<a, b>>
  BY DEF Brackets
<1>2. Halved(r, x) = IF b - a <= 1 THEN x ELSE IF At(r, m) = Nil THEN <<a, m>> ELSE <<m, b>>
  BY DEF Halved
<1>3. b - a > 1 => m \in Nat /\ a < m /\ m < b
  BY <1>1
<1> HIDE DEF a, b, m
<1>4. CASE b - a <= 1
  BY <1>1, <1>2, <1>4 DEF Span, a, b
<1>5. CASE b - a > 1 /\ At(r, m) = Nil
  <2>1. Halved(r, x) = <<a, m>>
    BY <1>1, <1>2, <1>5
  <2>2. Brackets(r, <<a, m>>) /\ Span(<<a, m>>) = m - a
    BY <1>1, <1>3, <1>5 DEF Brackets, Span
  <2> QED
    BY <1>1, <1>3, <1>5, <2>1, <2>2 DEF Span
<1>6. CASE b - a > 1 /\ At(r, m) # Nil
  <2>1. Halved(r, x) = <<m, b>>
    BY <1>1, <1>2, <1>6
  <2>2. Brackets(r, <<m, b>>) /\ Span(<<m, b>>) = b - m
    BY <1>1, <1>3, <1>6 DEF Brackets, Span
  <2> QED
    BY <1>1, <1>3, <1>6, <2>1, <2>2 DEF Span
<1>7. b - a <= 1 \/ b - a > 1
  BY <1>1
<1> QED
  BY <1>4, <1>5, <1>6, <1>7

\* What a loop of n steps computes, one by one.
Runs(f, X, x, step, n) ==
  f = [k \in 0 .. n |-> IF k = 0 THEN x ELSE step[f[k - 1]]] /\ \A k \in 0 .. n : f[k] \in X

\* Those of any number of steps.
LEMMA LoopRuns ==
  ASSUME NEW X, NEW x \in X, NEW step \in [X -> X], NEW n \in Nat
  PROVE  \E f : Runs(f, X, x, step, n)
<1> DEFINE steps == [k \in Nat |-> step]
<1>1. PICK f : Follows(f, X, x, steps)
  <2>1. steps \in [Nat -> [X -> X]]
    OBVIOUS
  <2> QED
    BY <2>1, Iterates
<1>2. f \in [Nat -> X] /\ f[0] = x /\ \A k \in Nat \ {0} : f[k] = step[f[k - 1]]
  BY <1>1 DEF Follows
<1> DEFINE g == [k \in 0 .. n |-> f[k]]
<1>3. Runs(g, X, x, step, n)
  BY <1>2 DEF Runs
<1> QED
  BY <1>3

\* What holds at first and after each step holds at the end.
LEMMA LoopKeeps ==
  ASSUME NEW n \in Nat, NEW S \in SUBSET (0 .. n), 0 \in S, \A k \in 1 .. n : k - 1 \in S => k \in S
  PROVE  \A k \in 0 .. n : k \in S
<1> DEFINE T == (0 .. n) \ S
<1> SUFFICES ASSUME T # {} PROVE FALSE
  OBVIOUS
<1>1. T \in SUBSET (0 .. n)
  OBVIOUS
<1>2. PICK e \in T : e \in 0 .. n /\ (e # 0 => e - 1 \in 0 .. n /\ e - 1 \notin T)
  <2> HIDE DEF T
  <2> QED
    BY <1>1, FirstOf
<1> QED
  BY <1>2

\* The search of an interval finds a border.
Borders(r, n) == n \in Nat /\ (n = 0 \/ At(r, n) # Nil) /\ At(r, n + 1) = Nil

\* Border halves until it has one.
LEMMA BorderIs ==
  ASSUME NEW r, NEW low, NEW high, Brackets(r, <<low, high>>)
  PROVE  Borders(r, Border(r, low, high))
<1> DEFINE X == {x \in Nat \X Nat : Brackets(r, x)}
           step == [x \in X |-> Halved(r, x)]
           x0 == <<low, high>>
           n == high - low
           IsSearch(f) == f = [k \in 0 .. n |-> IF k = 0 THEN x0 ELSE Halved(r, f[k - 1])]
           F == CHOOSE f : IsSearch(f)
<1>1. low \in Nat /\ high \in Nat /\ low < high /\ n \in Nat \ {0}
  BY DEF Brackets
<1>2. x0 \in X /\ Span(x0) = n
  BY <1>1 DEF Span
<1>3. step \in [X -> X]
  <2>1. ASSUME NEW x \in X PROVE Halved(r, x) \in X
    <3>1. Brackets(r, Halved(r, x))
      BY HalvedBrackets
    <3> QED
      BY <3>1 DEF Brackets
  <2> QED
    BY <2>1
<1>4. Border(r, low, high) = F[n][1]
  BY DEF Border
<1> HIDE DEF n, x0
<1>5. PICK f : Runs(f, X, x0, step, n)
  <2> HIDE DEF X, step
  <2> QED
    BY <1>1, <1>2, <1>3, LoopRuns
<1>6. IsSearch(F)
  <2>1. ASSUME NEW k \in 0 .. n, k # 0 PROVE step[f[k - 1]] = Halved(r, f[k - 1])
    <3>1. k - 1 \in 0 .. n
      BY <1>1, <2>1
    <3> QED
      BY <1>5, <3>1 DEF Runs
  <2>2. [k \in 0 .. n |-> IF k = 0 THEN x0 ELSE step[f[k - 1]]] = [k \in 0 .. n |-> IF k = 0 THEN x0 ELSE Halved(r, f[k - 1])]
    BY <2>1
  <2>3. IsSearch(f)
    BY <1>5, <2>2 DEF Runs
  <2> HIDE DEF IsSearch
  <2> QED
    BY <2>3
<1> HIDE DEF F, step
<1>7. F[0] = x0 /\ \A k \in 1 .. n : F[k] = Halved(r, F[k - 1])
  <2>1. 0 \in 0 .. n /\ \A k \in 1 .. n : k \in 0 .. n /\ k # 0
    BY <1>1
  <2> QED
    BY <1>6, <2>1
<1> DEFINE S == {k \in 0 .. n : F[k] \in X /\ (Span(F[k]) = 1 \/ Span(F[k]) <= n - k)}
<1>8. \A k \in 0 .. n : k \in S
  <2>1. 0 \in S
    BY <1>1, <1>2, <1>7
  <2>2. ASSUME NEW k \in 1 .. n, k - 1 \in S PROVE k \in S
    <3> DEFINE x == F[k - 1]
    <3>1. Brackets(r, x) /\ (Span(x) = 1 \/ Span(x) <= n - (k - 1)) /\ F[k] = Halved(r, x)
      BY <1>7, <2>2
    <3>2. Span(x) \in Nat /\ Span(x) >= 1
      BY <3>1 DEF Brackets, Span
    <3> HIDE DEF x
    <3>3. Brackets(r, F[k]) /\ (Span(x) > 1 => Span(F[k]) < Span(x)) /\ (Span(x) <= 1 => F[k] = x)
      BY <3>1, HalvedBrackets
    <3>4. F[k] \in X /\ Span(F[k]) \in Nat /\ Span(F[k]) >= 1
      BY <3>3 DEF Brackets, Span
    <3>5. Span(F[k]) = 1 \/ Span(F[k]) <= n - k
      BY <1>1, <3>1, <3>2, <3>3, <3>4
    <3> QED
      BY <3>4, <3>5
  <2> HIDE DEF S
  <2>3. S \in SUBSET (0 .. n)
    BY DEF S
  <2> QED
    BY <1>1, <2>1, <2>2, <2>3, LoopKeeps
<1>9. Brackets(r, F[n]) /\ (Span(F[n]) = 1 \/ Span(F[n]) <= 0)
  BY <1>1, <1>8
<1>10. F[n][2] = F[n][1] + 1
  BY <1>9 DEF Brackets, Span
<1> QED
  BY <1>4, <1>9, <1>10 DEF Brackets, Borders

\* A finite set of naturals has a greatest.
LEMMA LastOf ==
  ASSUME NEW K \in SUBSET Nat, IsFiniteSet(K), K # {}
  PROVE  Max(K) \in K /\ \A j \in K : j <= Max(K)
<1>1. Cardinality(K) \in Nat /\ Cardinality(K) # 0
  BY FS_CardinalityType, FS_EmptySet
<1>2. PICK i \in K : Rank(K, i) = Cardinality(K)
  BY <1>1, RanksReachAll
<1>3. ASSUME NEW j \in K, j > i PROVE FALSE
  <2>1. Rank(K, i) < Rank(K, j) /\ Rank(K, j) \in 1 .. Cardinality(K)
    BY <1>3, RanksIncrease
  <2> QED
    BY <1>1, <1>2, <2>1
<1>4. i \in K /\ \A j \in K : i >= j
  BY <1>3
<1> QED
  BY <1>4 DEF Max

\* No key of the hash is greater.
LEMMA GreatestIs ==
  ASSUME NEW V, NEW r, WellFormed(r, V)
  PROVE  Greatest(r) \in Nat /\ \A k \in DOMAIN r.hash : k <= Greatest(r)
<1> DEFINE H == DOMAIN r.hash \intersect Nat
           K == {0} \union H
<1>1. IsFiniteSet(DOMAIN r.hash) /\ DOMAIN r.hash \subseteq Int
  BY DEF WellFormed, Numbered
<1>2. IsFiniteSet(H)
  BY <1>1, FS_Subset
<1>3. IsFiniteSet(K)
  <2> HIDE DEF H
  <2> QED
    BY <1>2, FS_Singleton, FS_Union
<1>4. K \in SUBSET Nat /\ K # {}
  OBVIOUS
<1>5. Max(K) \in K /\ \A j \in K : j <= Max(K)
  <2> HIDE DEF K
  <2> QED
    BY <1>3, <1>4, LastOf
<1>6. Greatest(r) = Max(K)
  BY DEF Greatest
<1> HIDE DEF K
<1>7. Greatest(r) \in Nat /\ \A k \in K : k <= Greatest(r)
  BY <1>4, <1>5, <1>6
<1> QED
  BY <1>1, <1>7 DEF K

\* Doubling ends beyond the greatest key.
LEMMA UnboundIs ==
  ASSUME NEW V, NEW r, WellFormed(r, V), Len(r.arr) = 0 \/ At(r, Len(r.arr)) # Nil
  PROVE  Borders(r, Unbound(r, Len(r.arr)))
<1> DEFINE l == Len(r.arr)
           n == Greatest(r)
           Begins(x) == l < x[2] /\ x[1] < x[2] /\ (x[1] = 0 \/ At(r, x[1]) # Nil)
           X == {x \in Nat \X Nat : Begins(x)}
           step == [x \in X |-> Doubled(r, x)]
           x0 == <<l, l + 1>>
           IsSearch(f) == f = [k \in 0 .. n |-> IF k = 0 THEN x0 ELSE Doubled(r, f[k - 1])]
           F == CHOOSE f : IsSearch(f)
<1>1. l \in Nat /\ DOMAIN r.arr = 1 .. l
  BY DEF WellFormed, Numbered
<1>2. n \in Nat /\ \A k \in DOMAIN r.hash : k <= n
  BY GreatestIs
<1>3. x0 \in X
  BY <1>1
<1>4. ASSUME NEW x \in X
      PROVE  /\ Doubled(r, x) \in X
             /\ At(r, x[2]) # Nil => Doubled(r, x)[2] > x[2]
             /\ At(r, x[2]) = Nil => Doubled(r, x) = x
  BY <1>1 DEF Doubled
<1>5. step \in [X -> X]
  BY <1>4
<1>6. Unbound(r, l) = Border(r, F[n][1], F[n][2])
  BY DEF Unbound
<1> HIDE DEF n, x0
<1>7. PICK f : Runs(f, X, x0, step, n)
  <2> HIDE DEF X, step
  <2> QED
    BY <1>2, <1>3, <1>5, LoopRuns
<1> HIDE DEF X
<1>8. IsSearch(F)
  <2>1. ASSUME NEW k \in 0 .. n, k # 0 PROVE step[f[k - 1]] = Doubled(r, f[k - 1])
    <3>1. k - 1 \in 0 .. n
      BY <1>2, <2>1
    <3> QED
      BY <1>7, <3>1 DEF Runs
  <2>2. [k \in 0 .. n |-> IF k = 0 THEN x0 ELSE step[f[k - 1]]] = [k \in 0 .. n |-> IF k = 0 THEN x0 ELSE Doubled(r, f[k - 1])]
    BY <2>1
  <2>3. IsSearch(f)
    BY <1>7, <2>2 DEF Runs
  <2> HIDE DEF IsSearch
  <2> QED
    BY <2>3
<1> HIDE DEF F, step
<1>9. F[0] = x0 /\ \A k \in 1 .. n : F[k] = Doubled(r, F[k - 1])
  <2>1. 0 \in 0 .. n /\ \A k \in 1 .. n : k \in 0 .. n /\ k # 0
    BY <1>2
  <2> QED
    BY <1>8, <2>1
<1> DEFINE S == {k \in 0 .. n : F[k] \in X /\ (At(r, F[k][2]) = Nil \/ F[k][2] > l + k)}
<1>10. \A k \in 0 .. n : k \in S
  <2>1. 0 \in S
    BY <1>1, <1>2, <1>3, <1>9 DEF x0
  <2>2. ASSUME NEW k \in 1 .. n, k - 1 \in S PROVE k \in S
    <3> DEFINE x == F[k - 1]
    <3>1. x \in X /\ (At(r, x[2]) = Nil \/ x[2] > l + (k - 1)) /\ F[k] = Doubled(r, x)
      BY <1>9, <2>2
    <3> HIDE DEF x
    <3>2. F[k] \in X /\ (At(r, x[2]) # Nil => F[k][2] > x[2]) /\ (At(r, x[2]) = Nil => F[k] = x)
      BY <1>4, <3>1
    <3>3. x[2] \in Nat /\ F[k][2] \in Nat
      BY <3>1, <3>2 DEF X
    <3>4. At(r, F[k][2]) = Nil \/ F[k][2] > l + k
      BY <1>1, <3>1, <3>2, <3>3
    <3> QED
      BY <3>2, <3>4
  <2> HIDE DEF S
  <2>3. S \in SUBSET (0 .. n)
    BY DEF S
  <2> QED
    BY <1>2, <2>1, <2>2, <2>3, LoopKeeps
<1> DEFINE y == F[n]
<1>11. y \in X /\ (At(r, y[2]) = Nil \/ y[2] > l + n)
  BY <1>2, <1>10
<1> HIDE DEF y
<1>12. y \in Nat \X Nat /\ l < y[2] /\ y[1] < y[2] /\ (y[1] = 0 \/ At(r, y[1]) # Nil)
  BY <1>11 DEF X
<1>13. At(r, y[2]) = Nil
  <2> SUFFICES ASSUME y[2] > l + n PROVE At(r, y[2]) = Nil
    BY <1>11
  <2>1. y[2] \in Int /\ y[2] \notin DOMAIN r.arr \union DOMAIN r.hash
    BY <1>1, <1>2, <1>12
  <2> QED
    BY <2>1, AtNumber
<1>14. Brackets(r, <<y[1], y[2]>>)
  BY <1>12, <1>13 DEF Brackets
<1> QED
  BY <1>6, <1>14, BorderIs DEF y

\* What length returns is a border.
LEMMA LengthIs ==
  ASSUME NEW V, NEW r, WellFormed(r, V)
  PROVE  Borders(r, Length(r))
<1>1. r.arr \in Seq(V) /\ Len(r.arr) \in Nat
  BY DEF WellFormed, Numbered
<1>2. r.arr # <<>> => Len(r.arr) > 0 /\ Last(r.arr) = At(r, Len(r.arr))
  <2> SUFFICES ASSUME r.arr # <<>> PROVE Len(r.arr) > 0 /\ Last(r.arr) = At(r, Len(r.arr))
    OBVIOUS
  <2>1. Len(r.arr) > 0 /\ Len(r.arr) \in DOMAIN r.arr /\ Last(r.arr) = r.arr[Len(r.arr)]
    BY <1>1 DEF Last
  <2> QED
    BY <1>1, <2>1, AtNumber
<1>3. CASE r.arr # <<>> /\ Last(r.arr) = Nil
  <2>1. Brackets(r, <<0, Len(r.arr)>>)
    BY <1>1, <1>2, <1>3 DEF Brackets
  <2> QED
    BY <1>3, <2>1, BorderIs DEF Length
<1>4. CASE ~(r.arr # <<>> /\ Last(r.arr) = Nil)
  <2>1. Len(r.arr) = 0 \/ At(r, Len(r.arr)) # Nil
    BY <1>1, <1>2, <1>4
  <2> QED
    BY <1>4, <2>1, UnboundIs DEF Length
<1> QED
  BY <1>3, <1>4
=============================================================================
