-------------------------- MODULE CoroutineLemmas ---------------------------
(***************************************************************************)
(* What the operations of Coroutine do to a machine in order, for every    *)
(* set of coroutines and variables, any uses and every bound: each of them *)
(* leaves the invariant of CoroutineInvariant.                             *)
(***************************************************************************)
EXTENDS CoroutineInvariant, FiniteSetTheorems, FunctionTheorems, SequenceTheorems, WellFoundedInduction, TLAPS

-----------------------------------------------------------------------------
(* Numbers and sequences.                                                  *)

\* A set of naturals that is not empty has a least.
LEMMA LeastOf ==
  ASSUME NEW K \in SUBSET Nat, K # {}
  PROVE  Min(K) \in K /\ \A j \in K : Min(K) <= j
<1> DEFINE R == OpToRel(<, Nat)
<1>1. R = {p \in Nat \X Nat : p[1] < p[2]}
  BY DEF OpToRel
<1>2. IsWellFoundedOn(R, Nat)
  BY NatLessThanWellFounded, Zenon
<1> HIDE DEF R
<1>3. PICK i \in K : \A j \in K : <<j, i>> \notin R
  BY <1>2, WFMin
<1>4. ASSUME NEW j \in K PROVE i <= j
  <2>1. ~(j < i)
    BY <1>1, <1>3
  <2> QED
    BY <2>1
<1> QED
  BY <1>4 DEF Min

\* If any of 0 .. n is in S, then one is whose predecessor is not.
LEMMA FirstOf ==
  ASSUME NEW n \in Nat, NEW S \in SUBSET (0 .. n), S # {}
  PROVE  \E m \in S : m \in 0 .. n /\ (m # 0 => m - 1 \in 0 .. n /\ m - 1 \notin S)
<1>1. Min(S) \in S /\ \A j \in S : Min(S) <= j
  BY LeastOf
<1> DEFINE m == Min(S)
<1> HIDE DEF m
<1>2. m \in S /\ m \in 0 .. n /\ \A j \in S : m <= j
  BY <1>1 DEF m
<1>3. m # 0 => m - 1 \in 0 .. n /\ m - 1 \notin S
  BY <1>2
<1> QED
  BY <1>2, <1>3

\* A set of numbers up to n has a greatest.
LEMMA GreatestOf ==
  ASSUME NEW n \in Nat, NEW K \in SUBSET (0 .. n), K # {}
  PROVE  Max(K) \in K /\ \A j \in K : j <= Max(K)
<1> DEFINE S == {i \in 0 .. n : n - i \in K}
<1>1. S \in SUBSET Nat
  OBVIOUS
<1>2. S # {}
  <2>1. PICK j \in K : TRUE
    OBVIOUS
  <2>2. n - j \in 0 .. n /\ n - (n - j) = j
    BY <2>1
  <2> QED
    BY <2>1, <2>2
<1> HIDE DEF S
<1>3. Min(S) \in S /\ \A j \in S : Min(S) <= j
  BY <1>1, <1>2, LeastOf
<1> DEFINE m == n - Min(S)
<1>4. m \in K /\ \A j \in K : m >= j
  <2>1. Min(S) \in 0 .. n /\ n - Min(S) \in K
    BY <1>3 DEF S
  <2>2. ASSUME NEW j \in K PROVE m >= j
    <3>1. n - j \in 0 .. n /\ n - (n - j) = j
      OBVIOUS
    <3>2. n - j \in S
      BY <3>1 DEF S
    <3> QED
      BY <1>3, <2>1, <3>1, <3>2
  <2> QED
    BY <2>1, <2>2
<1> QED
  BY <1>4 DEF Max

\* The first n elements of a sequence.
LEMMA FirstOnes ==
  ASSUME NEW S, NEW s \in Seq(S), NEW n \in 0 .. Len(s)
  PROVE  /\ SubSeq(s, 1, n) \in Seq(S) /\ Len(SubSeq(s, 1, n)) = n
         /\ DOMAIN SubSeq(s, 1, n) = 1 .. n
         /\ \A i \in 1 .. n : SubSeq(s, 1, n)[i] = s[i]
         /\ n > 0 => Last(SubSeq(s, 1, n)) = s[n]
BY DEF Last

\* And of fewer of them.
LEMMA FirstOfFirst ==
  ASSUME NEW S, NEW s \in Seq(S), NEW n \in 0 .. Len(s), NEW m \in 0 .. n
  PROVE  SubSeq(SubSeq(s, 1, n), 1, m) = SubSeq(s, 1, m)
OBVIOUS

\* All of it.
LEMMA AllOnes ==
  ASSUME NEW S, NEW s \in Seq(S)
  PROVE  SubSeq(s, 1, Len(s)) = s /\ Len(s) \in 0 .. Len(s) /\ Len(s) \in Nat /\ DOMAIN s = 1 .. Len(s)
OBVIOUS

\* Sequences that agree below the end of the shorter one.
LEMMA Lengthens ==
  ASSUME NEW S, NEW c \in Seq(S), c # <<>>, NEW d \in Seq(S), Len(d) >= Len(c), \A p \in 1 .. Len(c) - 1 : d[p] = c[p]
  PROVE  d # <<>> /\ \A p \in DOMAIN c : p \in DOMAIN d /\ (p = Len(c) \/ d[p] = c[p])
<1> DEFINE n == Len(c)
<1>1. DOMAIN c = 1 .. n /\ DOMAIN d = 1 .. Len(d) /\ n \in Nat /\ Len(d) \in Nat /\ n > 0 /\ Len(d) >= n
  OBVIOUS
<1>2. d # <<>>
  BY <1>1
<1> HIDE DEF n
<1>3. \A p \in 1 .. n : (p = n \/ p \in 1 .. n - 1) /\ p \in 1 .. Len(d)
  BY <1>1
<1>4. \A p \in 1 .. n - 1 : d[p] = c[p]
  BY DEF n
<1>5. \A p \in DOMAIN c : p \in DOMAIN d /\ (p = n \/ d[p] = c[p])
  BY ONLY <1>1, <1>3, <1>4
<1> QED
  BY <1>2, <1>5 DEF n

\* One element more.
LEMMA OneMore ==
  ASSUME NEW S, NEW s \in Seq(S), NEW x \in S
  PROVE  /\ Append(s, x) \in Seq(S) /\ Len(Append(s, x)) = Len(s) + 1
         /\ DOMAIN Append(s, x) = 1 .. Len(s) + 1
         /\ \A i \in 1 .. Len(s) : Append(s, x)[i] = s[i]
         /\ Append(s, x)[Len(s) + 1] = x /\ Last(Append(s, x)) = x /\ Append(s, x) # <<>>
         /\ \A n \in 0 .. Len(s) : SubSeq(Append(s, x), 1, n) = SubSeq(s, 1, n)
         /\ Front(Append(s, x)) = s
BY DEF Last, Front

\* A sequence with elements has a last one.
LEMMA LastOne ==
  ASSUME NEW S, NEW s \in Seq(S), s # <<>>
  PROVE  Len(s) \in 1 .. Len(s) /\ Len(s) \in DOMAIN s /\ Last(s) = s[Len(s)] /\ Last(s) \in S
BY DEF Last

-----------------------------------------------------------------------------
(* Threads and activations.                                              *)

\* The parts of a thread.
LEMMA ThreadParts ==
  ASSUME NEW r \in ThreadRecord
  PROVE  /\ r.ci \in Seq(CallInfo) /\ r.nny \in Nat /\ r.death \in BOOLEAN /\ r.fresh \in BOOLEAN
         /\ r.status \in {"ok", "yield", "error"}
         /\ r.tbc \in Seq([level : Nat \ {0}, base : Nat \ {0}, id : Variables])
BY DEF ThreadRecord

\* The parts of an activation.
LEMMA ActivationParts ==
  ASSUME NEW e \in Activation
  PROVE  /\ e.t \in Threads /\ e.k \in {"call", "protect", "closing", "resume"}
         /\ e.k = "call" => e = [k |-> "call", t |-> e.t, ny |-> e.ny] /\ e.ny \in BOOLEAN
         /\ e.k = "protect" => e.ci \in Seq(CallInfo) /\ e.nny \in Nat /\ e.level \in Nat
         /\ e.k = "closing" => /\ e.ci \in Seq(CallInfo) /\ e.nny \in Nat /\ e.level \in Nat /\ e.err \in BOOLEAN
                               /\ e.then \in {"pcall", "close", "wrap", "self"}
         /\ e.k = "resume" => e.t \in Coroutines /\ e.nny \in Nat /\ e.loop \in BOOLEAN /\ e.wrap \in BOOLEAN
<1>1. CASE e \in [k : {"call"}, t : Threads, ny : BOOLEAN]
  BY <1>1
<1>2. CASE e \in [k : {"protect"}, t : Threads, ci : Seq(CallInfo), nny : Nat, level : Nat]
  BY <1>2
<1>3. CASE e \in [k : {"closing"}, t : Threads, ci : Seq(CallInfo), nny : Nat, level : Nat, err : BOOLEAN,
                  then : {"pcall", "close", "wrap", "self"}]
  BY <1>3
<1>4. CASE e \in [k : {"resume"}, t : Coroutines, nny : Nat, loop : BOOLEAN, wrap : BOOLEAN]
  BY ONLY <1>4 DEF Threads
<1> QED
  BY <1>1, <1>2, <1>3, <1>4 DEF Activation

-----------------------------------------------------------------------------
(* The count of a thread.                                                  *)

\* The activation a thread's count begins at.
LEMMA FromIs ==
  ASSUME NEW g \in Seq(Activation), NEW n \in 0 .. Len(g), NEW t
  PROVE  /\ From(g, n, t) \in 0 .. n
         /\ From(g, n, t) # 0 => /\ g[From(g, n, t)].t = t
                                 /\ g[From(g, n, t)].k = "resume" \/ Ends(g[From(g, n, t)])
         /\ \A i \in 1 .. n : g[i].t = t /\ (g[i].k = "resume" \/ Ends(g[i])) => i <= From(g, n, t)
<1> DEFINE K == {0} \union {i \in 1 .. n : g[i].t = t /\ (g[i].k = "resume" \/ Ends(g[i]))}
<1>1. K \in SUBSET (0 .. n) /\ K # {} /\ n \in Nat
  OBVIOUS
<1>2. From(g, n, t) = Max(K)
  BY DEF From
<1>3. Max(K) \in K /\ \A j \in K : j <= Max(K)
  <2> HIDE DEF K
  <2> QED
    BY <1>1, GreatestOf
<1> QED
  BY <1>2, <1>3

\* A count depends on the thread's own activations.
LEMMA CountView ==
  ASSUME NEW g \in Seq(Activation), NEW h \in Seq(Activation), NEW t,
         NEW n \in 0 .. Len(g), NEW m \in 0 .. Len(h),
         \A i \in Nat : i \in 1 .. n /\ g[i].t = t <=> i \in 1 .. m /\ h[i].t = t,
         \A i \in 1 .. n : g[i].t = t => g[i] = h[i]
  PROVE  From(g, n, t) = From(h, m, t) /\ Unyieldable(g, n, t) = Unyieldable(h, m, t) /\ Count(g, n, t) = Count(h, m, t)
<1>1. {i \in 1 .. n : g[i].t = t /\ (g[i].k = "resume" \/ Ends(g[i]))}
        = {i \in 1 .. m : h[i].t = t /\ (h[i].k = "resume" \/ Ends(h[i]))}
  OBVIOUS
<1>2. From(g, n, t) = From(h, m, t)
  BY <1>1 DEF From
<1> DEFINE f == From(g, n, t)
<1>3. f \in 0 .. n /\ (f # 0 => g[f].t = t)
  BY FromIs
<1>4. Unyieldable(g, n, t) = Unyieldable(h, m, t)
  BY <1>2, <1>3 DEF Unyieldable
<1>5. f # 0 => g[f] = h[f]
  BY <1>3
<1> QED
  BY <1>2, <1>4, <1>5 DEF Count

\* The unyieldable calls are finitely many.
LEMMA CountType ==
  ASSUME NEW g \in Seq(Activation), NEW n \in 0 .. Len(g), NEW t
  PROVE  /\ IsFiniteSet(Unyieldable(g, n, t)) /\ Cardinality(Unyieldable(g, n, t)) \in Nat
         /\ Count(g, n, t) \in Nat
<1>1. From(g, n, t) \in 0 .. n
  BY FromIs
<1>2. Unyieldable(g, n, t) \in SUBSET (1 .. n)
  BY <1>1 DEF Unyieldable
<1>3. IsFiniteSet(1 .. n)
  BY FS_Interval
<1>4. IsFiniteSet(Unyieldable(g, n, t))
  BY <1>2, <1>3, FS_Subset
<1> QED
  BY <1>4, FS_CardinalityType DEF Count

\* What one more activation adds to the count of its thread.
LEMMA CountNext ==
  ASSUME NEW g \in Seq(Activation), NEW n \in 1 .. Len(g), NEW t
  PROVE  /\ g[n].t # t => Count(g, n, t) = Count(g, n - 1, t)
         /\ Protects(g[n]) => Count(g, n, t) = Count(g, n - 1, t)
         /\ g[n].t = t /\ g[n].k = "resume" => Count(g, n, t) = 0
         /\ g[n].t = t /\ Ends(g[n]) => Count(g, n, t) = 1
         /\ g[n].t = t /\ g[n].k = "call" => Count(g, n, t) = Count(g, n - 1, t) + (IF g[n].ny THEN 1 ELSE 0)
<1> DEFINE f == From(g, n, t)
           e == From(g, n - 1, t)
<1>1. n - 1 \in 0 .. Len(g) /\ g[n] \in Activation
  OBVIOUS
<1>2. /\ f \in 0 .. n /\ (f # 0 => g[f].t = t /\ (g[f].k = "resume" \/ Ends(g[f])))
      /\ \A i \in 1 .. n : g[i].t = t /\ (g[i].k = "resume" \/ Ends(g[i])) => i <= f
  BY FromIs
<1>3. /\ e \in 0 .. n - 1 /\ (e # 0 => g[e].t = t /\ (g[e].k = "resume" \/ Ends(g[e])))
      /\ \A i \in 1 .. n - 1 : g[i].t = t /\ (g[i].k = "resume" \/ Ends(g[i])) => i <= e
  BY <1>1, FromIs
<1> HIDE DEF f, e
<1>4. CASE ~(g[n].t = t /\ (g[n].k = "resume" \/ Ends(g[n])))
  <2>1. f = e
    <3>1. f # n
      BY <1>2, <1>4
    <3>2. f <= e
      BY <1>2, <1>3, <3>1
    <3>3. e <= f
      BY <1>2, <1>3
    <3> QED
      BY <1>2, <1>3, <3>2, <3>3
  <2>2. CASE ~(g[n].t = t /\ g[n].k = "call" /\ g[n].ny)
    <3>1. Unyieldable(g, n, t) = Unyieldable(g, n - 1, t)
      BY <1>3, <2>1, <2>2 DEF Unyieldable, f, e
    <3>2. Count(g, n, t) = Count(g, n - 1, t)
      BY <2>1, <3>1 DEF Count, f, e
    <3>3. Count(g, n - 1, t) \in Nat
      BY <1>1, CountType
    <3> QED
      BY <1>1, <1>4, <2>2, <3>2, <3>3, ActivationParts
  <2>3. CASE g[n].t = t /\ g[n].k = "call" /\ g[n].ny
    <3>1. Unyieldable(g, n, t) = Unyieldable(g, n - 1, t) \union {n} /\ n \notin Unyieldable(g, n - 1, t)
      BY <1>3, <2>1, <2>3 DEF Unyieldable, f, e
    <3>2. IsFiniteSet(Unyieldable(g, n - 1, t)) /\ Cardinality(Unyieldable(g, n - 1, t)) \in Nat
      BY <1>1, CountType
    <3>3. Cardinality(Unyieldable(g, n, t)) = Cardinality(Unyieldable(g, n - 1, t)) + 1
      BY <3>1, <3>2, FS_AddElement
    <3>4. Count(g, n, t) = Count(g, n - 1, t) + 1
      BY <2>1, <3>2, <3>3 DEF Count, f, e
    <3> QED
      BY <1>4, <2>3, <3>4 DEF Protects, Ends
  <2> QED
    BY <2>2, <2>3
<1>5. CASE g[n].t = t /\ (g[n].k = "resume" \/ Ends(g[n]))
  <2>1. f = n
    BY <1>2, <1>5
  <2>2. Unyieldable(g, n, t) = {}
    BY <2>1 DEF Unyieldable, f
  <2>3. Cardinality(Unyieldable(g, n, t)) = 0
    BY <2>2, FS_EmptySet
  <2> QED
    BY <1>5, <2>1, <2>3 DEF Count, f, Ends, Protects
<1> QED
  BY <1>4, <1>5

-----------------------------------------------------------------------------
(* Threads that a step leaves alone.                                       *)

\* t's activations are the same in g and h.
SameView(g, F, h, E, t) ==
  \A i \in Nat :
    /\ i \in DOMAIN g /\ g[i].t = t <=> i \in DOMAIN h /\ h[i].t = t
    /\ i \in DOMAIN g /\ g[i].t = t => h[i] = g[i] /\ E[i] = F[i]

\* So the same of them are live, and its floors are.
LEMMA ViewFloors ==
  ASSUME NEW c \in Seq(CallInfo), NEW t, NEW g \in Seq(Activation), NEW h \in Seq(Activation),
         NEW F \in Seq(Nat), NEW E \in Seq(Nat), Len(F) = Len(g), Len(E) = Len(h),
         SameView(g, F, h, E, t), Floors(c, g, F, t)
  PROVE  Floors(c, h, E, t)
<1>1. DOMAIN g = 1 .. Len(g) /\ DOMAIN h = 1 .. Len(h) /\ Len(g) \in Nat /\ Len(h) \in Nat /\ DOMAIN g \subseteq Nat /\ DOMAIN h \subseteq Nat
  OBVIOUS
<1>2. \A i \in DOMAIN h : h[i].t = t => i \in DOMAIN g /\ g[i] = h[i] /\ g[i].t = t /\ E[i] = F[i]
  BY <1>1 DEF SameView
<1>3. \A i \in DOMAIN g : g[i].t = t => i \in DOMAIN h /\ g[i] = h[i] /\ h[i].t = t /\ E[i] = F[i]
  BY <1>1 DEF SameView
<1>4. ASSUME NEW i \in DOMAIN h, h[i].t = t PROVE Live(h, i) <=> Live(g, i)
  <2>1. i \in Nat /\ g[i].t = t
    BY <1>1, <1>2, <1>4
  <2>2. \A j \in i + 1 .. Len(g) : j \in DOMAIN g
    BY <1>1, <2>1
  <2>3. \A j \in i + 1 .. Len(h) : j \in DOMAIN h
    BY <1>1, <2>1
  <2>4. ASSUME NEW j \in DOMAIN h, h[j].t = t PROVE j \in i + 1 .. Len(h) <=> j \in i + 1 .. Len(g)
    BY ONLY <1>1, <1>2, <2>1, <2>4
  <2>5. ASSUME NEW j \in DOMAIN g, g[j].t = t PROVE j \in i + 1 .. Len(h) <=> j \in i + 1 .. Len(g)
    BY <1>3, <2>4, <2>5
  <2>6. ASSUME Live(g, i), NEW j \in i + 1 .. Len(h), h[j].t = h[i].t PROVE ~ClosesSelf(h[j])
    BY <1>2, <1>4, <2>1, <2>3, <2>4, <2>6 DEF Live
  <2>7. ASSUME Live(h, i), NEW j \in i + 1 .. Len(g), g[j].t = g[i].t PROVE ~ClosesSelf(g[j])
    BY <1>3, <1>4, <2>1, <2>2, <2>5, <2>7 DEF Live
  <2> QED
    BY <2>6, <2>7 DEF Live
<1>5. ASSUME NEW i \in DOMAIN h, h[i].t = t, FloorOk(c, g, F, t, i) PROVE FloorOk(c, h, E, t, i)
  <2>1. i \in Nat /\ g[i] = h[i] /\ E[i] = F[i]
    BY <1>1, <1>2, <1>5
  <2>2. ASSUME NEW j \in i + 1 .. Len(h), h[j].t = t PROVE j \in i + 1 .. Len(g) /\ g[j].t = t /\ E[j] = F[j]
    <3>1. j \in DOMAIN h /\ j \in Nat /\ j >= i + 1
      BY ONLY <1>1, <2>1
    <3>2. j \in DOMAIN g /\ g[j] = h[j] /\ E[j] = F[j]
      BY <1>2, <2>2, <3>1
    <3> QED
      BY <1>1, <2>1, <2>2, <3>1, <3>2
  <2>3. ASSUME NEW p, \E j \in DOMAIN g : g[j].t = t /\ g[j].k = "call" /\ Live(g, j) /\ F[j] + 1 = p
        PROVE  \E j \in DOMAIN h : h[j].t = t /\ h[j].k = "call" /\ Live(h, j) /\ E[j] + 1 = p
    BY <1>3, <1>4, <2>3
  <2> QED
    BY <1>5, <2>1, <2>2, <2>3, ZenonT(60) DEF FloorOk
<1>6. Anchored(c, h, E, t)
  <2> SUFFICES ASSUME NEW p \in 1 .. Len(c) - 1
               PROVE  /\ c[p].op = "protect" =>
                           \E i \in DOMAIN h : h[i].t = t /\ Protects(h[i]) /\ Live(h, i) /\ E[i] = p
                      /\ c[p].op = "plain" =>
                           \E i \in DOMAIN h : h[i].t = t /\ h[i].k = "call" /\ h[i].ny /\ Live(h, i) /\ E[i] = p
    BY DEF Anchored
  <2>1. /\ c[p].op = "protect" =>
             \E i \in DOMAIN g : g[i].t = t /\ Protects(g[i]) /\ Live(g, i) /\ F[i] = p
        /\ c[p].op = "plain" =>
             \E i \in DOMAIN g : g[i].t = t /\ g[i].k = "call" /\ g[i].ny /\ Live(g, i) /\ F[i] = p
    BY DEF Floors, Anchored
  <2> QED
    BY <1>3, <1>4, <2>1
<1> QED
  BY <1>2, <1>4, <1>5, <1>6 DEF Floors

\* A thread stays in order while others' activations come and go.
LEMMA ViewKeeps ==
  ASSUME NEW r \in ThreadRecord, NEW t, NEW g \in Seq(Activation), NEW h \in Seq(Activation),
         NEW F \in Seq(Nat), NEW E \in Seq(Nat), Len(F) = Len(g), Len(E) = Len(h),
         SameView(g, F, h, E, t), ThreadOk(r, t, g, F),
         Runs(g, t) => Lua(g) /\ ~Runs(h, t) /\ Waits(r.ci),
         Runs(h, t) => Lua(h)
  PROVE  ThreadOk(r, t, h, E)
<1>1. DOMAIN g = 1 .. Len(g) /\ DOMAIN h = 1 .. Len(h) /\ Len(g) \in Nat /\ Len(h) \in Nat /\ DOMAIN g \subseteq Nat /\ DOMAIN h \subseteq Nat
  OBVIOUS
<1>2. \A i \in DOMAIN h : h[i].t = t => i \in DOMAIN g /\ g[i] = h[i] /\ E[i] = F[i]
  BY <1>1 DEF SameView
<1>3. \A i \in DOMAIN g : g[i].t = t => i \in DOMAIN h /\ g[i] = h[i] /\ E[i] = F[i]
  BY <1>1 DEF SameView
<1>4. On(g, t) <=> On(h, t)
  BY <1>2, <1>3 DEF On
<1>5. Listed(r, t, h)
  <2>1. ASSUME NEW x, Covered(r, t, g, x) PROVE Covered(r, t, h, x)
    BY <1>3, <2>1 DEF Covered
  <2> QED
    BY <2>1 DEF Listed, ThreadOk
<1>6. ASSUME OnGo(r, t, g, F) PROVE OnGo(r, t, h, E)
  <2>1. Count(g, Len(g), t) = Count(h, Len(h), t)
    <3>1. \A i \in Nat : i \in 1 .. Len(g) /\ g[i].t = t <=> i \in 1 .. Len(h) /\ h[i].t = t
      BY <1>1 DEF SameView
    <3>2. \A i \in 1 .. Len(g) : g[i].t = t => g[i] = h[i]
      BY <1>1, <1>3
    <3>3. Len(g) \in 0 .. Len(g) /\ Len(h) \in 0 .. Len(h)
      BY <1>1
    <3> QED
      BY <3>1, <3>2, <3>3, CountView, ZenonT(30)
  <2>2. Floors(r.ci, h, E, t)
    <3>1. r.ci \in Seq(CallInfo)
      BY ThreadParts
    <3> QED
      BY <1>6, <3>1, ViewFloors DEF OnGo
  <2>3. Waits(r.ci)
    BY <1>6 DEF OnGo
  <2>4. r.status # "error"
    <3>1. \A e : ~(Ends(e) /\ e.k \in {"call", "resume"})
      BY DEF Ends
    <3> QED
      BY <1>6, <3>1 DEF OnGo, Lua
  <2>5. r.ci # <<>>
    BY <2>3 DEF Waits
  <2> QED
    BY <1>6, <2>1, <2>2, <2>3, <2>4, <2>5 DEF OnGo
<1> QED
  BY <1>4, <1>5, <1>6 DEF ThreadOk

-----------------------------------------------------------------------------
(* Go's stack.                                                             *)

\* Counts of what is below do not see what is above.
LEMMA CountBelow ==
  ASSUME NEW g \in Seq(Activation), NEW t
  PROVE  /\ \A e \in Activation : \A n \in 0 .. Len(g) : Count(Append(g, e), n, t) = Count(g, n, t)
         /\ \A m \in 0 .. Len(g) : \A n \in 0 .. m : Count(SubSeq(g, 1, m), n, t) = Count(g, n, t)
<1>1. ASSUME NEW e \in Activation, NEW n \in 0 .. Len(g) PROVE Count(Append(g, e), n, t) = Count(g, n, t)
  <2> DEFINE h == Append(g, e)
  <2>1. h \in Seq(Activation) /\ Len(h) = Len(g) + 1 /\ \A i \in 1 .. Len(g) : h[i] = g[i]
    BY OneMore
  <2>2. n \in 0 .. Len(h) /\ \A i \in 1 .. n : h[i] = g[i]
    BY <2>1
  <2> HIDE DEF h
  <2>3. Count(h, n, t) = Count(g, n, t)
    BY <2>1, <2>2, CountView, SMTT(60)
  <2> QED
    BY <2>3 DEF h
<1>2. ASSUME NEW m \in 0 .. Len(g), NEW n \in 0 .. m PROVE Count(SubSeq(g, 1, m), n, t) = Count(g, n, t)
  <2> DEFINE h == SubSeq(g, 1, m)
  <2>1. h \in Seq(Activation) /\ Len(h) = m /\ \A i \in 1 .. m : h[i] = g[i]
    BY FirstOnes
  <2>2. n \in 0 .. Len(h) /\ n \in 0 .. Len(g) /\ \A i \in 1 .. n : h[i] = g[i]
    BY <2>1
  <2> HIDE DEF h
  <2>3. Count(h, n, t) = Count(g, n, t)
    BY <2>1, <2>2, CountView
  <2> QED
    BY <2>3 DEF h
<1> QED
  BY <1>1, <1>2

\* An activation stays in order as others come above it and go.
LEMMA OkBelow ==
  ASSUME NEW g \in Seq(Activation), NEW i \in 1 .. Len(g), ActivationOk(g, i)
  PROVE  /\ \A e \in Activation : (i = Len(g) /\ Halts(g[i]) => e.k = "call" /\ e.ny) => ActivationOk(Append(g, e), i)
         /\ \A m \in i .. Len(g) : ActivationOk(SubSeq(g, 1, m), i)
<1>1. i \in Nat /\ i > 0 /\ Len(g) \in Nat /\ \A j \in 1 .. i - 1 : j \in 1 .. Len(g)
  OBVIOUS
<1>2. ASSUME NEW e \in Activation, i = Len(g) /\ Halts(g[i]) => e.k = "call" /\ e.ny
      PROVE  ActivationOk(Append(g, e), i)
  <2> DEFINE h == Append(g, e)
  <2>1. Len(h) = Len(g) + 1 /\ \A j \in 1 .. Len(g) : h[j] = g[j] /\ h[Len(g) + 1] = e
    BY OneMore
  <2>2. Count(h, i - 1, g[i].t) = Count(g, i - 1, g[i].t)
    <3>1. i - 1 \in 0 .. Len(g)
      OBVIOUS
    <3> QED
      BY <3>1, CountBelow
  <2> HIDE DEF h
  <2>3. h[i] = g[i] /\ \A j \in 1 .. i - 1 : h[j] = g[j]
    BY <1>1, <2>1
  <2>4. i > 1 => h[i - 1] = g[i - 1]
    BY <1>1, <2>1
  <2>5. Halts(h[i]) /\ i < Len(h) => h[i + 1].k = "call" /\ h[i + 1].ny
    <3>1. CASE i = Len(g)
      BY <1>2, <2>1, <3>1
    <3>2. CASE i < Len(g)
      BY <1>1, <2>1, <3>2 DEF ActivationOk
    <3> QED
      BY <3>1, <3>2
  <2>6. ActivationOk(h, i)
    BY <2>2, <2>3, <2>4, <2>5 DEF ActivationOk
  <2> QED
    BY <2>6 DEF h
<1>3. ASSUME NEW m \in i .. Len(g) PROVE ActivationOk(SubSeq(g, 1, m), i)
  <2> DEFINE h == SubSeq(g, 1, m)
  <2>1. m \in 0 .. Len(g) /\ i - 1 \in 0 .. m
    OBVIOUS
  <2>2. Len(h) = m /\ \A j \in 1 .. m : h[j] = g[j]
    BY <2>1, FirstOnes
  <2>3. Count(h, i - 1, g[i].t) = Count(g, i - 1, g[i].t)
    BY <2>1, CountBelow
  <2> HIDE DEF h
  <2>4. h[i] = g[i] /\ \A j \in 1 .. i - 1 : h[j] = g[j]
    BY <1>1, <2>2
  <2>5. i > 1 => h[i - 1] = g[i - 1]
    BY <1>1, <2>2
  <2>6. i < Len(h) => i < Len(g) /\ h[i + 1] = g[i + 1]
    BY <1>1, <2>2
  <2>7. ActivationOk(h, i)
    BY <2>3, <2>4, <2>5, <2>6 DEF ActivationOk
  <2> QED
    BY <2>7 DEF h
<1> QED
  BY <1>2, <1>3

\* What is below a protect or a closing begins.
LEMMA GoCut ==
  ASSUME NEW g \in Seq(Activation), GoOk(g), NEW n \in 0 .. Len(g)
  PROVE  GoOk(SubSeq(g, 1, n))
<1> DEFINE h == SubSeq(g, 1, n)
<1>1. h \in Seq(Activation) /\ Len(h) = n /\ DOMAIN h = 1 .. n /\ (\A j \in 1 .. n : h[j] = g[j]) /\ (n > 0 => Last(h) = g[n])
  BY FirstOnes
<1>2. \A i \in 1 .. n : ActivationOk(h, i)
  BY OkBelow DEF GoOk
<1> HIDE DEF h
<1>3. h # <<>> => n > 0 /\ g # <<>>
  BY <1>1
<1>4. GoOk(h)
  BY <1>1, <1>2, <1>3 DEF GoOk
<1> QED
  BY <1>4 DEF h

\* A new activation on top.
LEMMA GoMore ==
  ASSUME NEW g \in Seq(Activation), NEW e \in Activation,
         g = <<>> => Hosts(e),
         g # <<>> => /\ Hosts(g[1])
                     /\ Halts(Last(g)) => e.k = "call" /\ e.ny,
         \A i \in DOMAIN g : ActivationOk(g, i),
         ActivationOk(Append(g, e), Len(g) + 1)
  PROVE  GoOk(Append(g, e))
<1> DEFINE h == Append(g, e)
<1>1. /\ h \in Seq(Activation) /\ Len(h) = Len(g) + 1 /\ DOMAIN h = 1 .. Len(g) + 1 /\ (\A j \in 1 .. Len(g) : h[j] = g[j])
      /\ Last(h) = e /\ h[Len(g) + 1] = e
  BY OneMore
<1>2. \A i \in 1 .. Len(g) : ActivationOk(h, i)
  BY OkBelow DEF Last
<1> HIDE DEF h
<1>3. \A i \in DOMAIN h : ActivationOk(h, i)
  <2>1. \A i \in DOMAIN h : i \in 1 .. Len(g) \/ i = Len(g) + 1
    BY <1>1
  <2> QED
    BY <1>2, <2>1 DEF h
<1>4. Hosts(h[1])
  <2>1. CASE g = <<>>
    BY <1>1, <2>1
  <2>2. CASE g # <<>>
    BY <1>1, <2>2
  <2> QED
    BY <2>1, <2>2
<1>5. GoOk(h)
  BY <1>1, <1>3, <1>4 DEF GoOk
<1> QED
  BY <1>5 DEF h

\* Activations that begin no thread are the top one's.
LEMMA PieceAbove ==
  ASSUME NEW g \in Seq(Activation), GoOk(g), NEW i \in 1 .. Len(g), \A j \in i + 1 .. Len(g) : ~Begins(g[j])
  PROVE  \A j \in i .. Len(g) : g[j].t = Last(g).t
<1> DEFINE t == Last(g).t
           S == {n \in 0 .. Len(g) - i : g[Len(g) - n].t # t}
<1>1. Len(g) \in Nat /\ i \in Nat /\ Len(g) - i \in Nat
  OBVIOUS
<1> SUFFICES ASSUME NEW j \in i .. Len(g), g[j].t # t PROVE FALSE
  OBVIOUS
<1>2. S # {} /\ S \in SUBSET (0 .. Len(g) - i)
  <2>1. Len(g) - j \in 0 .. Len(g) - i /\ Len(g) - (Len(g) - j) = j
    BY <1>1
  <2> QED
    BY <2>1
<1> HIDE DEF S
<1>3. PICK m \in S : m \in 0 .. Len(g) - i /\ (m # 0 => m - 1 \in 0 .. Len(g) - i /\ m - 1 \notin S)
  BY <1>1, <1>2, FirstOf
<1> DEFINE k == Len(g) - m
<1>4. g[k].t # t /\ m # 0 => k + 1 \in i + 1 .. Len(g) /\ g[k + 1].t = t
  <2>1. m # 0 => Len(g) - (m - 1) = k + 1 /\ k + 1 \in i + 1 .. Len(g)
    BY <1>1, <1>3
  <2> QED
    BY <1>3, <2>1 DEF S
<1>5. g[k].t # t /\ m # 0 /\ k \in Nat /\ k >= 1
  BY <1>1, <1>3 DEF S, Last
<1> HIDE DEF k
<1>6. ActivationOk(g, k + 1) /\ k + 1 > 1 /\ k + 1 - 1 = k /\ ~Begins(g[k + 1])
  <2>1. k + 1 \in DOMAIN g /\ k + 1 \in i + 1 .. Len(g) /\ k + 1 > 1
    BY <1>1, <1>4, <1>5
  <2> QED
    BY <1>5, <2>1 DEF GoOk
<1>7. g[k + 1].t = g[k].t
  BY <1>5, <1>6 DEF ActivationOk
<1> QED
  BY <1>4, <1>5, <1>7

\* The activations of the thread on top are next to each other, and only the
\* lowest begins it.
LEMMA PieceOfTop ==
  ASSUME NEW g \in Seq(Activation), GoOk(g), NEW i \in 1 .. Len(g), g[i].t = Last(g).t
  PROVE  \A j \in i + 1 .. Len(g) : g[j].t = Last(g).t /\ ~Begins(g[j])
<1> DEFINE t == Last(g).t
           S == {n \in 0 .. Len(g) - i : n # Len(g) - i /\ (g[Len(g) - n].t # t \/ Begins(g[Len(g) - n]))}
<1>1. Len(g) \in Nat /\ i \in Nat /\ Len(g) - i \in Nat
  OBVIOUS
<1> SUFFICES ASSUME NEW j \in i + 1 .. Len(g), g[j].t # t \/ Begins(g[j]) PROVE FALSE
  OBVIOUS
<1>2. S # {} /\ S \in SUBSET (0 .. Len(g) - i)
  <2>1. Len(g) - j \in 0 .. Len(g) - i /\ Len(g) - (Len(g) - j) = j /\ Len(g) - j # Len(g) - i
    BY <1>1
  <2> QED
    BY <2>1
<1> HIDE DEF S
<1>3. PICK m \in S : m \in 0 .. Len(g) - i /\ (m # 0 => m - 1 \in 0 .. Len(g) - i /\ m - 1 \notin S)
  BY <1>1, <1>2, FirstOf
<1> DEFINE k == Len(g) - m
<1>4. k \in i + 1 .. Len(g) /\ (g[k].t # t \/ Begins(g[k]))
  BY <1>1, <1>3 DEF S
<1>5. m = 0 => k = Len(g)
  BY <1>1
<1>6. k = Len(g) - m
  OBVIOUS
<1> HIDE DEF k
<1>7. g[k].t = t
  <2>1. CASE m = 0
    BY <1>5, <2>1 DEF Last
  <2>2. CASE m # 0
    <3>1. Len(g) - (m - 1) = k + 1 /\ m - 1 # Len(g) - i /\ k + 1 \in 1 .. Len(g)
      <4>1. m \in Nat /\ m <= Len(g) - i
        BY <1>1, <1>3
      <4> DEFINE l == Len(g)
      <4>2. l \in Nat /\ i \in Nat /\ i >= 1 /\ m <= l - i /\ k = l - m
        BY <1>1, <1>6, <4>1
      <4> HIDE DEF l
      <4>3. l - (m - 1) = k + 1 /\ m - 1 # l - i /\ k + 1 \in 1 .. l
        BY ONLY <2>2, <4>1, <4>2
      <4> QED
        BY <4>3 DEF l
    <3>2. g[k + 1].t = t /\ ~Begins(g[k + 1])
      BY <1>3, <2>2, <3>1 DEF S
    <3>3. ActivationOk(g, k + 1) /\ k \in Nat /\ k + 1 > 1 /\ k + 1 - 1 = k
      BY <1>1, <1>4, <3>1 DEF GoOk
    <3> QED
      BY <3>2, <3>3 DEF ActivationOk
  <2> QED
    BY <2>1, <2>2
<1>8. ActivationOk(g, k) /\ k > 1 /\ i \in 1 .. k - 1
  BY <1>1, <1>4 DEF GoOk
<1> QED
  BY <1>4, <1>7, <1>8 DEF ActivationOk

\* A thread in progress but the main one has begun.
LEMMA PieceBegins ==
  ASSUME NEW g \in Seq(Activation), GoOk(g), NEW t, On(g, t), t # Main
  PROVE  \E i \in 1 .. Len(g) : g[i].t = t /\ Begins(g[i])
<1> DEFINE S == {n \in 0 .. Len(g) : n # 0 /\ g[n].t = t}
<1>1. Len(g) \in Nat /\ DOMAIN g = 1 .. Len(g) /\ S \in SUBSET (0 .. Len(g)) /\ S # {}
  BY DEF On
<1> HIDE DEF S
<1>2. PICK m \in S : m \in 0 .. Len(g) /\ (m # 0 => m - 1 \in 0 .. Len(g) /\ m - 1 \notin S)
  BY <1>1, FirstOf
<1>3. m \in 1 .. Len(g) /\ g[m].t = t
  BY <1>2 DEF S
<1>4. m # 1
  BY <1>3 DEF GoOk, Hosts
<1>5. m - 1 # 0 /\ g[m - 1].t # t
  BY <1>2, <1>3, <1>4 DEF S
<1>6. ActivationOk(g, m)
  BY <1>1, <1>3 DEF GoOk
<1> QED
  BY <1>3, <1>4, <1>5, <1>6 DEF ActivationOk

-----------------------------------------------------------------------------
(* A thread's record.                                                      *)

\* All of a record but its call infos.
SameRest(q, r) ==
  q.status = r.status /\ q.death = r.death /\ q.fresh = r.fresh /\ q.nny = r.nny /\ q.tbc = r.tbc

\* A record whose call infos alone change.
LEMMA OnlyCalls ==
  ASSUME NEW r \in ThreadRecord, NEW c \in Seq(CallInfo)
  PROVE  LET q == [r EXCEPT !.ci = c] IN q \in ThreadRecord /\ q.ci = c /\ SameRest(q, r)
BY DEF ThreadRecord, SameRest

\* A record whose count alone changes.
LEMMA OnlyCount ==
  ASSUME NEW r \in ThreadRecord, NEW k \in Nat
  PROVE  LET q == [r EXCEPT !.nny = k]
         IN /\ q \in ThreadRecord /\ q.nny = k /\ q.ci = r.ci /\ q.tbc = r.tbc
            /\ q.status = r.status /\ q.death = r.death /\ q.fresh = r.fresh
BY DEF ThreadRecord

\* Mark changes the op and the level of the call info on top.
LEMMA MarkIs ==
  ASSUME NEW r \in ThreadRecord, r.ci # <<>>, NEW op \in LuaOps \union GoOps, NEW level \in Nat
  PROVE  LET m == Mark(r, op, level) IN
         /\ m \in ThreadRecord /\ Len(m.ci) = Len(r.ci) /\ m.ci # <<>>
         /\ \A p \in 1 .. Len(r.ci) - 1 : m.ci[p] = r.ci[p]
         /\ Last(m.ci) = m.ci[Len(r.ci)] /\ Last(m.ci).op = op /\ Last(m.ci).level = level
         /\ Last(m.ci).pos = r.ci[Len(r.ci)].pos /\ Last(m.ci).fresh = r.ci[Len(r.ci)].fresh
         /\ SameRest(m, r)
<1> DEFINE c == r.ci
           x == c[Len(c)]
           e == [op |-> op, pos |-> x.pos, fresh |-> x.fresh, level |-> level]
           d == [c EXCEPT ![Len(c)] = e]
<1>1. c \in Seq(CallInfo) /\ c # <<>>
  BY ThreadParts
<1>2. Len(c) \in Nat /\ Len(c) \in DOMAIN c /\ Len(c) > 0 /\ x \in CallInfo
  BY <1>1, LastOne
<1>3. [[x EXCEPT !.op = op] EXCEPT !.level = level] = e
  <2> DEFINE y == [op |-> op, pos |-> x.pos, fresh |-> x.fresh, level |-> x.level]
  <2> HIDE DEF x
  <2>1. [x EXCEPT !.op = op] = y
    BY <1>2 DEF CallInfo
  <2>2. [y EXCEPT !.level = level] = e
    OBVIOUS
  <2> HIDE DEF y, e
  <2> QED
    BY <2>1, <2>2
<1>4. e \in CallInfo
  <2> HIDE DEF x
  <2> QED
    BY <1>2 DEF CallInfo
<1>5. Mark(r, op, level) = [r EXCEPT !.ci = d]
  <2>1. [r EXCEPT !.ci[Len(r.ci)].op = op].ci = [c EXCEPT ![Len(c)] = [x EXCEPT !.op = op]]
    BY DEF ThreadRecord
  <2> QED
    BY <1>1, <1>2, <1>3 DEF Mark, ThreadRecord, CallInfo
<1> HIDE DEF e
<1>6. d \in Seq(CallInfo) /\ Len(d) = Len(c) /\ d # <<>> /\ (\A p \in 1 .. Len(c) - 1 : d[p] = c[p]) /\ d[Len(c)] = e
  <2> HIDE DEF c
  <2> QED
    BY <1>1, <1>2, <1>4
<1>7. Last(d) = d[Len(c)]
  BY <1>6 DEF Last
<1> HIDE DEF d
<1>8. LET q == [r EXCEPT !.ci = d] IN q \in ThreadRecord /\ q.ci = d /\ SameRest(q, r)
  BY <1>6, OnlyCalls
<1>9. e.op = op /\ e.level = level /\ e.pos = x.pos /\ e.fresh = x.fresh
  BY DEF e
<1> QED
  BY <1>5, <1>6, <1>7, <1>8, <1>9 DEF e

\* A stack index above a thread's frames and variables.
LEMMA HeightIs ==
  ASSUME NEW r \in ThreadRecord
  PROVE  /\ Height(r) \in Nat
         /\ r.ci # <<>> => Last(r.ci).pos <= Height(r)
         /\ r.tbc # <<>> => Last(r.tbc).level <= Height(r)
         /\ \A n \in Nat : (r.ci # <<>> => Last(r.ci).pos <= n) /\ (r.tbc # <<>> => Last(r.tbc).level <= n)
                             => Height(r) <= n
<1> DEFINE K == {0} \union (IF r.ci = <<>> THEN {} ELSE {Last(r.ci).pos})
                    \union (IF r.tbc = <<>> THEN {} ELSE {Last(r.tbc).level})
           a == IF r.ci = <<>> THEN 0 ELSE Last(r.ci).pos
           b == IF r.tbc = <<>> THEN 0 ELSE Last(r.tbc).level
<1>1. a \in Nat /\ b \in Nat
  <2>1. r.ci # <<>> => Last(r.ci) \in CallInfo
    BY ThreadParts, LastOne
  <2>2. r.tbc # <<>> => Last(r.tbc) \in [level : Nat \ {0}, base : Nat \ {0}, id : Variables]
    BY ThreadParts, LastOne
  <2> QED
    BY <2>1, <2>2 DEF CallInfo
<1>2. K = {0, a, b} \/ K = {0, a} \/ K = {0, b} \/ K = {0}
  OBVIOUS
<1>3. K \subseteq {0, a, b} /\ a \in K \union {0} /\ b \in K \union {0} /\ 0 \in K
  OBVIOUS
<1> HIDE DEF K, a, b
<1>4. PICK n \in Nat : a <= n /\ b <= n
  <2>1. CASE a <= b
    BY <1>1, <2>1
  <2>2. CASE b <= a
    BY <1>1, <2>2
  <2> QED
    BY <1>1, <2>1, <2>2
<1>5. K \in SUBSET (0 .. n) /\ K # {}
  BY <1>1, <1>3, <1>4
<1>6. Max(K) \in K /\ \A j \in K : j <= Max(K)
  BY <1>5, GreatestOf
<1>7. Height(r) = Max(K)
  BY DEF Height, K
<1>8. Height(r) \in {0, a, b} /\ a <= Height(r) /\ b <= Height(r)
  BY <1>1, <1>3, <1>6, <1>7
<1> QED
  BY <1>1, <1>8 DEF a, b

\* PushFrame puts a frame above everything.
LEMMA PushIs ==
  ASSUME NEW r \in ThreadRecord, NEW op \in LuaOps \union GoOps, NEW fresh \in BOOLEAN
  PROVE  LET m == PushFrame(r, op, fresh)
             f == [op |-> op, pos |-> Height(r) + 1, fresh |-> fresh, level |-> 0]
         IN /\ f \in CallInfo /\ m \in ThreadRecord /\ m = [r EXCEPT !.ci = Append(r.ci, f)]
            /\ m.ci = Append(r.ci, f) /\ m.ci # <<>> /\ Last(m.ci) = f /\ SameRest(m, r)
<1> DEFINE f == [op |-> op, pos |-> Height(r) + 1, fresh |-> fresh, level |-> 0]
<1>1. r.ci \in Seq(CallInfo)
  BY ThreadParts
<1>2. Height(r) \in Nat
  BY HeightIs
<1>3. f \in CallInfo
  BY <1>2 DEF CallInfo
<1>4. PushFrame(r, op, fresh) = [r EXCEPT !.ci = Append(r.ci, f)]
  BY DEF PushFrame
<1> HIDE DEF f
<1>5. Append(r.ci, f) \in Seq(CallInfo) /\ Append(r.ci, f) # <<>> /\ Last(Append(r.ci, f)) = f
  BY <1>1, <1>3, OneMore
<1>6. LET q == [r EXCEPT !.ci = Append(r.ci, f)] IN q \in ThreadRecord /\ q.ci = Append(r.ci, f) /\ SameRest(q, r)
  BY <1>5, OnlyCalls
<1> QED
  BY <1>3, <1>4, <1>5, <1>6 DEF f

-----------------------------------------------------------------------------
(* Call infos.                                                             *)

\* Frames below one are in order.
LEMMA FramesCut ==
  ASSUME NEW c \in Seq(CallInfo), FramesOk(c), NEW m \in 0 .. Len(c)
  PROVE  FramesOk(SubSeq(c, 1, m))
<1> DEFINE d == SubSeq(c, 1, m)
<1>1. DOMAIN d = 1 .. m /\ Len(d) = m /\ \A p \in 1 .. m : d[p] = c[p]
  BY FirstOnes
<1> HIDE DEF d
<1>2. DOMAIN c = 1 .. Len(c) /\ Len(c) \in Nat /\ m \in Nat /\ m <= Len(c)
  OBVIOUS
<1>3. \A p \in 1 .. m : p \in DOMAIN c /\ (p > 1 => p - 1 \in 1 .. m) /\ \A q \in 1 .. p - 1 : q \in 1 .. m
  BY <1>2
<1>4. FramesOk(d)
  BY <1>1, <1>2, <1>3 DEF FramesOk
<1> QED
  BY <1>4 DEF d

\* The Lua frame on top may come to another op.
LEMMA FramesMark ==
  ASSUME NEW c \in Seq(CallInfo), FramesOk(c), c # <<>>, NEW d \in Seq(CallInfo), Len(d) = Len(c),
         \A p \in 1 .. Len(c) - 1 : d[p] = c[p],
         d[Len(c)].pos = c[Len(c)].pos, d[Len(c)].fresh = c[Len(c)].fresh,
         d[Len(c)].op \in LuaOps, d[Len(c)].op = "return" => d[Len(c)].level = d[Len(c)].pos
  PROVE  FramesOk(d)
<1>1. DOMAIN d = 1 .. Len(c) /\ DOMAIN c = 1 .. Len(c) /\ Len(c) \in Nat /\ Len(c) \in DOMAIN c
  BY LastOne
<1>2. Len(c) \in Nat
  OBVIOUS
<1>3. \A p \in 1 .. Len(c) : p = Len(c) \/ p \in 1 .. Len(c) - 1
  BY <1>2
<1>4. \A p \in 1 .. Len(c) : d[p].pos = c[p].pos /\ d[p].fresh = c[p].fresh
  BY <1>3
<1>5. \A p \in 1 .. Len(c) : \A q \in 1 .. p - 1 : q \in 1 .. Len(c) - 1 /\ d[q] = c[q]
  BY <1>1
<1>6. \A p \in 1 .. Len(c) : p > 1 => d[p - 1] = c[p - 1]
  BY <1>1
<1>7. d[Len(c)].op \notin GoOps /\ d[Len(c)].op \notin {"pcall", "error"}
  BY DEF LuaOps, GoOps
<1>8. ASSUME NEW p \in DOMAIN d
      PROVE  /\ d[p].op \in GoOps => ~d[p].fresh
             /\ ~d[p].fresh => p > 1 /\ d[p - 1].op = "call"
             /\ p < Len(d) => d[p].op # "run"
             /\ d[p].op \in {"pcall", "error"} => \A q \in 1 .. p - 1 : d[q].op \notin {"protect", "plain"}
             /\ d[p].op = "return" => d[p].level = d[p].pos
             /\ d[p].op = "error" => d[p].level = d[p].pos + 1
  <2>1. /\ c[p].op \in GoOps => ~c[p].fresh
        /\ ~c[p].fresh => p > 1 /\ c[p - 1].op = "call"
        /\ p < Len(c) => c[p].op # "run"
        /\ c[p].op \in {"pcall", "error"} => \A q \in 1 .. p - 1 : c[q].op \notin {"protect", "plain"}
        /\ c[p].op = "return" => c[p].level = c[p].pos
        /\ c[p].op = "error" => c[p].level = c[p].pos + 1
    BY <1>1 DEF FramesOk
  <2>2. CASE p = Len(c)
    BY <1>1, <1>4, <1>6, <1>7, <2>1, <2>2
  <2>3. CASE p # Len(c)
    <3>1. d[p] = c[p]
      BY <1>1, <1>3, <2>3
    <3> QED
      BY ONLY <1>1, <1>5, <1>6, <2>1, <3>1, SMTT(60)
  <2> QED
    BY <2>2, <2>3
<1>9. \A p, q \in DOMAIN d : p < q => d[p].pos < d[q].pos
  BY <1>1, <1>4 DEF FramesOk
<1> QED
  BY <1>8, <1>9 DEF FramesOk

\* A frame above all may be called.
LEMMA FramesPush ==
  ASSUME NEW c \in Seq(CallInfo), FramesOk(c), NEW f \in CallInfo,
         c # <<>> => Last(c).op # "run" /\ Last(c).pos < f.pos,
         f.op \notin {"return", "error"}, f.op \in GoOps => ~f.fresh,
         ~f.fresh => Waits(c), f.op = "pcall" => Settled(c)
  PROVE  FramesOk(Append(c, f))
<1> DEFINE d == Append(c, f)
           n == Len(c)
<1>1. Len(d) = n + 1 /\ DOMAIN d = 1 .. n + 1 /\ (\A p \in 1 .. n : d[p] = c[p]) /\ d[n + 1] = f
  BY OneMore
<1>2. DOMAIN c = 1 .. n /\ n \in Nat /\ (c # <<>> => n \in DOMAIN c /\ n > 0 /\ Last(c) = c[n]) /\ (c = <<>> => n = 0)
  BY LastOne
<1>3. \A p \in 1 .. n : c[p].pos \in Nat /\ f.pos \in Nat
  <2>1. \A x \in CallInfo : x.pos \in Nat
    BY DEF CallInfo
  <2>2. \A p \in 1 .. n : c[p] \in CallInfo
    OBVIOUS
  <2> QED
    BY <2>1, <2>2
<1> HIDE DEF d, n
<1>4. \A p \in 1 .. n : c[p].pos < f.pos
  <2> TAKE p \in 1 .. n
  <2>1. c # <<>>
    BY <1>2
  <2>2. p = n \/ p < n
    BY <1>2
  <2>3. c[p].pos <= c[n].pos /\ c[n].pos \in Nat
    BY <1>2, <1>3, <2>1, <2>2, SMTT(60) DEF FramesOk
  <2> QED
    BY <1>2, <1>3, <2>1, <2>3
<1>5. \A p, q \in DOMAIN d : p < q => d[p].pos < d[q].pos
  <2> SUFFICES ASSUME NEW p \in DOMAIN d, NEW q \in DOMAIN d, p < q PROVE d[p].pos < d[q].pos
    OBVIOUS
  <2>1. p \in 1 .. n /\ (q \in 1 .. n \/ q = n + 1)
    BY <1>1, <1>2
  <2> QED
    BY <1>1, <1>2, <1>4, <2>1 DEF FramesOk
<1>6. ASSUME NEW p \in DOMAIN d
      PROVE  /\ d[p].op \in GoOps => ~d[p].fresh
             /\ ~d[p].fresh => p > 1 /\ d[p - 1].op = "call"
             /\ p < Len(d) => d[p].op # "run"
             /\ d[p].op \in {"pcall", "error"} => \A q \in 1 .. p - 1 : d[q].op \notin {"protect", "plain"}
             /\ d[p].op = "return" => d[p].level = d[p].pos
             /\ d[p].op = "error" => d[p].level = d[p].pos + 1
  <2>1. CASE p = n + 1
    <3>1. ~f.fresh => n > 0 /\ c[n].op = "call" /\ n \in 1 .. n /\ d[n] = c[n]
      BY <1>1, <1>2 DEF Waits
    <3>2. f.op = "pcall" => \A q \in 1 .. n : d[q].op \notin {"protect", "plain"}
      BY <1>1, <1>2 DEF Settled
    <3>3. p - 1 = n /\ Len(d) = p /\ d[p] = f /\ ~(p < p)
      BY <1>1, <1>2, <2>1
    <3> QED
      BY <3>1, <3>2, <3>3, <1>2
  <2>2. CASE p \in 1 .. n
    <3>1. /\ c[p].op \in GoOps => ~c[p].fresh
          /\ ~c[p].fresh => p > 1 /\ c[p - 1].op = "call"
          /\ p < n => c[p].op # "run"
          /\ c[p].op \in {"pcall", "error"} => \A q \in 1 .. p - 1 : c[q].op \notin {"protect", "plain"}
          /\ c[p].op = "return" => c[p].level = c[p].pos
          /\ c[p].op = "error" => c[p].level = c[p].pos + 1
      BY <1>2, <2>2 DEF FramesOk, n
    <3>2. p > 1 => p - 1 \in 1 .. n /\ d[p - 1] = c[p - 1]
      BY <1>1, <1>2, <2>2
    <3>3. \A q \in 1 .. p - 1 : d[q] = c[q]
      BY <1>1, <1>2, <2>2
    <3>4. d[p].op # "run"
      <4>1. p = n => c # <<>>
        BY <1>2, <2>2
      <4>2. p = n \/ p < n
        BY <1>2, <2>2
      <4> QED
        BY <1>1, <1>2, <2>2, <3>1, <4>1, <4>2
    <3> QED
      BY <1>1, <2>2, <3>1, <3>2, <3>3, <3>4
  <2> QED
    BY <1>1, <1>2, <2>1, <2>2
<1>7. FramesOk(d)
  BY <1>5, <1>6 DEF FramesOk
<1> QED
  BY <1>7 DEF d

\* An error recovered by the yieldable pcall on top.
LEMMA FramesRecover ==
  ASSUME NEW c \in Seq(CallInfo), FramesOk(c), c # <<>>, Last(c).op \in {"pcall", "error"},
         NEW d \in Seq(CallInfo), Len(d) = Len(c), \A p \in 1 .. Len(c) - 1 : d[p] = c[p],
         d[Len(c)].pos = c[Len(c)].pos, d[Len(c)].fresh = c[Len(c)].fresh,
         d[Len(c)].op = "error", d[Len(c)].level = c[Len(c)].pos + 1
  PROVE  FramesOk(d) /\ Settled(d)
<1>1. DOMAIN d = 1 .. Len(c) /\ DOMAIN c = 1 .. Len(c) /\ Len(c) \in Nat /\ Len(c) \in DOMAIN c /\ Last(c) = c[Len(c)]
  BY LastOne
<1>2. Len(c) \in Nat
  OBVIOUS
<1>3. \A p \in 1 .. Len(c) : p = Len(c) \/ p \in 1 .. Len(c) - 1
  BY <1>2
<1>4. \A p \in 1 .. Len(c) : d[p].pos = c[p].pos /\ d[p].fresh = c[p].fresh
  BY <1>3
<1>5. \A p \in 1 .. Len(c) : \A q \in 1 .. p - 1 : q \in 1 .. Len(c) - 1 /\ d[q] = c[q]
  BY <1>1
<1>6. \A p \in 1 .. Len(c) : p > 1 => d[p - 1] = c[p - 1]
  BY <1>1
<1>7. "error" \in GoOps /\ "pcall" \in GoOps /\ ~c[Len(c)].fresh
  BY <1>1 DEF GoOps, FramesOk
<1>8. ASSUME NEW p \in DOMAIN d
      PROVE  /\ d[p].op \in GoOps => ~d[p].fresh
             /\ ~d[p].fresh => p > 1 /\ d[p - 1].op = "call"
             /\ p < Len(d) => d[p].op # "run"
             /\ d[p].op \in {"pcall", "error"} => \A q \in 1 .. p - 1 : d[q].op \notin {"protect", "plain"}
             /\ d[p].op = "return" => d[p].level = d[p].pos
             /\ d[p].op = "error" => d[p].level = d[p].pos + 1
  <2>1. /\ c[p].op \in GoOps => ~c[p].fresh
        /\ ~c[p].fresh => p > 1 /\ c[p - 1].op = "call"
        /\ p < Len(c) => c[p].op # "run"
        /\ c[p].op \in {"pcall", "error"} => \A q \in 1 .. p - 1 : c[q].op \notin {"protect", "plain"}
        /\ c[p].op = "return" => c[p].level = c[p].pos
        /\ c[p].op = "error" => c[p].level = c[p].pos + 1
    BY <1>1 DEF FramesOk
  <2>2. CASE p = Len(c)
    BY <1>1, <1>4, <1>5, <1>6, <1>7, <2>1, <2>2
  <2>3. CASE p # Len(c)
    <3>1. d[p] = c[p]
      BY <1>1, <1>3, <2>3
    <3> QED
      BY ONLY <1>1, <1>5, <1>6, <2>1, <3>1, SMTT(60)
  <2> QED
    BY <2>2, <2>3
<1>9. \A p, q \in DOMAIN d : p < q => d[p].pos < d[q].pos
  BY <1>1, <1>4 DEF FramesOk
<1>10. Settled(d)
  <2>1. \A q \in 1 .. Len(c) - 1 : d[q].op \notin {"protect", "plain"}
    BY <1>1, <1>5 DEF FramesOk
  <2> QED
    BY <1>1, <1>3, <2>1 DEF Settled
<1> QED
  BY <1>8, <1>9, <1>10 DEF FramesOk

-----------------------------------------------------------------------------
(* Floors.                                                                 *)

\* What is live stays live, but where a CloseRunning comes or goes.
LEMMA LiveAgain ==
  ASSUME NEW g \in Seq(Activation), NEW t
  PROVE  /\ \A n \in 0 .. Len(g) : (\A j \in n + 1 .. Len(g) : g[j].t = t => ~ClosesSelf(g[j])) =>
              \A i \in 1 .. n : g[i].t = t => (Live(SubSeq(g, 1, n), i) <=> Live(g, i))
         /\ \A e \in Activation : (e.t = t => ~ClosesSelf(e)) =>
              \A i \in 1 .. Len(g) : g[i].t = t => (Live(Append(g, e), i) <=> Live(g, i))
         /\ \A e \in Activation : Live(Append(g, e), Len(g) + 1)
         /\ g # <<>> => Live(g, Len(g))
<1>1. Len(g) \in Nat
  OBVIOUS
<1>2. ASSUME NEW n \in 0 .. Len(g), \A j \in n + 1 .. Len(g) : g[j].t = t => ~ClosesSelf(g[j]),
             NEW i \in 1 .. n, g[i].t = t
      PROVE  Live(SubSeq(g, 1, n), i) <=> Live(g, i)
  <2> DEFINE h == SubSeq(g, 1, n)
  <2>1. Len(h) = n /\ \A j \in 1 .. n : h[j] = g[j]
    BY FirstOnes
  <2> HIDE DEF h
  <2>2. \A j \in i + 1 .. Len(g) : j \in i + 1 .. n \/ j \in n + 1 .. Len(g)
    BY <1>1
  <2>3. \A j \in i + 1 .. n : j \in i + 1 .. Len(g) /\ j \in 1 .. n
    BY <1>1
  <2>4. Live(h, i) <=> Live(g, i)
    BY <1>2, <2>1, <2>2, <2>3 DEF Live
  <2> QED
    BY <2>4 DEF h
<1>3. ASSUME NEW e \in Activation, e.t = t => ~ClosesSelf(e), NEW i \in 1 .. Len(g), g[i].t = t
      PROVE  Live(Append(g, e), i) <=> Live(g, i)
  <2> DEFINE h == Append(g, e)
  <2>1. Len(h) = Len(g) + 1 /\ h[Len(g) + 1] = e /\ \A j \in 1 .. Len(g) : h[j] = g[j]
    BY OneMore
  <2> HIDE DEF h
  <2>2. \A j \in i + 1 .. Len(h) : j \in i + 1 .. Len(g) \/ j = Len(g) + 1
    BY <1>1, <2>1
  <2>3. \A j \in i + 1 .. Len(g) : j \in i + 1 .. Len(h) /\ j \in 1 .. Len(g)
    BY <1>1, <2>1
  <2>4. Live(h, i) <=> Live(g, i)
    BY <1>3, <2>1, <2>2, <2>3 DEF Live
  <2> QED
    BY <2>4 DEF h
<1>4. ASSUME NEW e \in Activation PROVE Live(Append(g, e), Len(g) + 1)
  <2>1. Len(Append(g, e)) = Len(g) + 1
    BY OneMore
  <2>2. \A j \in Len(g) + 1 + 1 .. Len(g) + 1 : FALSE
    BY <1>1
  <2> QED
    BY <2>1, <2>2 DEF Live
<1>5. Live(g, Len(g))
  <2>1. \A j \in Len(g) + 1 .. Len(g) : FALSE
    BY <1>1
  <2> QED
    BY <2>1 DEF Live
<1> QED
  BY <1>2, <1>3, <1>4, <1>5

\* Frames are cut with the activations whose floors they lie above.
LEMMA FloorsCut ==
  ASSUME NEW c \in Seq(CallInfo), NEW t, NEW g \in Seq(Activation), NEW F \in Seq(Nat), Len(F) = Len(g),
         Floors(c, g, F, t), NEW m \in 0 .. Len(c), NEW n \in 0 .. Len(g),
         \A j \in n + 1 .. Len(g) : g[j].t = t => ~ClosesSelf(g[j]) /\ F[j] >= m,
         \A i \in 1 .. n : g[i].t = t /\ Live(g, i) => F[i] <= m /\ (g[i].k = "call" => F[i] < m)
  PROVE  Floors(SubSeq(c, 1, m), SubSeq(g, 1, n), SubSeq(F, 1, n), t)
<1> DEFINE d == SubSeq(c, 1, m)
           h == SubSeq(g, 1, n)
           E == SubSeq(F, 1, n)
<1>1. /\ Len(g) \in Nat /\ Len(c) \in Nat /\ DOMAIN g = 1 .. Len(g) /\ m \in Nat /\ n \in Nat
      /\ m <= Len(c) /\ n <= Len(g)
  OBVIOUS
<1>2. Len(d) = m /\ (\A p \in 1 .. m : d[p] = c[p]) /\ (\A l \in 0 .. m : SubSeq(d, 1, l) = SubSeq(c, 1, l))
  BY FirstOnes, FirstOfFirst
<1>3. Len(h) = n /\ DOMAIN h = 1 .. n /\ \A i \in 1 .. n : h[i] = g[i]
  BY FirstOnes
<1>4. \A i \in 1 .. n : E[i] = F[i]
  BY <1>1, FirstOnes
<1>5. \A i \in 1 .. n : g[i].t = t => (Live(h, i) <=> Live(g, i))
  BY LiveAgain
<1>6. \A i \in 1 .. Len(g) : F[i] \in Nat
  OBVIOUS
<1> HIDE DEF d, h, E
<1>7. ASSUME NEW i \in 1 .. n, g[i].t = t, Live(g, i) PROVE FloorOk(d, h, E, t, i)
  <2>1. i \in DOMAIN g /\ F[i] \in Nat /\ F[i] <= m
    BY <1>1, <1>6, <1>7
  <2>2. FloorOk(c, g, F, t, i)
    BY <1>7, <2>1 DEF Floors
  <2>3. Halts(g[i]) => F[i] = Len(g[i].ci) /\ F[i] <= m /\ g[i].ci = SubSeq(d, 1, F[i])
    BY <1>2, <2>1, <2>2, SMTT(60) DEF FloorOk
  <2>4. F[i] > 0 => d[F[i]] = c[F[i]]
    BY <1>2, <2>1
  <2>5. Protects(g[i]) => g[i].level = (IF F[i] = 0 THEN 1 ELSE d[F[i]].pos + 1)
    BY <2>1, <2>2, <2>4 DEF FloorOk
  <2>6. Protects(g[i]) /\ F[i] > 0 => d[F[i]].op = "protect"
    BY <2>2, <2>4 DEF FloorOk
  <2>7. ASSUME g[i].k = "call" PROVE F[i] < m /\ d[F[i] + 1].fresh
    <3>1. F[i] < m /\ F[i] + 1 \in 1 .. m
      BY <1>7, <2>1, <2>7, SMTT(60)
    <3> QED
      BY <1>2, <2>2, <2>7, <3>1 DEF FloorOk
  <2>8. ASSUME g[i].k = "call", NEW p \in F[i] + 1 .. m, d[p].fresh
        PROVE  \E j \in DOMAIN h : h[j].t = t /\ h[j].k = "call" /\ Live(h, j) /\ E[j] + 1 = p
    <3>1. p \in F[i] + 1 .. Len(c) /\ d[p] = c[p] /\ p \in Nat
      BY <1>1, <1>2, <2>1, SMTT(60)
    <3>2. PICK j \in DOMAIN g : g[j].t = t /\ g[j].k = "call" /\ Live(g, j) /\ F[j] + 1 = p
      BY <2>2, <2>8, <3>1 DEF FloorOk
    <3>3. j \in 1 .. n
      <4>1. j \in 1 .. n \/ j \in n + 1 .. Len(g)
        BY <1>1
      <4>2. F[j] < m
        BY <1>1, <1>6, <3>1, <3>2
      <4>3. j \in n + 1 .. Len(g) => F[j] >= m /\ F[j] \in Nat
        BY <1>1, <1>6, <3>2
      <4> QED
        BY ONLY <1>1, <4>1, <4>2, <4>3
    <3> QED
      BY <1>3, <1>4, <1>5, <3>2, <3>3
  <2>9. ASSUME NEW j \in i + 1 .. n, h[j].t = t
        PROVE  /\ E[i] <= E[j]
               /\ h[i].k \in {"call", "resume"} => E[i] < E[j]
               /\ Halts(h[i]) /\ j = i + 1 => E[j] = E[i]
    <3>1. j \in 1 .. n /\ j \in i + 1 .. Len(g)
      BY <1>1
    <3> QED
      BY <1>3, <1>4, <2>2, <2>9, <3>1 DEF FloorOk
  <2> QED
    BY <1>2, <1>3, <1>4, <2>3, <2>5, <2>6, <2>7, <2>8, <2>9 DEF FloorOk
<1>8. ASSUME NEW i \in DOMAIN h, h[i].t = t
      PROVE  /\ h[i].k = "resume" \/ Ends(h[i]) => E[i] = 0
             /\ Live(h, i) => FloorOk(d, h, E, t, i)
  <2>1. i \in 1 .. n /\ i \in DOMAIN g
    BY <1>1, <1>3
  <2> QED
    BY <1>3, <1>4, <1>5, <1>7, <1>8, <2>1 DEF Floors
<1>9. ASSUME NEW p \in 1 .. Len(d) - 1
      PROVE  /\ d[p].op = "protect" =>
                  \E i \in DOMAIN h : h[i].t = t /\ Protects(h[i]) /\ Live(h, i) /\ E[i] = p
             /\ d[p].op = "plain" =>
                  \E i \in DOMAIN h : h[i].t = t /\ h[i].k = "call" /\ h[i].ny /\ Live(h, i) /\ E[i] = p
  <2>1. p \in 1 .. Len(c) - 1 /\ d[p] = c[p] /\ p < m
    BY <1>1, <1>2
  <2>2. /\ c[p].op = "protect" =>
             \E i \in DOMAIN g : g[i].t = t /\ Protects(g[i]) /\ Live(g, i) /\ F[i] = p
        /\ c[p].op = "plain" =>
             \E i \in DOMAIN g : g[i].t = t /\ g[i].k = "call" /\ g[i].ny /\ Live(g, i) /\ F[i] = p
    BY <2>1 DEF Floors, Anchored
  <2>3. ASSUME NEW i \in DOMAIN g, g[i].t = t, F[i] = p PROVE i \in 1 .. n
    <3>1. i \in 1 .. n \/ i \in n + 1 .. Len(g)
      BY <1>1
    <3>2. i \in n + 1 .. Len(g) => F[i] >= m
      BY <2>3
    <3> QED
      BY <1>1, <2>1, <2>3, <3>1, <3>2
  <2> QED
    BY <1>3, <1>4, <1>5, <2>1, <2>2, <2>3, ZenonT(30)
<1>10. Floors(d, h, E, t)
  BY <1>8, <1>9 DEF Floors, Anchored
<1> QED
  BY <1>10 DEF d, h, E

\* The Lua frame on top comes to another op, and may call.
LEMMA FloorsOver ==
  ASSUME NEW c \in Seq(CallInfo), NEW t, NEW g \in Seq(Activation), NEW F \in Seq(Nat), Len(F) = Len(g),
         Floors(c, g, F, t), c # <<>>, NEW d \in Seq(CallInfo), Len(d) >= Len(c),
         \A p \in 1 .. Len(c) - 1 : d[p] = c[p],
         d[Len(c)].fresh = c[Len(c)].fresh,
         \A p \in Len(c) + 1 .. Len(d) : ~d[p].fresh,
         \A p \in Len(c) .. Len(d) - 1 : d[p].op \notin {"protect", "plain"},
         \A i \in DOMAIN g : g[i].t = t /\ Live(g, i) => F[i] < Len(c)
  PROVE  Floors(d, g, F, t)
<1>1. /\ Len(g) \in Nat /\ Len(c) \in Nat /\ Len(d) \in Nat /\ DOMAIN g = 1 .. Len(g) /\ Len(c) > 0
      /\ \A i \in DOMAIN g : F[i] \in Nat
  OBVIOUS
<1>2. \A l \in 0 .. Len(c) - 1 : SubSeq(d, 1, l) = SubSeq(c, 1, l)
  BY <1>1
<1>3. ASSUME NEW i \in DOMAIN g, g[i].t = t, Live(g, i) PROVE FloorOk(d, g, F, t, i)
  <2>1. F[i] \in Nat /\ F[i] < Len(c) /\ F[i] <= Len(d) /\ F[i] < Len(d)
    BY <1>1, <1>3
  <2>2. FloorOk(c, g, F, t, i)
    BY <1>3 DEF Floors
  <2>3. SubSeq(d, 1, F[i]) = SubSeq(c, 1, F[i])
    BY <1>1, <1>2, <2>1
  <2>4. F[i] > 0 => d[F[i]] = c[F[i]]
    <3>1. F[i] > 0 => F[i] \in 1 .. Len(c) - 1
      BY <1>1, <2>1
    <3> QED
      BY <3>1
  <2>5. F[i] + 1 \in 1 .. Len(c) - 1 \/ F[i] + 1 = Len(c)
    BY <1>1, <2>1
  <2>6. d[F[i] + 1].fresh = c[F[i] + 1].fresh
    BY <2>5
  <2>7. ASSUME NEW p \in F[i] + 1 .. Len(d), d[p].fresh PROVE p \in F[i] + 1 .. Len(c) /\ c[p].fresh
    <3>1. p \in Len(c) + 1 .. Len(d) \/ p = Len(c) \/ p \in 1 .. Len(c) - 1
      BY <1>1, <2>1, SMTT(60)
    <3>2. p \notin Len(c) + 1 .. Len(d)
      BY <2>7
    <3> QED
      BY <1>1, <2>1, <2>7, <3>1, <3>2, SMTT(60)
  <2>8. Protects(g[i]) => g[i].level = (IF F[i] = 0 THEN 1 ELSE d[F[i]].pos + 1)
    BY <2>1, <2>2, <2>4 DEF FloorOk
  <2>9. Protects(g[i]) /\ F[i] > 0 => d[F[i]].op = "protect"
    BY <2>2, <2>4 DEF FloorOk
  <2>10. g[i].k = "call" =>
          /\ d[F[i] + 1].fresh
          /\ \A p \in F[i] + 1 .. Len(d) : d[p].fresh =>
               \E j \in DOMAIN g : g[j].t = t /\ g[j].k = "call" /\ Live(g, j) /\ F[j] + 1 = p
    BY <2>2, <2>6, <2>7 DEF FloorOk
  <2> QED
    BY <2>1, <2>2, <2>3, <2>8, <2>9, <2>10 DEF FloorOk
<1>4. ASSUME NEW p \in 1 .. Len(d) - 1
      PROVE  /\ d[p].op = "protect" =>
                  \E i \in DOMAIN g : g[i].t = t /\ Protects(g[i]) /\ Live(g, i) /\ F[i] = p
             /\ d[p].op = "plain" =>
                  \E i \in DOMAIN g : g[i].t = t /\ g[i].k = "call" /\ g[i].ny /\ Live(g, i) /\ F[i] = p
  <2>1. p \in 1 .. Len(c) - 1 \/ p \in Len(c) .. Len(d) - 1
    BY <1>1
  <2>2. CASE p \in 1 .. Len(c) - 1
    BY <2>2, ZenonT(60) DEF Floors, Anchored
  <2>3. CASE p \in Len(c) .. Len(d) - 1
    BY <2>3
  <2> QED
    BY <2>1, <2>2, <2>3
<1> QED
  BY <1>3, <1>4 DEF Floors, Anchored

\* The floors of what Lua code runs in are below its frame.
LEMMA TopFloors ==
  ASSUME NEW c \in Seq(CallInfo), c # <<>>, NEW t, NEW g \in Seq(Activation), NEW F \in Seq(Nat), Len(F) = Len(g),
         GoOk(g), Runs(g, t), Lua(g), Floors(c, g, F, t)
  PROVE  \A i \in DOMAIN g : g[i].t = t /\ Live(g, i) => F[i] < Len(c)
<1> DEFINE n == Len(g)
<1>1. /\ n \in Nat /\ n > 0 /\ n \in DOMAIN g /\ DOMAIN g = 1 .. n /\ Last(g) = g[n]
      /\ Len(c) \in Nat /\ Len(c) > 0
  BY LastOne DEF Lua
<1>2. \A i \in DOMAIN g : F[i] \in Nat
  OBVIOUS
<1>3. g[n].t = t /\ Live(g, n) /\ g[n].k \in {"call", "resume"}
  BY <1>1, LiveAgain DEF Runs, Lua
<1> HIDE DEF n
<1>4. F[n] < Len(c)
  <2>1. CASE g[n].k = "call"
    BY <1>1, <1>3, <2>1 DEF Floors, FloorOk
  <2>2. CASE g[n].k = "resume"
    BY <1>1, <1>3, <2>2 DEF Floors
  <2> QED
    BY <1>3, <2>1, <2>2
<1> SUFFICES ASSUME NEW i \in DOMAIN g, g[i].t = t, Live(g, i) PROVE F[i] < Len(c)
  OBVIOUS
<1>5. CASE i = n
  BY <1>4, <1>5
<1>6. CASE i # n
  <2>1. n \in i + 1 .. Len(g)
    BY <1>1, <1>6 DEF n
  <2>2. F[i] <= F[n]
    BY <1>3, <2>1 DEF Floors, FloorOk
  <2> QED
    BY <1>1, <1>2, <1>4, <2>2
<1> QED
  BY <1>5, <1>6

\* A loop, or what protects it, begins.
LEMMA FloorsMore ==
  ASSUME NEW c \in Seq(CallInfo), NEW t, NEW g \in Seq(Activation), NEW F \in Seq(Nat), Len(F) = Len(g),
         Floors(c, g, F, t), NEW e \in Activation, e.t = t, e.k # "call", ~ClosesSelf(e), NEW f \in Nat,
         e.k = "resume" \/ Ends(e) => f = 0,
         Halts(e) => f = Len(c) /\ e.ci = c,
         Protects(e) => e.level = (IF f = 0 THEN 1 ELSE c[f].pos + 1) /\ (f > 0 => c[f].op = "protect"),
         \A i \in DOMAIN g : g[i].t = t /\ Live(g, i) =>
           /\ F[i] <= f
           /\ g[i].k \in {"call", "resume"} => F[i] < f
           /\ Halts(g[i]) /\ i = Len(g) => f = F[i]
  PROVE  Floors(c, Append(g, e), Append(F, f), t)
<1> DEFINE h == Append(g, e)
           E == Append(F, f)
           n == Len(g)
<1>1. n \in Nat /\ DOMAIN g = 1 .. n /\ Len(c) \in Nat
  OBVIOUS
<1>2. Len(h) = n + 1 /\ DOMAIN h = 1 .. n + 1 /\ (\A i \in 1 .. n : h[i] = g[i]) /\ h[n + 1] = e
  BY OneMore
<1>3. (\A i \in 1 .. n : E[i] = F[i]) /\ E[n + 1] = f
  BY OneMore
<1>4. \A i \in 1 .. n : g[i].t = t => (Live(h, i) <=> Live(g, i))
  BY LiveAgain
<1> HIDE DEF h, E, n
<1>5. ASSUME NEW i \in 1 .. n, g[i].t = t, Live(g, i) PROVE FloorOk(c, h, E, t, i)
  <2>1. FloorOk(c, g, F, t, i)
    BY <1>1, <1>5 DEF Floors
  <2>2. ASSUME NEW p, \E j \in DOMAIN g : g[j].t = t /\ g[j].k = "call" /\ Live(g, j) /\ F[j] + 1 = p
        PROVE  \E j \in DOMAIN h : h[j].t = t /\ h[j].k = "call" /\ Live(h, j) /\ E[j] + 1 = p
    <3>1. \A j \in 1 .. n : j \in 1 .. n + 1
      BY <1>1
    <3> QED
      BY <1>1, <1>2, <1>3, <1>4, <2>2, <3>1
  <2>3. ASSUME NEW j \in i + 1 .. Len(h), h[j].t = t
        PROVE  /\ E[i] <= E[j]
               /\ h[i].k \in {"call", "resume"} => E[i] < E[j]
               /\ Halts(h[i]) /\ j = i + 1 => E[j] = E[i]
    <3>1. CASE j = n + 1
      <4>1. j = i + 1 => i = n
        BY <1>1, <3>1
      <4> QED
        BY <1>1, <1>2, <1>3, <1>5, <3>1, <4>1 DEF n
    <3>2. CASE j # n + 1
      <4>1. j \in i + 1 .. n /\ j \in 1 .. n
        BY <1>1, <1>2, <3>2
      <4>2. j \in i + 1 .. Len(g)
        BY <4>1 DEF n
      <4> QED
        BY <1>2, <1>3, <2>1, <2>3, <4>1, <4>2 DEF FloorOk
    <3> QED
      BY <3>1, <3>2
  <2> QED
    BY ONLY <1>2, <1>3, <2>1, <2>2, <2>3 DEF FloorOk
<1>6. FloorOk(c, h, E, t, n + 1)
  <2>1. \A j \in n + 1 + 1 .. Len(h) : FALSE
    BY <1>1, <1>2
  <2>2. Halts(e) => f = Len(c) /\ e.ci = SubSeq(c, 1, f)
    <3>1. SubSeq(c, 1, Len(c)) = c
      OBVIOUS
    <3> QED
      BY <3>1
  <2> QED
    BY <1>1, <1>2, <1>3, <2>1, <2>2 DEF FloorOk
<1>7. ASSUME NEW i \in DOMAIN h, h[i].t = t
      PROVE  /\ h[i].k = "resume" \/ Ends(h[i]) => E[i] = 0
             /\ Live(h, i) => FloorOk(c, h, E, t, i)
  <2>1. CASE i = n + 1
    BY <1>2, <1>3, <1>6, <2>1
  <2>2. CASE i # n + 1
    <3>1. i \in 1 .. n
      BY ONLY <1>1, <1>2, <2>2
    <3> QED
      BY <1>1, <1>2, <1>3, <1>4, <1>5, <1>7, <3>1 DEF Floors
  <2> QED
    BY <2>1, <2>2
<1>8. \A i \in DOMAIN g : i \in DOMAIN h /\ (g[i].t = t => h[i] = g[i] /\ E[i] = F[i] /\ (Live(h, i) <=> Live(g, i)))
  BY <1>1, <1>2, <1>3, <1>4
<1>9. Anchored(c, h, E, t)
  <2> SUFFICES ASSUME NEW p \in 1 .. Len(c) - 1
               PROVE  /\ c[p].op = "protect" =>
                           \E i \in DOMAIN h : h[i].t = t /\ Protects(h[i]) /\ Live(h, i) /\ E[i] = p
                      /\ c[p].op = "plain" =>
                           \E i \in DOMAIN h : h[i].t = t /\ h[i].k = "call" /\ h[i].ny /\ Live(h, i) /\ E[i] = p
    BY DEF Anchored
  <2>1. /\ c[p].op = "protect" =>
             \E i \in DOMAIN g : g[i].t = t /\ Protects(g[i]) /\ Live(g, i) /\ F[i] = p
        /\ c[p].op = "plain" =>
             \E i \in DOMAIN g : g[i].t = t /\ g[i].k = "call" /\ g[i].ny /\ Live(g, i) /\ F[i] = p
    BY DEF Floors, Anchored
  <2> QED
    BY <1>8, <2>1, ZenonT(60)
<1>10. Floors(c, h, E, t)
  BY <1>7, <1>9 DEF Floors
<1> QED
  BY <1>10 DEF h, E

\* Go calls a Lua function.
LEMMA FloorsCall ==
  ASSUME NEW c \in Seq(CallInfo), NEW t, NEW g \in Seq(Activation), NEW F \in Seq(Nat), Len(F) = Len(g),
         Floors(c, g, F, t), NEW e \in Activation, e.t = t, e.k = "call", NEW f \in CallInfo, f.fresh,
         c # <<>> /\ Last(c).op = "protect" => g # <<>> /\ Last(g).t = t /\ Protects(Last(g)) /\ F[Len(g)] = Len(c),
         c # <<>> /\ Last(c).op = "plain" => e.ny,
         \A i \in DOMAIN g : g[i].t = t /\ Live(g, i) =>
           /\ F[i] <= Len(c)
           /\ g[i].k \in {"call", "resume"} => F[i] < Len(c)
           /\ Halts(g[i]) /\ i = Len(g) => Len(c) = F[i]
  PROVE  Floors(Append(c, f), Append(g, e), Append(F, Len(c)), t)
<1> DEFINE d == Append(c, f)
           h == Append(g, e)
           E == Append(F, Len(c))
           n == Len(g)
           m == Len(c)
<1>1. n \in Nat /\ DOMAIN g = 1 .. n /\ m \in Nat /\ \A i \in 1 .. n : F[i] \in Nat
  OBVIOUS
<1>2. Len(h) = n + 1 /\ DOMAIN h = 1 .. n + 1 /\ (\A i \in 1 .. n : h[i] = g[i]) /\ h[n + 1] = e
  BY OneMore
<1>3. (\A i \in 1 .. n : E[i] = F[i]) /\ E[n + 1] = m
  BY OneMore
<1>4. (\A i \in 1 .. n : g[i].t = t => (Live(h, i) <=> Live(g, i))) /\ Live(h, n + 1) /\ (n > 0 => Live(g, n))
  <2>1. ~ClosesSelf(e) /\ (n > 0 => g # <<>>)
    BY DEF ClosesSelf
  <2>2. \A i \in 1 .. Len(g) : g[i].t = t => (Live(Append(g, e), i) <=> Live(g, i))
    BY <2>1, LiveAgain
  <2>3. Live(Append(g, e), Len(g) + 1) /\ (n > 0 => Live(g, Len(g)))
    BY <2>1, LiveAgain
  <2> QED
    BY <2>2, <2>3
<1>5. Len(d) = m + 1 /\ (\A p \in 1 .. m : d[p] = c[p]) /\ d[m + 1] = f /\ \A l \in 0 .. m : SubSeq(d, 1, l) = SubSeq(c, 1, l)
  BY OneMore
<1>6. (m > 0 => Last(c) = c[m] /\ c # <<>>) /\ (g # <<>> => Last(g) = g[n] /\ n \in 1 .. n)
  BY DEF Last
<1>7. (m > 0 /\ c[m].op = "protect" => n \in 1 .. n /\ g[n].t = t /\ Protects(g[n]) /\ F[n] = m)
      /\ (m > 0 /\ c[m].op = "plain" => e.ny)
  BY <1>6
<1> HIDE DEF d, h, E, n, m
<1>8. \A i \in DOMAIN g : i \in DOMAIN h /\ (g[i].t = t => h[i] = g[i] /\ E[i] = F[i] /\ (Live(h, i) <=> Live(g, i)))
  BY <1>1, <1>2, <1>3, <1>4
<1>9. n + 1 \in DOMAIN h /\ h[n + 1].t = t /\ h[n + 1].k = "call" /\ Live(h, n + 1) /\ E[n + 1] = m
  BY <1>1, <1>2, <1>3, <1>4
<1>10. ASSUME NEW i \in 1 .. n, g[i].t = t, Live(g, i) PROVE FloorOk(d, h, E, t, i)
  <2>1. F[i] \in Nat /\ F[i] <= m /\ F[i] <= Len(d) /\ F[i] < Len(d) /\ (g[i].k = "call" => F[i] < m)
    BY <1>1, <1>5, <1>10 DEF m
  <2>2. FloorOk(c, g, F, t, i)
    BY <1>1, <1>10 DEF Floors
  <2>3. SubSeq(d, 1, F[i]) = SubSeq(c, 1, F[i]) /\ (F[i] > 0 => d[F[i]] = c[F[i]])
    BY <1>1, <1>5, <2>1, SMTT(60)
  <2>4. ASSUME g[i].k = "call" PROVE d[F[i] + 1].fresh
    <3>1. d[F[i] + 1] = c[F[i] + 1]
      BY <1>1, <1>5, <2>1, <2>4, SMTT(60)
    <3> QED
      BY <2>2, <2>4, <3>1 DEF FloorOk
  <2>5. ASSUME g[i].k = "call", NEW p \in F[i] + 1 .. Len(d), d[p].fresh
        PROVE  \E j \in DOMAIN h : h[j].t = t /\ h[j].k = "call" /\ Live(h, j) /\ E[j] + 1 = p
    <3>1. CASE p = m + 1
      BY <1>9, <3>1
    <3>2. CASE p # m + 1
      <4>1. p \in F[i] + 1 .. Len(c) /\ d[p] = c[p]
        BY ONLY <1>1, <1>5, <2>1, <3>2 DEF m
      <4>2. PICK j \in DOMAIN g : g[j].t = t /\ g[j].k = "call" /\ Live(g, j) /\ F[j] + 1 = p
        BY <2>2, <2>5, <4>1 DEF FloorOk
      <4> QED
        BY <1>8, <4>2
    <3> QED
      BY <3>1, <3>2
  <2>6. ASSUME NEW j \in i + 1 .. Len(h), h[j].t = t
        PROVE  /\ E[i] <= E[j]
               /\ h[i].k \in {"call", "resume"} => E[i] < E[j]
               /\ Halts(h[i]) /\ j = i + 1 => E[j] = E[i]
    <3>1. CASE j = n + 1
      <4>1. j = i + 1 => i = n
        BY <1>1, <3>1
      <4> QED
        BY <1>1, <1>2, <1>3, <1>10, <3>1, <4>1 DEF n, m
    <3>2. CASE j # n + 1
      <4>1. j \in i + 1 .. n /\ j \in 1 .. n
        BY ONLY <1>1, <1>2, <3>2
      <4>2. j \in i + 1 .. Len(g)
        BY <4>1 DEF n
      <4> QED
        BY <1>2, <1>3, <2>2, <2>6, <4>1, <4>2 DEF FloorOk
    <3> QED
      BY <3>1, <3>2
  <2>7. h[i] = g[i] /\ E[i] = F[i]
    BY <1>2, <1>3
  <2>8. Halts(g[i]) => F[i] = Len(g[i].ci) /\ g[i].ci = SubSeq(d, 1, F[i])
    BY <2>2, <2>3 DEF FloorOk
  <2>9. /\ Protects(g[i]) => g[i].level = (IF F[i] = 0 THEN 1 ELSE d[F[i]].pos + 1)
        /\ Protects(g[i]) /\ F[i] > 0 => d[F[i]].op = "protect"
    BY <2>1, <2>2, <2>3, SMTT(60) DEF FloorOk
  <2> QED
    BY <2>1, <2>4, <2>5, <2>6, <2>7, <2>8, <2>9 DEF FloorOk
<1>11. FloorOk(d, h, E, t, n + 1)
  <2>1. \A j \in n + 1 + 1 .. Len(h) : FALSE
    BY <1>1, <1>2
  <2>2. ~Halts(e) /\ ~Protects(e)
    BY DEF Halts, Protects
  <2>3. \A p \in m + 1 .. Len(d) : p = m + 1
    BY <1>1, <1>5
  <2>4. E[n + 1] < Len(d)
    BY <1>1, <1>3, <1>5
  <2> QED
    BY <1>2, <1>3, <1>5, <1>9, <2>1, <2>2, <2>3, <2>4 DEF FloorOk
<1>12. ASSUME NEW i \in DOMAIN h, h[i].t = t
       PROVE  /\ h[i].k = "resume" \/ Ends(h[i]) => E[i] = 0
              /\ Live(h, i) => FloorOk(d, h, E, t, i)
  <2>1. CASE i = n + 1
    BY <1>2, <1>11, <2>1 DEF Ends
  <2>2. CASE i # n + 1
    <3>1. i \in 1 .. n
      BY <1>1, <1>2, <2>2
    <3> QED
      BY <1>1, <1>2, <1>3, <1>4, <1>10, <1>12, <3>1 DEF Floors
  <2> QED
    BY <2>1, <2>2
<1>13. ASSUME NEW p \in 1 .. Len(d) - 1
       PROVE  /\ d[p].op = "protect" =>
                   \E i \in DOMAIN h : h[i].t = t /\ Protects(h[i]) /\ Live(h, i) /\ E[i] = p
              /\ d[p].op = "plain" =>
                   \E i \in DOMAIN h : h[i].t = t /\ h[i].k = "call" /\ h[i].ny /\ Live(h, i) /\ E[i] = p
  <2>1. p \in 1 .. m /\ d[p] = c[p]
    BY <1>1, <1>5
  <2>2. CASE p = m
    <3>1. m > 0
      BY <1>1, <2>1
    <3>2. c[m].op = "protect" => n \in DOMAIN g /\ g[n].t = t /\ Protects(g[n]) /\ F[n] = m /\ Live(g, n)
      BY <1>1, <1>4, <1>7, <3>1
    <3>3. c[m].op = "plain" => h[n + 1].ny
      BY <1>2, <1>7, <3>1
    <3> QED
      BY <1>8, <1>9, <2>1, <2>2, <3>2, <3>3, SMTT(60)
  <2>3. CASE p # m
    <3>1. p \in 1 .. Len(c) - 1
      BY <1>1, <2>1, <2>3 DEF m
    <3>2. /\ c[p].op = "protect" =>
               \E i \in DOMAIN g : g[i].t = t /\ Protects(g[i]) /\ Live(g, i) /\ F[i] = p
          /\ c[p].op = "plain" =>
               \E i \in DOMAIN g : g[i].t = t /\ g[i].k = "call" /\ g[i].ny /\ Live(g, i) /\ F[i] = p
      BY <3>1 DEF Floors, Anchored
    <3> QED
      BY <1>8, <2>1, <3>2, ZenonT(60)
  <2> QED
    BY <2>2, <2>3
<1>14. Floors(d, h, E, t)
  BY <1>12, <1>13 DEF Floors, Anchored
<1> QED
  BY <1>14 DEF d, h, E, m

\* CloseThread's loop begins: no frame is left.
LEMMA FloorsClosed ==
  ASSUME NEW t, NEW g \in Seq(Activation), NEW F \in Seq(Nat), Len(F) = Len(g),
         NEW e \in Activation, e.t = t, Ends(e), e.ci = <<>>,
         \A i \in DOMAIN g : g[i].t = t => ClosesSelf(e) /\ (g[i].k = "resume" \/ Ends(g[i]) => F[i] = 0)
  PROVE  Floors(<<>>, Append(g, e), Append(F, 0), t)
<1> DEFINE h == Append(g, e)
           E == Append(F, 0)
           n == Len(g)
<1>1. n \in Nat /\ DOMAIN g = 1 .. n
  OBVIOUS
<1>2. Len(h) = n + 1 /\ DOMAIN h = 1 .. n + 1 /\ (\A i \in 1 .. n : h[i] = g[i]) /\ h[n + 1] = e
  BY OneMore
<1>3. (\A i \in 1 .. n : E[i] = F[i]) /\ E[n + 1] = 0
  BY OneMore
<1> HIDE DEF h, E, n
<1>4. FloorOk(<<>>, h, E, t, n + 1)
  <2>1. \A j \in n + 1 + 1 .. Len(h) : FALSE
    BY <1>1, <1>2
  <2>2. e.k # "call" /\ ~Protects(e) /\ Len(<<>>) = 0 /\ SubSeq(<<>>, 1, 0) = <<>>
    BY DEF Ends, Protects
  <2> DEFINE c == <<>>
             x == h[n + 1]
             f == E[n + 1]
  <2>3. f = Len(x.ci) /\ f <= Len(c) /\ x.ci = SubSeq(c, 1, f)
    <3>1. x.ci = c /\ f = 0
      BY <1>2, <1>3
    <3>2. Len(c) = 0 /\ SubSeq(c, 1, 0) = c
      BY <2>2
    <3> HIDE DEF x, f, c
    <3> QED
      BY <3>1, <3>2
  <2>4. x.k # "call" /\ ~Protects(x)
    BY <1>2, <2>2
  <2> HIDE DEF c, x, f
  <2>5. FloorOk(c, h, E, t, n + 1)
    BY <2>1, <2>3, <2>4 DEF FloorOk, x, f
  <2> QED
    BY <2>5 DEF c
<1>5. ASSUME NEW i \in 1 .. n, g[i].t = t PROVE ~Live(h, i)
  <2>1. n + 1 \in i + 1 .. Len(h)
    BY <1>1, <1>2
  <2> QED
    BY <1>1, <1>2, <1>5, <2>1 DEF Live
<1>6. ASSUME NEW i \in DOMAIN h, h[i].t = t
      PROVE  /\ h[i].k = "resume" \/ Ends(h[i]) => E[i] = 0
             /\ Live(h, i) => FloorOk(<<>>, h, E, t, i)
  <2>1. CASE i = n + 1
    BY <1>3, <1>4, <2>1
  <2>2. CASE i # n + 1
    <3>1. i \in 1 .. n
      BY <1>1, <1>2, <2>2
    <3> QED
      BY <1>1, <1>2, <1>3, <1>5, <1>6, <3>1
  <2> QED
    BY <2>1, <2>2
<1>7. Anchored(<<>>, h, E, t)
  <2>1. \A p \in 1 .. Len(<<>>) - 1 : FALSE
    OBVIOUS
  <2> QED
    BY <2>1 DEF Anchored
<1>8. Floors(<<>>, h, E, t)
  BY <1>6, <1>7 DEF Floors
<1> QED
  BY <1>8 DEF h, E

-----------------------------------------------------------------------------
(* The whole.                                                              *)

\* Others see neither a new activation of a thread nor the loss of some.
LEMMA ViewMore ==
  ASSUME NEW g \in Seq(Activation), NEW F \in Seq(Nat), Len(F) = Len(g), NEW s,
         NEW e \in Activation, e.t # s, NEW f \in Nat
  PROVE  SameView(g, F, Append(g, e), Append(F, f), s)
<1>1. Len(g) \in Nat /\ DOMAIN g = 1 .. Len(g)
  OBVIOUS
<1>2. /\ DOMAIN Append(g, e) = 1 .. Len(g) + 1 /\ (\A i \in 1 .. Len(g) : Append(g, e)[i] = g[i])
      /\ Append(g, e)[Len(g) + 1] = e
  BY OneMore
<1>3. \A i \in 1 .. Len(g) : Append(F, f)[i] = F[i]
  BY OneMore
<1>4. \A i \in 1 .. Len(g) + 1 : i \in 1 .. Len(g) \/ i = Len(g) + 1
  BY <1>1
<1>5. \A i \in 1 .. Len(g) : i \in 1 .. Len(g) + 1
  BY <1>1
<1> QED
  BY <1>1, <1>2, <1>3, <1>4, <1>5 DEF SameView

\* s's view is the same on Go's stack cut above its last activation.
LEMMA ViewCut ==
  ASSUME NEW g \in Seq(Activation), NEW F \in Seq(Nat), Len(F) = Len(g), NEW s, NEW n \in 0 .. Len(g),
         \A j \in n + 1 .. Len(g) : g[j].t # s
  PROVE  SameView(g, F, SubSeq(g, 1, n), SubSeq(F, 1, n), s)
<1>1. Len(g) \in Nat /\ DOMAIN g = 1 .. Len(g)
  OBVIOUS
<1>2. DOMAIN SubSeq(g, 1, n) = 1 .. n /\ \A i \in 1 .. n : SubSeq(g, 1, n)[i] = g[i]
  BY FirstOnes
<1>3. \A i \in 1 .. n : SubSeq(F, 1, n)[i] = F[i]
  BY FirstOnes
<1>4. \A i \in 1 .. Len(g) : i \in 1 .. n \/ i \in n + 1 .. Len(g)
  BY <1>1
<1>5. \A i \in 1 .. n : i \in 1 .. Len(g)
  BY <1>1
<1> QED
  BY <1>1, <1>2, <1>3, <1>4, <1>5 DEF SameView

\* Views compose.
LEMMA ViewOnce ==
  ASSUME NEW g, NEW F, NEW h, NEW E, NEW l, NEW D, NEW s, SameView(g, F, h, E, s), SameView(h, E, l, D, s)
  PROVE  SameView(g, F, l, D, s)
BY DEF SameView

\* A list of variables stays in order while what remains of it is covered.
LEMMA ListedKeeps ==
  ASSUME NEW r \in ThreadRecord, NEW q \in ThreadRecord, NEW t, NEW g, NEW h, Listed(r, t, g),
         NEW m \in 0 .. Len(r.tbc), q.tbc = SubSeq(r.tbc, 1, m),
         \A i \in 1 .. m : Covered(r, t, g, r.tbc[i]) => Covered(q, t, h, r.tbc[i])
  PROVE  Listed(q, t, h)
<1>1. DOMAIN q.tbc = 1 .. m /\ \A i \in 1 .. m : q.tbc[i] = r.tbc[i]
  BY ThreadParts, FirstOnes
<1>2. \A i \in 1 .. m : i \in DOMAIN r.tbc
  BY ThreadParts
<1> QED
  BY <1>1, <1>2 DEF Listed

\* One thread changes, and Go's stack where it is that thread's.
LEMMA BodyStep ==
  ASSUME NEW m, NEW F, Body(m, F), NEW t \in Threads, NEW r \in ThreadRecord, NEW h \in Seq(Activation),
         NEW E \in Seq(Nat), Len(E) = Len(h), GoOk(h), ThreadOk(r, t, h, E),
         \A s \in Threads \ {t} :
           /\ SameView(m.go, F, h, E, s)
           /\ Runs(m.go, s) => Lua(m.go) /\ ~Runs(h, s) /\ Waits(m.th[s].ci)
           /\ Runs(h, s) => Lua(h)
  PROVE  Body([th |-> [m.th EXCEPT ![t] = r], go |-> h], E)
<1> DEFINE T == [m.th EXCEPT ![t] = r]
<1>1. m.th \in [Threads -> ThreadRecord] /\ m.go \in Seq(Activation) /\ F \in Seq(Nat) /\ Len(F) = Len(m.go)
  BY DEF Body, Typed
<1>2. T \in [Threads -> ThreadRecord] /\ T[t] = r /\ \A s \in Threads \ {t} : T[s] = m.th[s]
  BY <1>1
<1> HIDE DEF T
<1>3. ASSUME NEW s \in Threads PROVE ThreadOk(T[s], s, h, E)
  <2>1. CASE s = t
    BY <1>2, <2>1
  <2>2. CASE s # t
    <3>1. m.th[s] \in ThreadRecord /\ ThreadOk(m.th[s], s, m.go, F) /\ T[s] = m.th[s]
      BY <1>1, <1>2, <2>2 DEF Body
    <3>2. ThreadOk(m.th[s], s, h, E)
      BY <1>1, <2>2, <3>1, ViewKeeps
    <3> QED
      BY <3>1, <3>2
  <2> QED
    BY <2>1, <2>2
<1>4. Body([th |-> T, go |-> h], E)
  BY <1>2, <1>3 DEF Body, Typed
<1> QED
  BY <1>4 DEF T

\* The parts of a machine in order.
LEMMA BodyParts ==
  ASSUME NEW m, NEW F, Body(m, F)
  PROVE  /\ m = [th |-> m.th, go |-> m.go] /\ m.th \in [Threads -> ThreadRecord]
         /\ m.go \in Seq(Activation) /\ F \in Seq(Nat) /\ Len(F) = Len(m.go) /\ GoOk(m.go)
         /\ \A t \in Threads : m.th[t] \in ThreadRecord /\ ThreadOk(m.th[t], t, m.go, F)
         /\ m.go # <<>> => /\ Last(m.go) \in Activation /\ Last(m.go) = m.go[Len(m.go)]
                           /\ Len(m.go) \in DOMAIN m.go /\ Last(m.go).t \in Threads
<1>1. m.go \in Seq(Activation)
  BY DEF Body, Typed
<1>2. m.go # <<>> => /\ Last(m.go) \in Activation /\ Last(m.go) = m.go[Len(m.go)]
                     /\ Len(m.go) \in DOMAIN m.go
  BY <1>1, LastOne
<1>3. m.go # <<>> => Last(m.go).t \in Threads
  BY ONLY <1>2, ActivationParts, SMTT(60)
<1> QED
  BY <1>1, <1>2, <1>3 DEF Body, Typed

\* What the thread on top is like, and when Lua code runs in it.
LEMMA RunningParts ==
  ASSUME NEW m, NEW F, Body(m, F), m.go # <<>>
  PROVE  LET t == Last(m.go).t
             r == m.th[t]
         IN /\ t \in Threads /\ r \in ThreadRecord /\ Runs(m.go, t) /\ FramesOk(r.ci) /\ Listed(r, t, m.go)
            /\ OnGo(r, t, m.go, F) /\ Floors(r.ci, m.go, F, t) /\ ~r.fresh /\ ~r.death
            /\ r.nny = Count(m.go, Len(m.go), t) /\ r.nny \in Nat
            /\ ~Lua(m.go) => Len(r.ci) = F[Len(m.go)]
            /\ Lua(m.go) => /\ r.status = "ok" /\ r.ci # <<>> /\ Last(r.ci) \in CallInfo /\ Top(m) = Last(r.ci)
                            /\ Last(r.ci) = r.ci[Len(r.ci)] /\ Len(r.ci) \in DOMAIN r.ci
                            /\ \A i \in DOMAIN m.go : m.go[i].t = t /\ Live(m.go, i) => F[i] < Len(r.ci)
<1> DEFINE t == Last(m.go).t
           r == m.th[t]
<1>1. t \in Threads /\ r \in ThreadRecord /\ Runs(m.go, t) /\ ThreadOk(r, t, m.go, F) /\ GoOk(m.go)
  BY BodyParts DEF Runs
<1>2. On(m.go, t)
  BY BodyParts DEF On
<1>3. OnGo(r, t, m.go, F) /\ FramesOk(r.ci) /\ Listed(r, t, m.go)
  BY <1>1, <1>2 DEF ThreadOk
<1>4. r.nny \in Nat /\ r.ci \in Seq(CallInfo) /\ r.status \in {"ok", "yield", "error"}
  BY <1>1, ThreadParts
<1> HIDE DEF t, r
<1>5. ASSUME Lua(m.go)
      PROVE  /\ r.status = "ok" /\ r.ci # <<>> /\ Last(r.ci) \in CallInfo
             /\ Last(r.ci) = r.ci[Len(r.ci)] /\ Len(r.ci) \in DOMAIN r.ci
             /\ \A i \in DOMAIN m.go : m.go[i].t = t /\ Live(m.go, i) => F[i] < Len(r.ci)
  <2>1. ~Ends(Last(m.go))
    BY <1>5 DEF Lua, Ends
  <2>2. r.status = "ok" /\ r.ci # <<>> /\ Floors(r.ci, m.go, F, t)
    BY <1>1, <1>3, <1>4, <1>5, <2>1 DEF OnGo
  <2>3. m.go \in Seq(Activation) /\ F \in Seq(Nat) /\ Len(F) = Len(m.go)
    BY BodyParts
  <2>4. \A i \in DOMAIN m.go : m.go[i].t = t /\ Live(m.go, i) => F[i] < Len(r.ci)
    BY <1>1, <1>4, <1>5, <2>2, <2>3, TopFloors
  <2> QED
    BY <1>4, <2>2, <2>4, LastOne
<1>6. Top(m) = Last(r.ci)
  BY DEF Top, r, t
<1> QED
  BY <1>1, <1>3, <1>4, <1>5, <1>6 DEF OnGo, t, r

\* The thread on top changes while Lua code runs in it.
LEMMA RunningStep ==
  ASSUME NEW m, NEW F, Body(m, F), Lua(m.go), NEW q \in ThreadRecord, NEW t, t = Last(m.go).t,
         q.status = m.th[t].status, q.death = m.th[t].death, q.fresh = m.th[t].fresh, q.nny = m.th[t].nny,
         q.ci # <<>>, FramesOk(q.ci), Floors(q.ci, m.go, F, t), Listed(q, t, m.go)
  PROVE  Body([th |-> [m.th EXCEPT ![t] = q], go |-> m.go], F)
<1> DEFINE r == m.th[t]
<1>1. m.go # <<>>
  BY DEF Lua
<1>2. t \in Threads /\ Runs(m.go, t) /\ OnGo(r, t, m.go, F) /\ r.status = "ok" /\ ~r.fresh
  BY <1>1, RunningParts
<1>3. m.go \in Seq(Activation) /\ F \in Seq(Nat) /\ Len(F) = Len(m.go) /\ GoOk(m.go)
  BY BodyParts
<1>4. On(m.go, t)
  BY <1>1, BodyParts DEF On
<1> HIDE DEF r
<1>5. OnGo(q, t, m.go, F)
  BY <1>2 DEF OnGo, r
<1>6. ThreadOk(q, t, m.go, F)
  BY <1>2, <1>4, <1>5 DEF ThreadOk, r
<1>7. \A s \in Threads \ {t} : SameView(m.go, F, m.go, F, s) /\ ~Runs(m.go, s)
  BY ONLY <1>2 DEF SameView, Runs
<1> QED
  BY <1>2, <1>3, <1>6, <1>7, BodyStep

\* Lua code on top goes on to another op, and may call.
LEMMA OverBody ==
  ASSUME NEW m, NEW F, Body(m, F), Lua(m.go), NEW q \in ThreadRecord, NEW t, t = Last(m.go).t,
         SameRest(q, m.th[t]), FramesOk(q.ci),
         Top(m).op \in LuaOps, Len(q.ci) >= Len(m.th[t].ci),
         \A p \in 1 .. Len(m.th[t].ci) - 1 : q.ci[p] = m.th[t].ci[p],
         q.ci[Len(m.th[t].ci)].fresh = Top(m).fresh, q.ci[Len(m.th[t].ci)].pos = Top(m).pos,
         q.ci[Len(m.th[t].ci)].op \in LuaOps,
         \A p \in Len(m.th[t].ci) + 1 .. Len(q.ci) : ~q.ci[p].fresh,
         \A p \in Len(m.th[t].ci) .. Len(q.ci) - 1 : q.ci[p].op \notin {"protect", "plain"}
  PROVE  Body([th |-> [m.th EXCEPT ![t] = q], go |-> m.go], F)
<1> DEFINE r == m.th[t]
           c == r.ci
           d == q.ci
<1>1. m.go # <<>>
  BY Zenon DEF Lua
<1>2. /\ t \in Threads /\ r \in ThreadRecord /\ Listed(r, t, m.go) /\ Floors(c, m.go, F, t)
      /\ c # <<>> /\ Top(m) = c[Len(c)] /\ Len(c) \in DOMAIN c
      /\ \A i \in DOMAIN m.go : m.go[i].t = t /\ Live(m.go, i) => F[i] < Len(c)
  BY <1>1, RunningParts, ZenonT(60)
<1>3. c \in Seq(CallInfo) /\ d \in Seq(CallInfo) /\ r.tbc \in Seq([level : Nat \ {0}, base : Nat \ {0}, id : Variables])
  BY ONLY <1>2, ThreadParts
<1>4. m.go \in Seq(Activation) /\ F \in Seq(Nat) /\ Len(F) = Len(m.go)
  BY BodyParts, Zenon
<1>5. /\ Len(d) >= Len(c) /\ (\A p \in 1 .. Len(c) - 1 : d[p] = c[p])
      /\ d[Len(c)].fresh = c[Len(c)].fresh /\ d[Len(c)].pos = c[Len(c)].pos
      /\ c[Len(c)].op \in LuaOps /\ d[Len(c)].op \in LuaOps
      /\ \A p \in Len(c) + 1 .. Len(d) : ~d[p].fresh
      /\ \A p \in Len(c) .. Len(d) - 1 : d[p].op \notin {"protect", "plain"}
  BY <1>2, Zenon
<1>6. Floors(d, m.go, F, t)
  <2> HIDE DEF c, d, r
  <2> QED
    BY ONLY <1>2, <1>3, <1>4, <1>5, FloorsOver
<1>7. d # <<>> /\ \A p \in DOMAIN c : p \in DOMAIN d /\ (p = Len(c) \/ d[p] = c[p])
  <2> HIDE DEF c, d, r
  <2>1. c \in Seq(CallInfo) /\ d \in Seq(CallInfo) /\ c # <<>> /\ Len(d) >= Len(c) /\ \A p \in 1 .. Len(c) - 1 : d[p] = c[p]
    BY ONLY <1>2, <1>3, <1>5
  <2> QED
    BY ONLY <2>1, Lengthens
<1>8. ASSUME NEW x, Covered(r, t, m.go, x) PROVE Covered(q, t, m.go, x)
  <2>1. \A p \in DOMAIN c : c[p].op \in LuaOps => d[p].op \in LuaOps /\ d[p].pos = c[p].pos
    BY <1>5, <1>7
  <2>2. \A p \in DOMAIN c : c[p].op = "error" => d[p] = c[p]
    <3>1. "error" \notin LuaOps
      BY Zenon DEF LuaOps
    <3> QED
      BY ONLY <1>5, <1>7, <3>1
  <2> QED
    BY <1>7, <1>8, <2>1, <2>2, ZenonT(60) DEF Covered, SameRest
<1>9. Listed(q, t, m.go)
  <2>1. q.tbc = SubSeq(r.tbc, 1, Len(r.tbc)) /\ Len(r.tbc) \in 0 .. Len(r.tbc)
    BY <1>3, AllOnes, Zenon DEF SameRest
  <2> HIDE DEF r
  <2> QED
    BY ONLY <1>2, <1>8, <2>1, ListedKeeps
<1> QED
  BY <1>2, <1>6, <1>7, <1>9, RunningStep, Zenon DEF SameRest

\* The Lua function on top comes to another op.
LEMMA MarkBody ==
  ASSUME NEW m, NEW F, Body(m, F), Lua(m.go), NEW t, t = Last(m.go).t, Top(m).op \in LuaOps,
         NEW op \in LuaOps, NEW level \in Nat, op = "return" => level = Top(m).pos
  PROVE  LET q == Mark(m.th[t], op, level)
             n == [th |-> [m.th EXCEPT ![t] = q], go |-> m.go]
         IN /\ Body(n, F) /\ Lua(n.go) /\ n.th[t] = q /\ Top(n).op = op /\ q.ci # <<>> /\ q \in ThreadRecord
            /\ SameRest(q, m.th[t])
            /\ Settled(m.th[t].ci) => Settled(q.ci)
<1> DEFINE r == m.th[t]
           q == Mark(r, op, level)
           c == r.ci
           d == q.ci
<1>1. m.go # <<>>
  BY DEF Lua
<1>2. t \in Threads /\ r \in ThreadRecord /\ c # <<>> /\ Top(m) = c[Len(c)] /\ Len(c) \in DOMAIN c /\ FramesOk(c)
  BY <1>1, RunningParts
<1>3. /\ q \in ThreadRecord /\ Len(d) = Len(c) /\ d # <<>>
      /\ \A p \in 1 .. Len(c) - 1 : d[p] = c[p]
      /\ Last(d) = d[Len(c)] /\ Last(d).op = op /\ Last(d).level = level
      /\ Last(d).pos = c[Len(c)].pos /\ Last(d).fresh = c[Len(c)].fresh /\ SameRest(q, r)
  <2>1. op \in LuaOps \union GoOps
    BY SMTT(60)
  <2>2. r \in ThreadRecord /\ r.ci # <<>>
    BY <1>2
  <2> HIDE DEF r
  <2>3. LET m1 == Mark(r, op, level) IN
        /\ m1 \in ThreadRecord /\ Len(m1.ci) = Len(r.ci) /\ m1.ci # <<>>
        /\ \A p \in 1 .. Len(r.ci) - 1 : m1.ci[p] = r.ci[p]
        /\ Last(m1.ci) = m1.ci[Len(r.ci)] /\ Last(m1.ci).op = op /\ Last(m1.ci).level = level
        /\ Last(m1.ci).pos = r.ci[Len(r.ci)].pos /\ Last(m1.ci).fresh = r.ci[Len(r.ci)].fresh
        /\ SameRest(m1, r)
    BY ONLY <2>1, <2>2, MarkIs, SMTT(60)
  <2> QED
    BY <2>3
<1>4. c \in Seq(CallInfo) /\ d \in Seq(CallInfo)
  BY ONLY <1>2, <1>3, ThreadParts, SMTT(60)
<1>5. op = "return" => level = c[Len(c)].pos
  BY <1>2, SMTT(60)
<1>6. c[Len(c)].op \in LuaOps
  BY <1>2
<1> HIDE DEF c, d, q, r
<1>7. FramesOk(d)
  <2>1. d[Len(c)].op \in LuaOps /\ (d[Len(c)].op = "return" => d[Len(c)].level = d[Len(c)].pos)
    BY <1>3, <1>5
  <2> QED
    BY <1>2, <1>3, <1>4, <2>1, FramesMark
<1>8. Len(d) >= Len(c) /\ (\A p \in Len(c) + 1 .. Len(d) : FALSE) /\ \A p \in Len(c) .. Len(d) - 1 : FALSE
  <2>1. Len(c) \in Nat /\ Len(d) = Len(c)
    BY ONLY <1>3, <1>4, AllOnes
  <2> QED
    BY <2>1
<1> DEFINE n == [th |-> [m.th EXCEPT ![t] = q], go |-> m.go]
<1>9. Body(n, F)
  <2> USE DEF c, d, r
  <2> HIDE DEF q
  <2> QED
    BY <1>2, <1>3, <1>5, <1>7, <1>8, OverBody, ZenonT(60)
<1>10. m.th \in [Threads -> ThreadRecord]
  BY BodyParts
<1>11. n.th[t] = q /\ n.go = m.go
  BY <1>2, <1>10
<1>12. Top(n).op = op
  BY <1>3, <1>5, <1>11 DEF Top, d
<1>13. Settled(c) => Settled(d)
  <2>1. DOMAIN c = 1 .. Len(c) /\ DOMAIN d = 1 .. Len(c) /\ Len(c) \in Nat
    BY ONLY <1>3, <1>4, AllOnes, SMTT(60)
  <2>2. \A p \in 1 .. Len(c) : p = Len(c) \/ p \in 1 .. Len(c) - 1
    <3>1. \A n1 \in Nat : \A p \in 1 .. n1 : p = n1 \/ p \in 1 .. n1 - 1
      OBVIOUS
    <3> QED
      BY <2>1, <3>1
  <2>3. op \notin {"protect", "plain"}
    BY SMTT(60) DEF LuaOps
  <2> QED
    BY <1>3, <1>5, <2>1, <2>2, <2>3 DEF Settled
<1> QED
  BY <1>3, <1>9, <1>11, <1>12, <1>13 DEF q, r, c, d

\* It calls a Go function, or a Lua function in the same execute.
Pushes == {"run", "protect", "pcall", "callk", "plain"}
Pushed(m, t, op) == [th |-> [m.th EXCEPT ![t] = PushFrame(m.th[t], op, FALSE)], go |-> m.go]
Does(m, op) == Top(m).op = op

\* A Lua function's call pushes its callee's frame.
LEMMA PushBody ==
  ASSUME NEW m, NEW F, Body(m, F), Lua(m.go), NEW t, t = Last(m.go).t, Top(m).op = "call",
         NEW op \in Pushes, op = "pcall" => Settled(m.th[t].ci)
  PROVE  LET q == PushFrame(m.th[t], op, FALSE)
             n == Pushed(m, t, op)
         IN /\ Body(n, F) /\ Lua(n.go) /\ n.go = m.go /\ n.th = [m.th EXCEPT ![t] = q] /\ n.th[t] = q /\ Does(n, op)
            /\ q.ci # <<>> /\ Last(q.ci).op = op /\ q \in ThreadRecord /\ SameRest(q, m.th[t])
<1> DEFINE r == m.th[t]
           q == PushFrame(r, op, FALSE)
           c == r.ci
           d == q.ci
           f == [op |-> op, pos |-> Height(r) + 1, fresh |-> FALSE, level |-> 0]
<1>1. m.go # <<>>
  BY SMTT(60) DEF Lua
<1>2. t \in Threads /\ r \in ThreadRecord /\ c # <<>> /\ Top(m) = c[Len(c)] /\ Last(c) = c[Len(c)] /\ Last(c) \in CallInfo /\ FramesOk(c)
  BY <1>1, RunningParts, SMTT(60)
<1>3. f \in CallInfo /\ q \in ThreadRecord /\ SameRest(q, r) /\ d = Append(c, f) /\ d # <<>> /\ Last(d) = f
  <2>1. op \in LuaOps \union GoOps
    BY DEF Pushes, LuaOps, GoOps
  <2> QED
    BY ONLY <1>2, <2>1, PushIs
<1>4. c \in Seq(CallInfo) /\ d \in Seq(CallInfo)
  BY ONLY <1>2, <1>3, ThreadParts
<1>5. Last(c).pos < f.pos /\ Last(c).op = "call" /\ f.op = op /\ f.fresh = FALSE
  <2>1. Height(r) \in Nat /\ Last(c).pos <= Height(r)
    BY ONLY <1>2, HeightIs, SMTT(60)
  <2>2. Last(c).pos \in Nat
    BY ONLY <1>2 DEF CallInfo
  <2>3. Last(c).op = "call"
    BY <1>2
  <2>4. f.pos = Height(r) + 1 /\ f.op = op /\ f.fresh = FALSE
    OBVIOUS
  <2> HIDE DEF c, f, r
  <2> QED
    BY ONLY <2>1, <2>2, <2>3, <2>4
<1> HIDE DEF c, d, q, r, f
<1>6. FramesOk(d)
  <2>1. FramesOk(Append(c, f))
    <3>1. Waits(c) /\ (f.op = "pcall" => Settled(c))
      BY <1>2, <1>5 DEF Waits, c, r
    <3>2. Last(c).op # "run" /\ f.op \notin {"return", "error"} /\ ~f.fresh
      BY <1>5 DEF Pushes
    <3> QED
      BY ONLY <1>2, <1>3, <1>4, <1>5, <3>1, <3>2, FramesPush, SMTT(60)
  <2> QED
    BY <1>3, <2>1
<1>7. Len(d) = Len(c) + 1 /\ (\A p \in 1 .. Len(c) : d[p] = c[p]) /\ d[Len(c) + 1] = f /\ Len(c) \in Nat /\ Len(c) > 0
  BY <1>2, <1>3, <1>4, OneMore
<1>8. /\ Len(d) >= Len(c) /\ (\A p \in 1 .. Len(c) - 1 : d[p] = c[p]) /\ d[Len(c)] = c[Len(c)]
      /\ (\A p \in Len(c) + 1 .. Len(d) : ~d[p].fresh)
      /\ \A p \in Len(c) .. Len(d) - 1 : d[p].op \notin {"protect", "plain"}
  <2>1. \A p \in Len(c) + 1 .. Len(d) : p = Len(c) + 1
    BY <1>7
  <2>2. \A p \in Len(c) .. Len(d) - 1 : p = Len(c)
    BY <1>7
  <2>3. d[Len(c)] = c[Len(c)]
    BY ONLY <1>7, SMTT(60)
  <2> QED
    BY <1>2, <1>5, <1>7, <2>1, <2>2, <2>3
<1> DEFINE n == [th |-> [m.th EXCEPT ![t] = q], go |-> m.go]
<1>9. Body(n, F)
  <2>1. Top(m) = c[Len(c)] /\ Top(m).op \in LuaOps
    BY <1>2, <1>5 DEF LuaOps
  <2>2. d[Len(c)].fresh = Top(m).fresh /\ d[Len(c)].pos = Top(m).pos /\ d[Len(c)].op \in LuaOps
    BY <1>8, <2>1
  <2> USE DEF c, d, r
  <2> HIDE DEF q
  <2> QED
    BY <1>2, <1>3, <1>6, <1>8, <2>1, <2>2, OverBody
<1>10. m.th \in [Threads -> ThreadRecord]
  BY BodyParts
<1>11. n.th[t] = q /\ n.go = m.go
  BY <1>2, <1>10
<1>12. Top(n).op = op
  BY <1>3, <1>5, <1>11 DEF Top, d
<1> QED
  BY <1>3, <1>5, <1>9, <1>11, <1>12 DEF q, r, c, d, Pushed, Does

\* More call infos and activations cover what fewer did.
LEMMA CoveredMore ==
  ASSUME NEW r \in ThreadRecord, NEW q \in ThreadRecord, NEW t, NEW g \in Seq(Activation), NEW h \in Seq(Activation),
         Listed(r, t, g), NEW k \in 0 .. Len(r.tbc), q.tbc = SubSeq(r.tbc, 1, k), q.death = r.death,
         \A p \in DOMAIN r.ci : p \in DOMAIN q.ci /\ q.ci[p] = r.ci[p],
         \A i \in DOMAIN g : i \in DOMAIN h /\ h[i] = g[i]
  PROVE  Listed(q, t, h)
<1>1. ASSUME NEW x, Covered(r, t, g, x) PROVE Covered(q, t, h, x)
  BY <1>1 DEF Covered
<1> QED
  BY <1>1, ListedKeeps

\* Go calls a Lua function, and it runs.
LEMMA CallBody ==
  ASSUME NEW m, NEW F, Body(m, F), m.go # <<>>, NEW t, t = Last(m.go).t, m.th[t].status = "ok",
         NEW ny \in BOOLEAN, Halts(Last(m.go)) => ny,
         m.th[t].ci # <<>> => /\ Last(m.th[t].ci).op # "run"
                              /\ Last(m.th[t].ci).op = "plain" => ny
                              /\ Last(m.th[t].ci).op = "protect" => Protects(Last(m.go))
  PROVE  LET q == [PushFrame(m.th[t], "run", TRUE) EXCEPT !.nny = @ + (IF ny THEN 1 ELSE 0)]
             e == [k |-> "call", t |-> t, ny |-> ny]
         IN \E E : Good([th |-> [m.th EXCEPT ![t] = q], go |-> Append(m.go, e)], E)
<1> DEFINE r == m.th[t]
           c == r.ci
           g == m.go
           p == PushFrame(r, "run", TRUE)
           q == [p EXCEPT !.nny = @ + (IF ny THEN 1 ELSE 0)]
           f == [op |-> "run", pos |-> Height(r) + 1, fresh |-> TRUE, level |-> 0]
           e == [k |-> "call", t |-> t, ny |-> ny]
           h == Append(g, e)
           E == Append(F, Len(c))
           d == Append(c, f)
           l == Len(g)
<1>1. /\ t \in Threads /\ r \in ThreadRecord /\ FramesOk(c) /\ Listed(r, t, g) /\ Floors(c, g, F, t)
      /\ ~r.fresh /\ ~r.death /\ r.nny = Count(g, l, t) /\ r.nny \in Nat
      /\ ~Lua(g) => Len(c) = F[l]
      /\ Lua(g) => c # <<>> /\ \A i \in DOMAIN g : g[i].t = t /\ Live(g, i) => F[i] < Len(c)
  BY RunningParts
<1>2. /\ g \in Seq(Activation) /\ F \in Seq(Nat) /\ Len(F) = l /\ GoOk(g) /\ m.th \in [Threads -> ThreadRecord]
      /\ Last(g) = g[l] /\ l \in DOMAIN g /\ g # <<>> /\ t = Last(g).t /\ Last(g) \in Activation
  BY BodyParts, SMTT(60)
<1>3. c \in Seq(CallInfo) /\ r.tbc \in Seq([level : Nat \ {0}, base : Nat \ {0}, id : Variables])
  BY <1>1, ThreadParts
<1>4. f \in CallInfo /\ p \in ThreadRecord /\ p.ci = d /\ SameRest(p, r)
  <2>1. "run" \in LuaOps \union GoOps
    BY DEF LuaOps
  <2>2. r \in ThreadRecord
    BY <1>1
  <2> HIDE DEF r
  <2> QED
    BY <2>1, <2>2, PushIs DEF c
<1>5. c # <<>> => Last(c).op # "run" /\ (Last(c).op = "plain" => ny) /\ (Last(c).op = "protect" => Protects(Last(g)))
  OBVIOUS
<1>6. c # <<>> => Last(c).pos < f.pos
  <2>1. Height(r) \in Nat /\ (c # <<>> => Last(c).pos <= Height(r))
    BY ONLY <1>1, HeightIs
  <2>2. c # <<>> => Last(c).pos \in Nat
    <3>1. c # <<>> => Last(c) \in CallInfo
      BY <1>3, LastOne
    <3> QED
      BY <3>1 DEF CallInfo
  <2> QED
    BY ONLY <2>1, <2>2
<1>7. f.op = "run" /\ f.fresh = TRUE
  BY SMTT(60)
<1>8. e \in Activation /\ e.t = t /\ e.k = "call" /\ e.ny = ny
  BY <1>1 DEF Activation
<1>9. r.status = "ok" /\ (Halts(Last(g)) => ny)
  OBVIOUS
<1>10. /\ q \in ThreadRecord /\ q.ci = p.ci /\ q.tbc = p.tbc /\ q.death = p.death /\ q.fresh = p.fresh /\ q.status = p.status
       /\ q.nny = p.nny + (IF ny THEN 1 ELSE 0)
  <2>1. p \in ThreadRecord /\ p.nny + (IF ny THEN 1 ELSE 0) \in Nat
    <3> HIDE DEF p
    <3> QED
      BY <1>4, ThreadParts
  <2> HIDE DEF p
  <2> QED
    BY ONLY <2>1, OnlyCount, SMTT(60)
<1> HIDE DEF p, q, f, c, r, g, e, l
<1>11. FramesOk(d)
  <2>1. f.op \notin {"return", "error"} /\ f.op # "pcall" /\ f.op \notin GoOps
    BY <1>7 DEF GoOps
  <2> QED
    BY <1>1, <1>3, <1>4, <1>5, <1>6, <1>7, <2>1, FramesPush
<1>12. DOMAIN g = 1 .. l /\ l \in Nat /\ Len(c) \in Nat /\ l > 0 /\ \A i \in DOMAIN g : F[i] \in Nat
  BY <1>2, <1>3 DEF l
<1>13. ASSUME NEW i \in DOMAIN g, g[i].t = t, Live(g, i)
       PROVE  /\ F[i] <= Len(c)
              /\ g[i].k \in {"call", "resume"} => F[i] < Len(c)
              /\ Halts(g[i]) /\ i = Len(g) => Len(c) = F[i]
  <2>1. CASE Lua(g)
    <3>1. F[i] < Len(c)
      BY <1>1, <1>13, <2>1
    <3>2. i = Len(g) => ~Halts(g[i])
      BY <1>2, <2>1 DEF Lua, Halts, l
    <3> QED
      BY <1>12, <3>1, <3>2
  <2>2. CASE ~Lua(g) /\ i = l
    BY <1>1, <1>2, <1>12, <2>2 DEF Lua
  <2>3. CASE ~Lua(g) /\ i # l
    <3>1. l \in i + 1 .. Len(g)
      BY <1>12, <2>3 DEF l
    <3>2. F[i] <= F[l] /\ (g[i].k \in {"call", "resume"} => F[i] < F[l])
      BY <1>1, <1>2, <1>13, <3>1, SMTT(60) DEF Floors, FloorOk
    <3> QED
      BY <1>1, <1>12, <2>3, <3>2 DEF l
  <2> QED
    BY <2>1, <2>2, <2>3
<1>14. Floors(d, h, E, t)
  <2>1. c # <<>> /\ Last(c).op = "protect" => g # <<>> /\ Last(g).t = t /\ Protects(Last(g)) /\ F[Len(g)] = Len(c)
    <3>1. Protects(Last(g)) => ~Lua(g)
      BY DEF Protects, Lua
    <3> QED
      BY <1>1, <1>2, <1>5, <3>1 DEF l
  <2> QED
    BY <1>1, <1>2, <1>3, <1>4, <1>5, <1>7, <1>8, <1>13, <2>1, FloorsCall DEF l
<1>15. h \in Seq(Activation) /\ Len(h) = l + 1 /\ h[l + 1] = e /\ Last(h) = e /\ h # <<>> /\ DOMAIN h = 1 .. l + 1
       /\ \A i \in 1 .. l : h[i] = g[i]
  BY <1>2, <1>8, OneMore DEF l
<1>16. GoOk(h)
  <2>1. h[l] = g[l] /\ l + 1 - 1 = l /\ l + 1 > 1 /\ ~(l + 1 < Len(h))
    BY <1>12, <1>15
  <2>2. ~Halts(e) /\ ~Begins(e) /\ ~Ends(e) /\ ~ClosesSelf(e) /\ ~Protects(e)
    BY <1>8 DEF Halts, Begins, Ends, ClosesSelf, Protects
  <2>3. ActivationOk(h, l + 1)
    BY <1>2, <1>8, <1>15, <2>1, <2>2 DEF ActivationOk
  <2> QED
    BY <1>2, <1>8, <1>9, <2>3, GoMore DEF GoOk, l
<1>17. q.nny = Count(h, Len(h), t)
  <2>1. l + 1 \in 1 .. Len(h) /\ l + 1 - 1 = l /\ l \in 0 .. l
    BY <1>12, <1>15
  <2>2. Count(h, l + 1, t) = Count(h, l, t) + (IF e.ny THEN 1 ELSE 0)
    <3> HIDE DEF h
    <3>1. Count(h, l + 1, t) = Count(h, l + 1 - 1, t) + (IF h[l + 1].ny THEN 1 ELSE 0)
      BY <1>8, <1>15, <2>1, CountNext
    <3> QED
      BY <1>15, <2>1, <3>1
  <2>3. Count(h, l, t) = Count(g, l, t)
    BY <1>2, <1>8, <2>1, CountBelow DEF l
  <2> QED
    BY <1>1, <1>4, <1>8, <1>10, <1>15, <2>2, <2>3 DEF SameRest
<1>18. Listed(q, t, h)
  <2>1. \A i \in DOMAIN c : i \in DOMAIN d /\ d[i] = c[i]
    BY <1>3, <1>4, OneMore
  <2>2. \A i \in DOMAIN g : i \in DOMAIN h /\ h[i] = g[i]
    BY <1>12, <1>15
  <2>3. q.tbc = SubSeq(r.tbc, 1, Len(r.tbc)) /\ Len(r.tbc) \in 0 .. Len(r.tbc) /\ q.death = r.death /\ q.ci = d
    BY <1>3, <1>4, <1>10, AllOnes DEF SameRest
  <2> DEFINE k == Len(r.tbc)
  <2>4. /\ r \in ThreadRecord /\ q \in ThreadRecord /\ g \in Seq(Activation) /\ h \in Seq(Activation) /\ Listed(r, t, g)
        /\ k \in 0 .. Len(r.tbc) /\ q.tbc = SubSeq(r.tbc, 1, k) /\ q.death = r.death
        /\ \A i \in DOMAIN r.ci : i \in DOMAIN q.ci /\ q.ci[i] = r.ci[i]
    BY <1>1, <1>2, <1>10, <1>15, <2>1, <2>3 DEF c
  <2> HIDE DEF q, h, r, k
  <2> QED
    BY ONLY <2>2, <2>4, CoveredMore
<1>19. Runs(h, t) /\ Lua(h) /\ On(h, t)
  <2>1. l + 1 \in DOMAIN h
    BY <1>12, <1>15
  <2> QED
    BY <1>8, <1>15, <2>1 DEF Runs, Lua, On
<1>20. q.ci = d /\ d # <<>> /\ Last(d) = f
  BY <1>3, <1>4, <1>10, OneMore, SMTT(60)
<1>21. ThreadOk(q, t, h, E)
  <2>1. ~q.fresh /\ ~q.death /\ q.status = "ok"
    BY <1>1, <1>4, <1>9, <1>10 DEF SameRest
  <2>2. OnGo(q, t, h, E)
    BY <1>14, <1>17, <1>19, <1>20, <2>1 DEF OnGo
  <2> QED
    BY <1>11, <1>18, <1>19, <1>20, <2>1, <2>2 DEF ThreadOk
<1>22. \A s \in Threads \ {t} : SameView(g, F, h, E, s) /\ ~Runs(g, s) /\ ~Runs(h, s)
  <2>1. \A s \in Threads \ {t} : SameView(g, F, h, E, s)
    BY <1>2, <1>8, <1>12, ViewMore DEF l
  <2> QED
    BY <1>2, <1>8, <1>15, <2>1 DEF Runs
<1>23. E \in Seq(Nat) /\ Len(E) = Len(h)
  BY ONLY <1>2, <1>12, <1>15, OneMore
<1> DEFINE n == [th |-> [m.th EXCEPT ![t] = q], go |-> h]
<1>24. Body(n, E)
  <2> USE DEF g
  <2> HIDE DEF h, E
  <2> QED
    BY <1>1, <1>10, <1>15, <1>16, <1>21, <1>22, <1>23, BodyStep
<1>25. Top(n).op = "run" /\ Last(n.go).k # "protect"
  <2>1. n.th[t] = q /\ n.go = h
    BY <1>1, <1>2
  <2> HIDE DEF n, h, d
  <2>2. Last(n.go) = e /\ e.t = t /\ e.k # "protect"
    BY <1>8, <1>15, <2>1
  <2>3. Top(n) = f
    BY ONLY <1>20, <2>1, <2>2 DEF Top
  <2> QED
    BY <1>7, <2>2, <2>3
<1> HIDE DEF h, E, d
<1>26. Good(n, E)
  BY <1>24, <1>25 DEF Good
<1> QED
  BY ONLY <1>26 DEF h, q, p, e, g, r

\* Without activations, a thread counts one.
LEMMA CountNone ==
  ASSUME NEW g \in Seq(Activation), NEW n \in 0 .. Len(g), NEW t, \A i \in 1 .. n : g[i].t # t
  PROVE  Count(g, n, t) = 1
<1>1. From(g, n, t) = 0
  BY FromIs
<1>2. Unyieldable(g, n, t) = {}
  BY <1>1 DEF Unyieldable
<1>3. Cardinality(Unyieldable(g, n, t)) = 0
  BY <1>2, FS_EmptySet
<1> QED
  BY <1>1, <1>3 DEF Count

\* protectedCall begins: the host's, on an empty stack, or a Go function's.
LEMMA ProtectBody ==
  ASSUME NEW m, NEW F, Body(m, F), NEW t, NEW level,
         \/ m.go = <<>> /\ t = Main /\ level = 1
         \/ Lua(m.go) /\ t = Last(m.go).t /\ Top(m).op = "protect" /\ level = Top(m).pos + 1
  PROVE  LET r == m.th[t]
             e == [k |-> "protect", t |-> t, ci |-> r.ci, nny |-> r.nny, level |-> level]
         IN /\ \E E : Body([th |-> m.th, go |-> Append(m.go, e)], E)
            /\ Append(m.go, e) # <<>> /\ Last(Append(m.go, e)) = e
            /\ r.status = "ok" /\ (m.go = <<>> => r.ci = <<>> /\ r.nny = 1)
<1> DEFINE r == m.th[t]
           c == r.ci
           g == m.go
           l == Len(g)
           e == [k |-> "protect", t |-> t, ci |-> c, nny |-> r.nny, level |-> level]
           h == Append(g, e)
           E == Append(F, Len(c))
<1>1. /\ g \in Seq(Activation) /\ F \in Seq(Nat) /\ Len(F) = l /\ GoOk(g) /\ m.th \in [Threads -> ThreadRecord]
      /\ g # <<>> => Last(g) = g[l] /\ l \in DOMAIN g
  BY BodyParts
<1>2. l \in Nat /\ DOMAIN g = 1 .. l /\ (g = <<>> => l = 0)
  BY <1>1
<1>3. t \in Threads /\ r \in ThreadRecord /\ FramesOk(c) /\ Listed(r, t, g) /\ ~r.fresh
      /\ ~r.death /\ r.status = "ok" /\ r.nny = Count(g, l, t) /\ Floors(c, g, F, t)
      /\ (Lua(g) => c # <<>> /\ Top(m) = Last(c) /\ Last(c) = c[Len(c)] /\ Last(c) \in CallInfo)
      /\ (Lua(g) => \A i \in DOMAIN g : g[i].t = t /\ Live(g, i) => F[i] < Len(c))
      /\ (g = <<>> => c = <<>> /\ r.nny = 1)
  <2>1. CASE Lua(g)
    <3>1. g # <<>> /\ t = Last(g).t
      BY <2>1 DEF Lua
    <3> QED
      BY <2>1, <3>1, RunningParts
  <2>2. CASE ~Lua(g)
    <3>1. g = <<>> /\ t = Main /\ Main \in Threads
      BY <2>2 DEF Threads
    <3>2. r \in ThreadRecord /\ ThreadOk(r, t, g, F)
      BY <3>1, BodyParts
    <3>3. DOMAIN g = {} /\ ~On(g, t)
      BY <1>2, <3>1 DEF On
    <3>4. OffGo(r, t) /\ FramesOk(c) /\ Listed(r, t, g) /\ ~r.fresh
      BY <3>1, <3>2, <3>3 DEF ThreadOk
    <3>5. c = <<>> /\ r.status = "ok" /\ ~r.death /\ r.nny = 1
      BY <3>1, <3>4 DEF OffGo
    <3>6. Count(g, l, t) = 1
      <4>1. l \in 0 .. Len(g) /\ \A i \in 1 .. l : FALSE
        BY <1>2, <3>1
      <4> HIDE DEF g, l
      <4> QED
        BY <1>1, <4>1, CountNone
    <3>7. Floors(c, g, F, t)
      <4>1. \A p \in 1 .. Len(c) - 1 : FALSE
        BY <3>5
      <4> QED
        BY <3>3, <4>1 DEF Floors, Anchored
    <3> QED
      BY <2>2, <3>1, <3>2, <3>4, <3>5, <3>6, <3>7
  <2> QED
    BY ONLY <2>1, <2>2, SMTT(60)
<1>4. c \in Seq(CallInfo) /\ r.nny \in Nat /\ r.tbc \in Seq([level : Nat \ {0}, base : Nat \ {0}, id : Variables])
  BY <1>3, ThreadParts
<1>5. Len(c) \in Nat /\ DOMAIN c = 1 .. Len(c) /\ (c = <<>> <=> Len(c) = 0)
  BY <1>4
<1>6. \/ g = <<>> /\ t = Main /\ level = 1
      \/ Lua(g) /\ g # <<>> /\ t = Last(g).t /\ Last(c).op = "protect" /\ level = Last(c).pos + 1
  BY <1>3 DEF Lua
<1>7. level \in Nat
  <2>1. \A x \in CallInfo : x.pos + 1 \in Nat
    BY DEF CallInfo
  <2> QED
    BY <1>3, <1>6, <2>1
<1>8. e \in Activation /\ e.t = t /\ e.k = "protect" /\ e.ci = c /\ e.level = level /\ e.nny = r.nny
  BY <1>3, <1>4, <1>7 DEF Activation
<1>9. Halts(e) /\ Protects(e) /\ ~Begins(e) /\ ~Ends(e) /\ ~ClosesSelf(e) /\ e.k # "call" /\ e.k # "resume"
  BY <1>8 DEF Halts, Protects, Begins, Ends, ClosesSelf
<1> HIDE DEF e, c, r, g, l
<1>10. h \in Seq(Activation) /\ Len(h) = l + 1 /\ h[l + 1] = e /\ Last(h) = e /\ h # <<>> /\ DOMAIN h = 1 .. l + 1
       /\ \A i \in 1 .. l : h[i] = g[i]
  BY <1>1, <1>8, OneMore DEF l
<1>11. E \in Seq(Nat) /\ Len(E) = Len(h) /\ E[l + 1] = Len(c)
  BY <1>1, <1>5, <1>10, OneMore
<1>12. Floors(c, h, E, t)
  <2>1. level = (IF Len(c) = 0 THEN 1 ELSE c[Len(c)].pos + 1) /\ (Len(c) > 0 => c[Len(c)].op = "protect")
    BY <1>3, <1>5, <1>6
  <2>2. ASSUME NEW i \in DOMAIN g, g[i].t = t, Live(g, i)
        PROVE  /\ F[i] <= Len(c)
               /\ g[i].k \in {"call", "resume"} => F[i] < Len(c)
               /\ Halts(g[i]) /\ i = Len(g) => Len(c) = F[i]
    <3>1. Lua(g)
      BY <1>2, <1>6
    <3>2. F[i] < Len(c) /\ F[i] \in Nat
      BY <1>1, <1>2, <1>3, <2>2, <3>1
    <3>3. ~(Halts(g[i]) /\ i = Len(g))
      BY <1>1, <3>1 DEF Halts, Lua, l
    <3> QED
      BY <1>5, <3>2, <3>3
  <2> QED
    BY <1>1, <1>3, <1>4, <1>5, <1>8, <1>9, <2>1, <2>2, FloorsMore DEF l
<1>13. Count(h, l, t) = Count(g, l, t) /\ Count(h, l + 1, t) = Count(g, l, t)
  <2>1. Count(h, l, t) = Count(g, l, t)
    <3>1. l \in 0 .. Len(g)
      BY <1>2 DEF l
    <3> QED
      BY <1>1, <1>8, <3>1, CountBelow
  <2> HIDE DEF h
  <2> DEFINE n == l + 1
  <2>2. n \in 1 .. Len(h) /\ n - 1 = l /\ Protects(h[n])
    BY <1>2, <1>9, <1>10
  <2> HIDE DEF n
  <2>3. Count(h, n, t) = Count(h, n - 1, t)
    BY <1>10, <2>2, CountNext
  <2>4. Count(h, n, t) = Count(g, l, t)
    BY <2>1, <2>2, <2>3
  <2> QED
    BY <2>1, <2>4 DEF n
<1>14. GoOk(h)
  <2>1. ActivationOk(h, l + 1)
    <3>1. l > 0 => Lua(g) /\ h[l] = g[l] /\ Last(g) = g[l]
      BY <1>1, <1>2, <1>6, <1>10
    <3>2. l > 0 => h[l].t = t /\ h[l].k \in {"call", "resume"}
      BY <1>2, <1>6, <3>1 DEF Lua
    <3> DEFINE n == l + 1
    <3>3. n - 1 = l /\ ~(n < Len(h)) /\ (n > 1 => l > 0) /\ h[n] = e
      BY <1>2, <1>10
    <3> HIDE DEF n, h
    <3>4. h[n].nny = Count(h, n - 1, h[n].t)
      BY <1>3, <1>8, <1>13, <3>3
    <3>5. n > 1 => h[n].t = h[n - 1].t /\ h[n - 1].k \in {"call", "resume"}
      BY <1>8, <3>2, <3>3
    <3>6. ~Begins(h[n]) /\ ~Ends(h[n]) /\ ~ClosesSelf(h[n])
      BY <1>9, <3>3
    <3>7. ActivationOk(h, n)
      BY <3>3, <3>4, <3>5, <3>6 DEF ActivationOk
    <3> QED
      BY <3>7 DEF n
  <2>2. g # <<>> => Hosts(g[1]) /\ ~Halts(Last(g))
    <3>1. Lua(g) => ~Halts(Last(g))
      BY DEF Lua, Halts
    <3> QED
      BY <1>1, <1>6, <3>1 DEF GoOk
  <2>3. \A i \in DOMAIN g : ActivationOk(g, i)
    BY <1>1 DEF GoOk
  <2> QED
    BY <1>1, <1>3, <1>6, <1>8, <1>9, <2>1, <2>2, <2>3, GoMore DEF l, Hosts
<1>15. Listed(r, t, h)
  <2>1. \A i \in DOMAIN g : i \in DOMAIN h /\ h[i] = g[i]
    BY <1>2, <1>10
  <2>2. r.tbc = SubSeq(r.tbc, 1, Len(r.tbc)) /\ Len(r.tbc) \in 0 .. Len(r.tbc)
    BY <1>4, AllOnes
  <2> QED
    BY <1>1, <1>3, <1>10, <2>1, <2>2, CoveredMore
<1>16. Runs(h, t) /\ ~Lua(h) /\ On(h, t)
  <2>1. l + 1 \in DOMAIN h
    BY <1>2, <1>10
  <2> QED
    BY <1>8, <1>10, <2>1 DEF Runs, Lua, On
<1>17. ThreadOk(r, t, h, E)
  <2>1. OnGo(r, t, h, E)
    BY <1>3, <1>10, <1>11, <1>12, <1>13, <1>16 DEF OnGo, c
  <2> QED
    BY <1>3, <1>15, <1>16, <2>1 DEF ThreadOk, c
<1>18. \A s \in Threads \ {t} : SameView(g, F, h, E, s) /\ ~Runs(g, s) /\ ~Runs(h, s)
  <2>1. \A s \in Threads \ {t} : SameView(g, F, h, E, s)
    BY <1>1, <1>5, <1>8, ViewMore DEF l
  <2> QED
    BY <1>6, <1>8, <1>10, <2>1 DEF Runs
<1>19. [m.th EXCEPT ![t] = r] = m.th
  BY <1>1 DEF r
<1>20. Body([th |-> m.th, go |-> h], E)
  <2> USE DEF g
  <2> HIDE DEF h, E
  <2>1. Body([th |-> [m.th EXCEPT ![t] = r], go |-> h], E)
    BY <1>3, <1>10, <1>11, <1>14, <1>17, <1>18, BodyStep
  <2> QED
    BY <1>19, <2>1
<1> QED
  <2>1. \E D : Body([th |-> m.th, go |-> h], D)
    <3> HIDE DEF h, E
    <3> QED
      BY <1>20
  <2> QED
    BY <1>3, <1>10, <2>1 DEF e, r, g, c

\* The innermost activations of a thread are dropped.
LEMMA CutStep ==
  ASSUME NEW m, NEW F, Body(m, F), NEW t, NEW n \in Nat, n < Len(m.go),
         \A j \in n + 1 .. Len(m.go) : m.go[j].t = t,
         NEW q \in ThreadRecord, ThreadOk(q, t, SubSeq(m.go, 1, n), SubSeq(F, 1, n))
  PROVE  Body([th |-> [m.th EXCEPT ![t] = q], go |-> SubSeq(m.go, 1, n)], SubSeq(F, 1, n))
<1> DEFINE g == m.go
           h == SubSeq(g, 1, n)
           E == SubSeq(F, 1, n)
           b == n + 1
<1>1. g \in Seq(Activation) /\ F \in Seq(Nat) /\ Len(F) = Len(g) /\ GoOk(g) /\ (g # <<>> => Last(g).t \in Threads /\ Last(g) = g[Len(g)])
  BY BodyParts
<1>2. Len(g) \in Nat /\ DOMAIN g = 1 .. Len(g) /\ n \in 0 .. Len(g) /\ g # <<>>
  BY <1>1
<1>3. b \in DOMAIN g /\ b - 1 = n /\ (b > 1 <=> n > 0) /\ Len(g) \in b .. Len(g) /\ n \in Nat
  BY <1>2
<1>4. /\ h \in Seq(Activation) /\ Len(h) = n /\ (n > 0 => Last(h) = g[n] /\ h # <<>>)
      /\ h # <<>> => n > 0
  BY <1>1, <1>2, FirstOnes, SMTT(60)
<1>5. E \in Seq(Nat) /\ Len(E) = Len(h)
  BY <1>1, <1>2, <1>4, FirstOnes
<1>6. g[b].t = t /\ Last(g).t = t /\ t \in Threads
  BY <1>1, <1>2, <1>3
<1>7. GoOk(h)
  BY <1>1, <1>2, GoCut
<1>8. \A s \in Threads \ {t} : SameView(g, F, h, E, s)
  BY <1>1, <1>2, ViewCut
<1> HIDE DEF b
<1>9. \A s \in Threads \ {t} : ~Runs(g, s) /\ (Runs(h, s) => Lua(h))
  <2>1. ASSUME NEW s \in Threads \ {t}, Runs(h, s) PROVE Lua(h)
    <3>1. n > 0 /\ g[n].t = s
      BY <1>4, <2>1 DEF Runs
    <3>2. ActivationOk(g, b) /\ b > 1 /\ g[b].t # g[b - 1].t
      BY <1>1, <1>3, <1>6, <3>1 DEF GoOk
    <3>3. Begins(g[b]) /\ g[b].k # "call"
      BY <3>2 DEF ActivationOk, Begins
    <3>4. g[n].k \in {"call", "resume"}
      BY <1>3, <3>2, <3>3 DEF ActivationOk
    <3> QED
      BY <1>4, <3>1, <3>4 DEF Lua
  <2> QED
    BY <1>6, <2>1 DEF Runs
<1> HIDE DEF h, E
<1>10. ThreadOk(q, t, h, E)
  BY DEF h, E
<1>11. Body([th |-> [m.th EXCEPT ![t] = q], go |-> h], E)
  BY <1>4, <1>5, <1>6, <1>7, <1>8, <1>9, <1>10, BodyStep
<1> QED
  BY <1>11 DEF h, E

\* An activation that a panic leaves in place of the one that caught it.
Alike(x, e) ==
  /\ x.t = e.t /\ x.k # "call" /\ e.k # "call"
  /\ x.k = "resume" <=> e.k = "resume"
  /\ Begins(x) <=> Begins(e)
  /\ Ends(x) <=> Ends(e)
  /\ ClosesSelf(x) <=> ClosesSelf(e)
  /\ Halts(x) <=> Halts(e)
  /\ Protects(x) <=> Protects(e)
  /\ Halts(e) => x.ci = e.ci /\ x.nny = e.nny /\ x.level = e.level

\* Go's stack cut at activation i, with one alike in its place.
LEMMA GoAlike ==
  ASSUME NEW g \in Seq(Activation), GoOk(g), NEW i \in 1 .. Len(g), NEW x \in Activation, Alike(x, g[i])
  PROVE  LET h == Append(SubSeq(g, 1, i - 1), x) IN GoOk(h) /\ \A t : Count(h, i, t) = Count(g, i, t)
<1> DEFINE b == i - 1
           l == SubSeq(g, 1, b)
           h == Append(l, x)
<1>1. b \in 0 .. Len(g) /\ b \in Nat /\ b + 1 = i /\ i \in DOMAIN g /\ (b > 0 <=> i > 1) /\ (b = 0 <=> i = 1) /\ Len(g) \in Nat
      /\ 1 .. b \subseteq DOMAIN g /\ g # <<>>
  OBVIOUS
<1>2. /\ l \in Seq(Activation) /\ Len(l) = b /\ DOMAIN l = 1 .. b
      /\ (\A j \in 1 .. b : l[j] = g[j]) /\ (b > 0 => Last(l) = g[b])
  BY <1>1, FirstOnes
<1>3. ActivationOk(g, i) /\ Hosts(g[1]) /\ \A j \in DOMAIN g : ActivationOk(g, j)
  BY <1>1 DEF GoOk
<1>4. \A j \in DOMAIN l : ActivationOk(l, j)
  <2>1. GoOk(l)
    BY <1>1, GoCut
  <2> QED
    BY <2>1 DEF GoOk
<1> HIDE DEF b, l
<1>5. /\ h \in Seq(Activation) /\ Len(h) = i /\ h[i] = x /\ (\A j \in 1 .. b : h[j] = g[j])
      /\ DOMAIN h = 1 .. i
  BY <1>1, <1>2, OneMore
<1>6. \A t : \A n \in 0 .. b : Count(h, n, t) = Count(g, n, t)
  <2>1. \A t : \A n \in 0 .. Len(l) : Count(h, n, t) = Count(l, n, t)
    BY <1>2, CountBelow
  <2>2. \A t : \A n \in 0 .. b : Count(l, n, t) = Count(g, n, t)
    BY <1>1, CountBelow DEF l
  <2> QED
    BY <1>2, <2>1, <2>2
<1> HIDE DEF h
<1>7. b \in 0 .. b /\ b = i - 1 /\ i \in 1 .. Len(h)
  BY <1>1, <1>5
<1>8. ActivationOk(h, i)
  <2>1. ~(i < Len(h)) /\ \A j \in 1 .. i - 1 : h[j] = g[j]
    BY <1>1, <1>5, <1>7
  <2>2. i > 1 => h[i - 1] = g[i - 1] /\ x.k # "call"
    BY <1>1, <1>5, <1>7 DEF Alike
  <2>3. Count(h, i - 1, x.t) = Count(g, i - 1, g[i].t)
    BY <1>6, <1>7 DEF Alike
  <2>4. h[i] = x /\ (Ends(x) => Halts(x)) /\ (Protects(x) => Halts(x))
    BY <1>5 DEF Ends, Protects, Halts
  <2> QED
    BY <1>3, <2>1, <2>2, <2>3, <2>4, SMTT(60) DEF ActivationOk, Alike
<1>9. Len(l) + 1 = i /\ (l = <<>> => i = 1) /\ (l # <<>> => i > 1 /\ l[1] = g[1] /\ Last(l) = g[i - 1])
  BY <1>1, <1>2, <1>7
<1>10. GoOk(h)
  <2>1. l = <<>> => Hosts(x)
    BY <1>3, <1>9 DEF Alike, Hosts, Protects, Halts
  <2>2. l # <<>> => Hosts(l[1]) /\ ~Halts(Last(l))
    <3>1. i > 1 => g[i - 1].k \in {"call", "resume"}
      BY <1>3 DEF ActivationOk, Alike
    <3> QED
      BY <1>3, <1>9, <3>1 DEF Halts
  <2>3. ActivationOk(Append(l, x), Len(l) + 1)
    BY <1>8, <1>9 DEF h
  <2> QED
    BY <1>2, <1>4, <2>1, <2>2, <2>3, GoMore DEF h
<1>11. ASSUME NEW t PROVE Count(h, i, t) = Count(g, i, t)
  <2>1. Count(h, i - 1, t) = Count(g, i - 1, t)
    BY <1>6, <1>7
  <2>2. g[i] \in Activation /\ g[i].k \in {"call", "protect", "closing", "resume"} /\ h[i] = x /\ x.t = g[i].t
    BY <1>1, <1>5, ActivationParts DEF Alike
  <2>3. CASE Protects(x)
    BY <1>5, <1>7, <2>1, <2>2, <2>3, CountNext DEF Alike
  <2>4. CASE x.t # t
    BY <1>5, <1>7, <2>1, <2>2, <2>4, CountNext DEF Alike
  <2>5. CASE x.t = t /\ x.k = "resume"
    <3>1. h[i].t = t /\ h[i].k = "resume" /\ g[i].t = t /\ g[i].k = "resume"
      BY <2>2, <2>5 DEF Alike
    <3>2. Count(h, i, t) = 0
      BY <1>5, <1>7, <3>1, CountNext
    <3>3. Count(g, i, t) = 0
      BY <3>1, CountNext
    <3> QED
      BY <3>2, <3>3
  <2>6. CASE x.t = t /\ Ends(x)
    <3>1. h[i].t = t /\ Ends(h[i]) /\ g[i].t = t /\ Ends(g[i])
      BY <2>2, <2>6 DEF Alike
    <3>2. Count(h, i, t) = 1
      BY <1>5, <1>7, <3>1, CountNext
    <3>3. Count(g, i, t) = 1
      BY <3>1, CountNext
    <3> QED
      BY <3>2, <3>3
  <2> QED
    BY <2>2, <2>3, <2>4, <2>5, <2>6 DEF Alike, Protects, Ends
<1> QED
  BY <1>10, <1>11 DEF h, l, b

\* A panic drops activations up to the one that catches it, and leaves another.
LEMMA CatchStep ==
  ASSUME NEW m, NEW F, Body(m, F), NEW t, NEW i \in 1 .. Len(m.go), \A j \in i .. Len(m.go) : m.go[j].t = t,
         NEW x \in Activation, Alike(x, m.go[i]), NEW f \in Nat, NEW q \in ThreadRecord,
         ThreadOk(q, t, Append(SubSeq(m.go, 1, i - 1), x), Append(SubSeq(F, 1, i - 1), f))
  PROVE  Body([th |-> [m.th EXCEPT ![t] = q], go |-> Append(SubSeq(m.go, 1, i - 1), x)],
              Append(SubSeq(F, 1, i - 1), f))
<1> DEFINE g == m.go
           b == i - 1
           l == SubSeq(g, 1, b)
           D == SubSeq(F, 1, b)
           h == Append(l, x)
           E == Append(D, f)
<1>1. g \in Seq(Activation) /\ F \in Seq(Nat) /\ Len(F) = Len(g) /\ GoOk(g) /\ (g # <<>> => Last(g).t \in Threads /\ Last(g) = g[Len(g)])
  BY BodyParts
<1>2. Len(g) \in Nat /\ g # <<>> /\ b \in 0 .. Len(g) /\ Len(g) \in i .. Len(g) /\ i \in i .. Len(g)
      /\ (\A j \in b + 1 .. Len(g) : j \in i .. Len(g))
  BY ONLY <1>1
<1>3. l \in Seq(Activation) /\ D \in Seq(Nat) /\ Len(D) = Len(l)
  BY <1>1, <1>2, FirstOnes, SMTT(60)
<1>4. h \in Seq(Activation) /\ E \in Seq(Nat) /\ Len(E) = Len(h) /\ Last(h) = x
  <2> HIDE DEF l, D
  <2> QED
    BY <1>3, OneMore
<1>5. Last(g).t = t /\ t \in Threads /\ x.t = t
  <2>1. g[i].t = t /\ Last(g).t = t
    BY <1>1, <1>2
  <2> QED
    BY <1>1, <1>2, <2>1 DEF Alike
<1>6. GoOk(h)
  BY <1>1, GoAlike
<1>7. \A s \in Threads \ {t} : SameView(g, F, h, E, s)
  <2>1. ASSUME NEW s \in Threads \ {t} PROVE SameView(g, F, h, E, s)
    <3>1. SameView(g, F, l, D, s)
      BY <1>1, <1>2, ViewCut
    <3>2. SameView(l, D, h, E, s)
      BY <1>3, <1>5, ViewMore
    <3> QED
      BY <3>1, <3>2, ViewOnce
  <2> QED
    BY <2>1
<1>8. \A s \in Threads \ {t} : ~Runs(g, s) /\ ~Runs(h, s)
  BY <1>4, <1>5 DEF Runs
<1> HIDE DEF h, E
<1>9. ThreadOk(q, t, h, E)
  BY DEF h, E, l, D, b
<1>10. Body([th |-> [m.th EXCEPT ![t] = q], go |-> h], E)
  BY <1>4, <1>5, <1>6, <1>7, <1>8, <1>9, BodyStep
<1> QED
  BY <1>10 DEF h, E

\* A coroutine begins: Resume or CloseThread is called on it.
LEMMA BeginStep ==
  ASSUME NEW m, NEW F, Body(m, F), Lua(m.go), Top(m).op = "call", NEW t \in Threads, t # Main, ~On(m.go, t),
         NEW x \in Activation, x.t = t, Begins(x), Ends(x) => x.ci = <<>> /\ x.nny = 1 /\ x.level = 1,
         NEW q \in ThreadRecord, ThreadOk(q, t, Append(m.go, x), Append(F, 0))
  PROVE  Body([th |-> [m.th EXCEPT ![t] = q], go |-> Append(m.go, x)], Append(F, 0))
<1> DEFINE g == m.go
           l == Len(g)
           n == l + 1
           h == Append(g, x)
           E == Append(F, 0)
<1>1. g \in Seq(Activation) /\ F \in Seq(Nat) /\ Len(F) = Len(g) /\ GoOk(g) /\ g # <<>> /\ Last(g) = g[l] /\ l \in DOMAIN g
  BY BodyParts DEF Lua
<1>2. l \in Nat /\ l > 0 /\ DOMAIN g = 1 .. l /\ n - 1 = l /\ n > 1
  BY <1>1
<1>3. h \in Seq(Activation) /\ Len(h) = n /\ h[n] = x /\ (\A j \in 1 .. l : h[j] = g[j]) /\ Last(h) = x
      /\ E \in Seq(Nat) /\ Len(E) = Len(h) /\ DOMAIN h = 1 .. n
  BY <1>1, OneMore
<1>4. Last(g).t # t /\ \A j \in 1 .. l : g[j].t # t
  BY <1>1, <1>2 DEF On
<1> HIDE DEF n, l, h, E
<1>5. ActivationOk(h, n)
  <2>1. ~(n < Len(h)) /\ \A j \in 1 .. n - 1 : h[j].t # x.t
    BY <1>2, <1>3, <1>4, SMTT(60)
  <2>2. h[n - 1].k \in {"call", "resume"}
    BY <1>1, <1>2, <1>3 DEF Lua
  <2>3. ~Protects(x) /\ ~ClosesSelf(x)
    BY DEF Begins, Protects, ClosesSelf
  <2> QED
    BY <1>2, <1>3, <2>1, <2>2, <2>3 DEF ActivationOk
<1>6. GoOk(h)
  <2>1. Hosts(g[1]) /\ ~Halts(Last(g)) /\ \A i \in DOMAIN g : ActivationOk(g, i)
    BY <1>1 DEF GoOk, Lua, Halts
  <2> QED
    BY <1>1, <1>5, <2>1, GoMore DEF h, n, l
<1>7. \A s \in Threads \ {t} : SameView(g, F, h, E, s)
  BY <1>1, ViewMore DEF h, E
<1>8. \A s \in Threads \ {t} : ~Runs(h, s) /\ (Runs(g, s) => Waits(m.th[s].ci))
  <2>1. ASSUME NEW s \in Threads \ {t}, Runs(g, s) PROVE Waits(m.th[s].ci)
    <3>1. s = Last(g).t
      BY <2>1 DEF Runs
    <3> QED
      BY <1>1, <3>1, RunningParts DEF Waits
  <2> QED
    BY <1>3, <2>1 DEF Runs
<1>9. ThreadOk(q, t, h, E)
  BY DEF h, E
<1>10. Body([th |-> [m.th EXCEPT ![t] = q], go |-> h], E)
  BY <1>3, <1>6, <1>7, <1>8, <1>9, BodyStep
<1> QED
  BY <1>10 DEF h, E

\* A list stays covered while each of its variables does.
LEMMA CoveredStill ==
  ASSUME NEW r \in ThreadRecord, NEW q \in ThreadRecord, NEW t, NEW g, NEW h, Listed(r, t, g), q.tbc = r.tbc,
         \A i \in DOMAIN r.tbc : r.tbc[i].base < r.tbc[i].level /\ Covered(r, t, g, r.tbc[i]) => Covered(q, t, h, r.tbc[i])
  PROVE  Listed(q, t, h)
BY DEF Listed

\* No variable lies at or above the level of what has closed.
LEMMA NoneAbove ==
  ASSUME NEW r \in ThreadRecord, NEW t, NEW g, Listed(r, t, g), NEW level \in Nat, ~HasTBC(r, level)
  PROVE  \A i \in DOMAIN r.tbc : r.tbc[i].level \in Nat /\ r.tbc[i].base \in Nat /\ r.tbc[i].level < level
<1> DEFINE s == r.tbc
           n == Len(s)
<1>1. s \in Seq([level : Nat \ {0}, base : Nat \ {0}, id : Variables])
  BY ThreadParts
<1>2. n \in Nat /\ DOMAIN s = 1 .. n /\ \A i \in 1 .. n : s[i].level \in Nat /\ s[i].base \in Nat
  <2> DEFINE V == [level : Nat \ {0}, base : Nat \ {0}, id : Variables]
  <2>1. \A v \in V : v.level \in Nat /\ v.base \in Nat
    OBVIOUS
  <2> HIDE DEF s, V
  <2>2. s \in Seq(V)
    BY <1>1 DEF V
  <2>3. n \in Nat /\ DOMAIN s = 1 .. n /\ \A i \in 1 .. n : s[i] \in V
    BY <2>2
  <2> QED
    BY <2>1, <2>3
<1>3. ASSUME NEW i \in 1 .. n PROVE s[i].level < level
  <2>1. s # <<>> /\ Last(s) = s[n] /\ n \in 1 .. n
    BY <1>1, <1>2, <1>3, LastOne
  <2>2. s[n].level < level
    BY <1>2, <2>1 DEF HasTBC
  <2>3. i < n => s[i].level < s[n].level
    BY <1>2, <2>1 DEF Listed
  <2>4. i = n \/ i < n
    BY <1>2
  <2> HIDE DEF n, s
  <2> QED
    BY <1>2, <2>1, <2>2, <2>3, <2>4
<1> QED
  BY <1>2, <1>3

\* The frame on top goes: none of its variables is left, or it never had any.
Done(r) ==
  \/ Last(r.ci).op \in GoOps \ {"error"}
  \/ Last(r.ci).op \in {"return", "error"} /\ ~HasTBC(r, Last(r.ci).level)

\* A list stays in order, and covered, when its last function has closed what is its own.
LEMMA DropListed ==
  ASSUME NEW r \in ThreadRecord, r.ci # <<>>, FramesOk(r.ci), Done(r), NEW q \in ThreadRecord, NEW t, NEW g, NEW h,
         Listed(r, t, g), q.ci = SubSeq(r.ci, 1, Len(r.ci) - 1), q.tbc = r.tbc, q.death = r.death,
         \A i \in DOMAIN g : g[i].k = "closing" => i \in DOMAIN h /\ h[i] = g[i]
  PROVE  Listed(q, t, h)
<1> DEFINE c == r.ci
           l == Len(c)
           d == q.ci
<1>1. c \in Seq(CallInfo) /\ l \in DOMAIN c /\ l \in 1 .. l /\ Last(c) = c[l] /\ c[l] \in CallInfo
  BY ThreadParts, LastOne
<1>2. DOMAIN c = 1 .. l /\ l \in Nat /\ l - 1 \in 0 .. l
  BY <1>1
<1>3. DOMAIN d = 1 .. l - 1 /\ \A i \in 1 .. l - 1 : d[i] = c[i]
  BY <1>1, <1>2, FirstOnes
<1>4. \A i \in DOMAIN c : i = l \/ (i \in DOMAIN d /\ d[i] = c[i])
  BY <1>2, <1>3
<1>5. ASSUME NEW i \in DOMAIN r.tbc, r.tbc[i].base < r.tbc[i].level, Covered(r, t, g, r.tbc[i])
      PROVE  Covered(q, t, h, r.tbc[i])
  <2> DEFINE x == r.tbc[i]
  <2>1. c[l].level \in Nat /\ c[l].pos \in Nat
    BY <1>1 DEF CallInfo
  <2>2. ~HasTBC(r, c[l].level) => x.level \in Nat /\ x.base \in Nat /\ x.level < c[l].level
    BY <2>1, NoneAbove
  <2>3. ASSUME c[l].op \in LuaOps, c[l].pos = x.base PROVE FALSE
    <3>1. c[l].op = "return" /\ ~HasTBC(r, c[l].level)
      BY <1>1, <2>3 DEF Done, LuaOps, GoOps
    <3>2. c[l].level = c[l].pos
      BY <1>1, <3>1 DEF FramesOk
    <3> QED
      BY <1>5, <2>1, <2>2, <2>3, <3>1, <3>2
  <2>4. ASSUME c[l].op = "error", x.level >= c[l].level PROVE FALSE
    <3>1. ~HasTBC(r, c[l].level)
      BY <1>1, <2>4, SMTT(60) DEF Done, GoOps
    <3> QED
      BY <2>1, <2>2, <2>4, <3>1
  <2> QED
    BY <1>4, <1>5, <2>3, <2>4 DEF Covered
<1> QED
  BY <1>5, CoveredStill

\* A function that has returned leaves its thread.
LEMMA DropBody ==
  ASSUME NEW m, NEW F, Body(m, F), Lua(m.go), NEW t, t = Last(m.go).t, Done(m.th[t]),
         ~Top(m).fresh \/ (Last(m.go).k = "resume" /\ Len(m.th[t].ci) > 1)
  PROVE  LET q == [m.th[t] EXCEPT !.ci = Front(m.th[t].ci)]
             n == [th |-> [m.th EXCEPT ![t] = q], go |-> m.go]
         IN /\ Body(n, F) /\ Lua(n.go) /\ n.th[t] = q /\ q \in ThreadRecord /\ q.ci # <<>> /\ SameRest(q, m.th[t])
            /\ q.ci = SubSeq(m.th[t].ci, 1, Len(m.th[t].ci) - 1)
            /\ ~Top(m).fresh => Top(n).op = "call"
<1> DEFINE r == m.th[t]
           c == r.ci
           l == Len(c)
           b == l - 1
           d == SubSeq(c, 1, b)
           q == [r EXCEPT !.ci = Front(c)]
           g == m.go
           n == [th |-> [m.th EXCEPT ![t] = q], go |-> g]
<1>1. g # <<>>
  BY SMTT(60) DEF Lua
<1>2. /\ t \in Threads /\ r \in ThreadRecord /\ Runs(g, t) /\ FramesOk(c) /\ Listed(r, t, g) /\ Floors(c, g, F, t)
      /\ c # <<>> /\ Last(c) \in CallInfo /\ Top(m) = c[l] /\ Last(c) = c[l] /\ l \in DOMAIN c
      /\ \A i \in DOMAIN g : g[i].t = t /\ Live(g, i) => F[i] < l
  BY <1>1, RunningParts
<1>3. g \in Seq(Activation) /\ F \in Seq(Nat) /\ Len(F) = Len(g) /\ GoOk(g) /\ m.th \in [Threads -> ThreadRecord]
  BY BodyParts, SMTT(60)
<1>4. c \in Seq(CallInfo) /\ r.tbc \in Seq([level : Nat \ {0}, base : Nat \ {0}, id : Variables])
  BY <1>2, ThreadParts
<1>5. l \in Nat /\ b \in 0 .. l /\ b + 1 = l /\ (l > 1 <=> b > 0) /\ b \in Nat /\ DOMAIN c = 1 .. l
  <2>1. l \in Nat /\ DOMAIN c = 1 .. l /\ l \in DOMAIN c
    BY <1>2, <1>4, AllOnes
  <2> HIDE DEF l
  <2> QED
    BY ONLY <2>1, SMTT(60)
<1>6. d \in Seq(CallInfo) /\ Len(d) = b /\ (b > 0 => Last(d) = c[b] /\ d # <<>>)
  <2>1. c \in Seq(CallInfo) /\ b \in 0 .. Len(c) /\ b \in Nat
    BY ONLY <1>4, <1>5
  <2> HIDE DEF c, b
  <2> QED
    BY ONLY <2>1, FirstOnes
<1>7. b > 0 /\ (~c[l].fresh => c[b].op = "call")
  <2>1. ~c[l].fresh => l > 1 /\ c[l - 1].op = "call"
    BY ONLY <1>2, SMTT(60) DEF FramesOk
  <2>2. ~c[l].fresh \/ l > 1
    BY <1>2
  <2> QED
    BY ONLY <1>5, <2>1, <2>2, SMTT(60)
<1>8. Front(c) = d
  BY DEF Front
<1>9. q \in ThreadRecord /\ q.ci = d /\ SameRest(q, r)
  <2> HIDE DEF r, d, c
  <2> QED
    BY <1>2, <1>6, <1>8, OnlyCalls
<1>10. Len(g) \in Nat /\ DOMAIN g = 1 .. Len(g) /\ Last(g) = g[Len(g)] /\ Len(g) \in DOMAIN g /\ SubSeq(g, 1, Len(g)) = g
      /\ SubSeq(F, 1, Len(g)) = F
  BY <1>1, <1>3, LastOne, AllOnes
<1> HIDE DEF q, d, b, l, c
<1>11. ASSUME NEW i \in DOMAIN g, g[i].t = t, Live(g, i) PROVE F[i] <= b /\ (g[i].k = "call" => F[i] < b)
  <2>1. F[i] \in Nat /\ F[i] < l
    BY <1>2, <1>3, <1>10, <1>11
  <2>2. F[i] <= b /\ (F[i] # b => F[i] < b)
    BY <1>5, <2>1
  <2>3. ASSUME g[i].k = "call", F[i] = b PROVE FALSE
    <3>1. c[l].fresh
      BY <1>2, <1>5, <1>11, <2>3 DEF Floors, FloorOk
    <3>2. Last(g).k = "resume" /\ Last(g).t = t
      BY <1>2, <3>1 DEF Runs
    <3>3. ActivationOk(g, Len(g)) /\ Begins(g[Len(g)])
      BY <1>3, <1>10, <3>2 DEF GoOk, Begins
    <3>4. i # Len(g)
      BY <1>10, <2>3, <3>2
    <3>5. i \in 1 .. Len(g) - 1 /\ Len(g) > 1
      BY <1>10, <3>4
    <3> QED
      BY ONLY <1>10, <1>11, <3>2, <3>3, <3>5, SMTT(60) DEF ActivationOk
  <2> QED
    BY ONLY <2>2, <2>3, SMTT(60)
<1>12. Floors(d, g, F, t)
  <2>1. Len(g) \in 0 .. Len(g) /\ b \in 0 .. Len(c) /\ (\A j \in Len(g) + 1 .. Len(g) : FALSE) /\ 1 .. Len(g) = DOMAIN g
    BY <1>5, <1>10 DEF l
  <2>2. Floors(SubSeq(c, 1, b), SubSeq(g, 1, Len(g)), SubSeq(F, 1, Len(g)), t)
    BY <1>2, <1>3, <1>4, <1>11, <2>1, FloorsCut
  <2> QED
    BY <1>10, <2>2 DEF d
<1>13. FramesOk(d)
  BY <1>2, <1>4, <1>5, FramesCut DEF d, l
<1>14. Listed(q, t, g)
  <2>1. q.ci = SubSeq(r.ci, 1, Len(r.ci) - 1) /\ q.tbc = r.tbc /\ q.death = r.death /\ r.ci # <<>> /\ FramesOk(r.ci)
    BY ONLY <1>2, <1>9 DEF SameRest, c, d, b, l
  <2> QED
    BY <1>2, <1>9, <2>1, DropListed, Zenon
<1>15. Body(n, F)
  <2>1. q.status = m.th[t].status /\ q.death = m.th[t].death /\ q.fresh = m.th[t].fresh /\ q.nny = m.th[t].nny /\ q.ci # <<>>
    BY <1>6, <1>7, <1>9 DEF SameRest
  <2> QED
    BY <1>9, <1>12, <1>13, <1>14, <2>1, RunningStep
<1>16. n.th[t] = q /\ n.go = m.go
  BY <1>2, <1>3
<1>17. ~Top(m).fresh => Top(n).op = "call"
  <2>1. Top(n) = c[b]
    BY <1>6, <1>7, <1>9, <1>16 DEF Top
  <2> QED
    BY <1>2, <1>7, <2>1
<1> QED
  BY <1>6, <1>7, <1>9, <1>15, <1>16, <1>17 DEF q, d, b, l, c

\* What is left once Lua code runs on.
LEMMA GoodLua ==
  ASSUME NEW m, NEW F, Body(m, F), Lua(m.go), Top(m).op \in {"run", "jump", "return", "error"}
  PROVE  Good(m, F)
BY DEF Good, Lua

\* ReturnGo, where nothing of the frame is left to close.
LEMMA ReturnBody ==
  ASSUME NEW m, NEW F, Body(m, F), Lua(m.go), NEW t, t = Last(m.go).t, Done(m.th[t]), ~Top(m).fresh
  PROVE  Good([th |-> [m.th EXCEPT ![t] = ReturnGo(m.th[t])], go |-> m.go], F)
<1> DEFINE r == m.th[t]
           q == [r EXCEPT !.ci = Front(r.ci)]
           n == [th |-> [m.th EXCEPT ![t] = q], go |-> m.go]
           p == Mark(q, "run", 0)
           o == [th |-> [n.th EXCEPT ![t] = p], go |-> n.go]
<1>1. Body(n, F) /\ Lua(n.go) /\ n.th[t] = q /\ Top(n).op = "call"
  BY DropBody
<1>2. m.th \in [Threads -> ThreadRecord]
  BY BodyParts
<1>3. n.go = m.go /\ "call" \in LuaOps /\ "run" \in LuaOps /\ 0 \in Nat
  BY DEF LuaOps
<1>4. Body(o, F) /\ Lua(o.go) /\ Top(o).op = "run"
  <2> HIDE DEF q
  <2>1. n.th[t] = q /\ t = Last(n.go).t
    BY <1>1, <1>3
  <2> HIDE DEF n
  <2> QED
    BY <1>1, <1>3, <2>1, MarkBody, SMTT(60)
<1>5. o = [th |-> [m.th EXCEPT ![t] = p], go |-> m.go]
  <2> HIDE DEF q, p
  <2> QED
    BY <1>2
<1>6. Good(o, F)
  <2> HIDE DEF o
  <2> QED
    BY <1>4, GoodLua
<1>7. p = ReturnGo(r)
  BY DEF ReturnGo
<1> QED
  BY ONLY <1>5, <1>6, <1>7

\* What was called has returned, whatever runs on.
LEMMA BackBody ==
  ASSUME NEW m, NEW F, Body(m, F), m.go = <<>> \/ Last(m.go).k # "protect"
  PROVE  Good(Back(m), F) /\ Back(m).go = m.go
<1>1. CASE m.go = <<>> \/ Last(m.go).k = "closing"
  <2>1. Back(m) = m /\ ~Lua(m.go)
    BY <1>1 DEF Back, Lua
  <2> QED
    BY <2>1 DEF Good
<1>2. CASE ~(m.go = <<>> \/ Last(m.go).k = "closing")
  <2> DEFINE t == Last(m.go).t
             r == m.th[t]
  <2>1. m = [th |-> m.th, go |-> m.go] /\ Last(m.go) \in Activation /\ m.th \in [Threads -> ThreadRecord] /\ t \in Threads
    BY <1>2, BodyParts
  <2>2. Lua(m.go)
    BY <1>2, <2>1, ActivationParts DEF Lua
  <2>3. r.ci # <<>> /\ Last(r.ci) \in CallInfo /\ Top(m) = Last(r.ci) /\ FramesOk(r.ci) /\ Last(r.ci) = r.ci[Len(r.ci)] /\ Len(r.ci) \in DOMAIN r.ci
    BY <1>2, <2>2, RunningParts
  <2>4. Back(m) = [th |-> [m.th EXCEPT ![t] = Continued(r)], go |-> m.go]
    <3>1. Back(m) = [m EXCEPT !.th[t] = Continued(@)]
      BY <1>2 DEF Back
    <3> HIDE DEF t
    <3>2. [[th |-> m.th, go |-> m.go] EXCEPT !.th[t] = Continued(@)] = [th |-> [m.th EXCEPT ![t] = Continued(m.th[t])], go |-> m.go]
      BY <2>1
    <3> QED
      BY <2>1, <3>1, <3>2
  <2>5. CASE Last(r.ci).op = "call"
    <3>1. Continued(r) = Mark(r, "run", 0)
      BY <2>3, <2>5 DEF Continued
    <3>2. "call" \in LuaOps /\ "run" \in LuaOps /\ 0 \in Nat
      BY SMTT(60) DEF LuaOps
    <3> DEFINE n == [th |-> [m.th EXCEPT ![t] = Mark(r, "run", 0)], go |-> m.go]
    <3>3. Body(n, F) /\ Lua(n.go) /\ Top(n).op = "run"
      BY <2>2, <2>3, <2>5, <3>2, MarkBody, SMTT(60)
    <3> HIDE DEF n
    <3>4. Good(n, F)
      BY <3>3, GoodLua
    <3> QED
      BY ONLY <2>4, <3>1, <3>4, SMTT(60) DEF n
  <2>6. CASE Last(r.ci).op \in {"protect", "pcall", "callk", "plain"}
    <3>1. Continued(r) = ReturnGo(r)
      BY <2>3, <2>6 DEF Continued
    <3>2. Done(r) /\ ~Last(r.ci).fresh
      BY ONLY <2>3, <2>6, ZenonT(30) DEF Done, GoOps, FramesOk
    <3>3. Good([th |-> [m.th EXCEPT ![t] = ReturnGo(r)], go |-> m.go], F)
      BY <2>2, <2>3, <3>2, ReturnBody
    <3> QED
      BY ONLY <2>4, <3>1, <3>3, SMTT(60)
  <2>7. CASE Last(r.ci).op \notin {"call", "protect", "pcall", "callk", "plain"}
    <3>1. Continued(r) = r
      BY <2>3, <2>7 DEF Continued
    <3>2. [m.th EXCEPT ![t] = r] = m.th
      BY <2>1
    <3>3. Back(m) = m
      BY ONLY <2>1, <2>4, <3>1, <3>2, SMTT(60)
    <3>4. Last(r.ci).op \in {"run", "jump", "return", "error"}
      BY ONLY <2>3, <2>7, ZenonT(30) DEF CallInfo, LuaOps, GoOps
    <3>5. Good(m, F)
      BY <2>2, <2>3, <3>4, GoodLua
    <3> QED
      BY ONLY <3>3, <3>5, SMTT(60)
  <2>8. Back(m).go = m.go
    BY <2>4
  <2> QED
    BY <2>5, <2>6, <2>7, <2>8
<1> QED
  BY <1>1, <1>2

\* Part of the top thread's activations are dropped, and the frames they ran.
LEMMA PieceCut ==
  ASSUME NEW m, NEW F, Body(m, F), NEW t, NEW n \in Nat, n < Len(m.go),
         \A j \in n + 1 .. Len(m.go) : m.go[j].t = t /\ ~ClosesSelf(m.go[j]),
         ~Begins(m.go[n + 1]), NEW q \in ThreadRecord, q.ci = SubSeq(m.th[t].ci, 1, F[n + 1]),
         q.status = "ok", ~q.death, ~q.fresh, q.nny = Count(m.go, n, t), Listed(q, t, SubSeq(m.go, 1, n))
  PROVE  /\ Body([th |-> [m.th EXCEPT ![t] = q], go |-> SubSeq(m.go, 1, n)], SubSeq(F, 1, n))
         /\ n = 0 => F[n + 1] = 0
<1> DEFINE g == m.go
           c == m.th[t].ci
           b == n + 1
           f == F[b]
           h == SubSeq(g, 1, n)
           E == SubSeq(F, 1, n)
           d == SubSeq(c, 1, f)
<1>1. g \in Seq(Activation) /\ F \in Seq(Nat) /\ Len(F) = Len(g) /\ GoOk(g) /\ (g # <<>> => Last(g).t \in Threads /\ Last(g) = g[Len(g)])
  BY BodyParts
<1>2. Len(g) \in Nat /\ DOMAIN g = 1 .. Len(g) /\ n \in 0 .. Len(g) /\ g # <<>>
  BY <1>1
<1>3. b \in DOMAIN g /\ b - 1 = n /\ (b > 1 <=> n > 0) /\ Len(g) \in b .. Len(g) /\ (b = 1 <=> n = 0) /\ b \in Nat /\ n + 1 = b
      /\ 1 .. n \subseteq DOMAIN g /\ 1 \in DOMAIN g /\ b \in b .. Len(g)
      /\ \A i \in 1 .. n : b \in i + 1 .. Len(g) /\ \A j \in i + 1 .. n : j \in 1 .. n
  BY <1>2
<1>4. t \in Threads /\ g[b].t = t /\ ActivationOk(g, b) /\ ActivationOk(g, 1)
  <2>1. g[Len(g)].t = t /\ g[b].t = t
    BY <1>3
  <2> HIDE DEF b
  <2>2. ActivationOk(g, b) /\ ActivationOk(g, 1)
    BY <1>1, <1>3 DEF GoOk
  <2> QED
    BY <1>1, <1>2, <2>1, <2>2
<1>5. m.th[t] \in ThreadRecord /\ ThreadOk(m.th[t], t, g, F)
  BY <1>4, BodyParts
<1>6. c \in Seq(CallInfo)
  BY <1>5, ThreadParts
<1>7. FramesOk(c) /\ Floors(c, g, F, t)
  <2>1. On(g, t)
    BY <1>3, <1>4 DEF On
  <2> QED
    BY <1>5, <2>1 DEF ThreadOk, OnGo
<1> HIDE DEF b, c
<1>8. \A j \in b .. Len(g) : g[j].t = t /\ ~ClosesSelf(g[j])
  BY <1>3
<1>9. Live(g, b) /\ (g[n].t = t /\ n > 0 => Live(g, n))
  <2>1. \A j \in b + 1 .. Len(g) : j \in b .. Len(g)
    BY <1>2, <1>3
  <2> QED
    BY <1>3, <1>8, <2>1 DEF Live
<1>10. FloorOk(c, g, F, t, b)
  BY <1>3, <1>4, <1>7, <1>9 DEF Floors
<1>11. f \in Nat /\ Len(c) \in Nat /\ f <= Len(c) /\ \A j \in DOMAIN g : F[j] \in Nat
  <2>1. f \in Nat /\ Len(c) \in Nat /\ \A j \in DOMAIN g : F[j] \in Nat
    <3>1. \A j \in DOMAIN g : F[j] \in Nat
      BY ONLY <1>1, <1>2
    <3>2. Len(c) \in Nat
      BY <1>6
    <3> QED
      BY <1>3, <3>1, <3>2
  <2>2. g[b].k \in {"call", "protect", "closing"}
    BY <1>1, <1>3, ActivationParts, SMTT(60) DEF Begins, b
  <2> QED
    BY <1>10, <2>1, <2>2 DEF FloorOk, Halts
<1>12. \A j \in b .. Len(g) : F[j] >= f
  <2>1. \A j \in b .. Len(g) : (j = b \/ j \in b + 1 .. Len(g)) /\ j \in DOMAIN g
    BY <1>2, <1>3
  <2>2. \A j \in b + 1 .. Len(g) : F[b] <= F[j]
    <3>1. ASSUME NEW j \in b + 1 .. Len(g) PROVE g[j].t = t
      BY <1>2, <1>3, <1>8
    <3> QED
      BY <1>10, <3>1 DEF FloorOk
  <2>3. ASSUME NEW j \in b .. Len(g) PROVE F[j] >= f
    BY <1>11, <2>1, <2>2
  <2> QED
    BY <2>3
<1>13. ASSUME NEW i \in 1 .. n, g[i].t = t, Live(g, i)
       PROVE  F[i] <= f /\ (g[i].k \in {"call", "resume"} => F[i] < f) /\ (Halts(g[i]) /\ i = n => F[i] = f)
  <2>1. FloorOk(c, g, F, t, i) /\ b \in i + 1 .. Len(g) /\ g[b].t = t /\ (i = n => b = i + 1)
    BY <1>3, <1>4, <1>7, <1>13 DEF Floors
  <2> QED
    BY <2>1 DEF FloorOk
<1>14. Floors(d, h, E, t)
  <2>1. \A j \in n + 1 .. Len(g) : g[j].t = t => ~ClosesSelf(g[j]) /\ F[j] >= f
    BY <1>3, <1>8, <1>12
  <2>2. \A i \in 1 .. n : g[i].t = t /\ Live(g, i) => F[i] <= f /\ (g[i].k = "call" => F[i] < f)
    BY <1>13
  <2>3. f \in 0 .. Len(c)
    BY <1>11
  <2> HIDE DEF f, g
  <2> QED
    BY <1>1, <1>2, <1>6, <1>7, <2>1, <2>2, <2>3, FloorsCut
<1>15. d \in Seq(CallInfo) /\ Len(d) = f /\ FramesOk(d) /\ (d = <<>> <=> f = 0)
  <2>1. f \in 0 .. Len(c)
    BY <1>11
  <2> HIDE DEF f
  <2>2. d \in Seq(CallInfo) /\ Len(d) = f
    BY <1>6, <2>1, FirstOnes
  <2>3. FramesOk(d)
    BY <1>6, <1>7, <2>1, FramesCut
  <2> HIDE DEF d
  <2> QED
    BY <2>2, <2>3
<1>16. /\ h \in Seq(Activation) /\ Len(h) = n /\ DOMAIN h = 1 .. n /\ (\A i \in 1 .. n : h[i] = g[i])
       /\ n > 0 => Last(h) = g[n] /\ h # <<>>
  <2> HIDE DEF g
  <2>1. h \in Seq(Activation) /\ Len(h) = n /\ DOMAIN h = 1 .. n /\ (\A i \in 1 .. n : h[i] = g[i]) /\ (n > 0 => Last(h) = g[n])
    BY <1>1, <1>2, FirstOnes
  <2> HIDE DEF h
  <2> QED
    BY <2>1
<1>17. q.ci = d /\ Listed(q, t, h)
  BY DEF b, c
<1>18. n > 0 => E[n] = F[n]
  BY ONLY <1>1, <1>2, FirstOnes
<1> HIDE DEF h, E, d, f, g
<1>19. ThreadOk(q, t, h, E) /\ (n = 0 => f = 0)
  <2>1. CASE n = 0
    <3>1. t = Main /\ Halts(g[b]) /\ g[b].ci = <<>>
      BY <1>1, <1>2, <1>3, <1>4, <2>1 DEF GoOk, Hosts, Protects, Halts
    <3>2. f = 0
      BY <1>10, <3>1 DEF FloorOk, f
    <3>3. ~On(h, t)
      BY <1>16, <2>1 DEF On
    <3>4. q.nny = 1
      <4>1. \A i \in 1 .. n : FALSE
        BY <2>1
      <4>2. Count(g, n, t) = 1
        BY <1>1, <1>2, <4>1, CountNone
      <4> QED
        BY <4>2 DEF g
    <3>5. q.ci = <<>>
      BY <1>15, <1>17, <3>2
    <3>6. OffGo(q, t)
      BY <3>4, <3>5 DEF OffGo
    <3> QED
      BY <1>15, <1>17, <3>2, <3>3, <3>6 DEF ThreadOk
  <2>2. CASE n > 0
    <3>1. g[n].t = t
      BY <1>3, <1>4, <2>2 DEF ActivationOk, g, b
    <3>2. Runs(h, t) /\ On(h, t) /\ n \in 1 .. n
      BY <1>3, <1>16, <2>2, <3>1 DEF Runs, On
    <3>3. Live(g, n) /\ F[n] <= f /\ (g[n].k \in {"call", "resume"} => F[n] < f) /\ (Halts(g[n]) => F[n] = f)
      BY <1>9, <1>13, <2>2, <3>1, <3>2
    <3>4. g[n].k \in {"call", "protect", "closing", "resume"}
      BY <1>1, <1>3, <3>2, ActivationParts
    <3>5. ~Lua(h) => Len(q.ci) = E[Len(h)]
      BY <1>15, <1>16, <1>17, <1>18, <2>2, <3>3, <3>4 DEF Lua, Halts
    <3>6. Lua(h) => q.ci # <<>>
      <4>1. Lua(h) => F[n] < f
        BY <1>16, <2>2, <3>3 DEF Lua
      <4>2. F[n] \in Nat
        BY <1>3, <1>11, <3>2
      <4>3. Lua(h) => f # 0
        BY <1>11, <4>1, <4>2
      <4> QED
        BY <1>15, <1>17, <4>3
    <3>7. q.nny = Count(h, Len(h), t)
      <4>1. n \in 0 .. n
        OBVIOUS
      <4>2. Count(h, n, t) = Count(g, n, t)
        BY <1>1, <1>2, <4>1, CountBelow DEF h
      <4> QED
        BY <1>16, <4>2 DEF g
    <3>8. OnGo(q, t, h, E)
      BY <1>14, <1>17, <3>2, <3>5, <3>6, <3>7 DEF OnGo
    <3>9. n # 0
      BY <2>2
    <3> QED
      BY <1>15, <1>17, <3>2, <3>8, <3>9 DEF ThreadOk
  <2> QED
    BY <2>1, <2>2
<1>20. Body([th |-> [m.th EXCEPT ![t] = q], go |-> h], E)
  BY <1>19, CutStep DEF h, E, g
<1> QED
  BY <1>19, <1>20 DEF h, E, g, f, b

\* State.call runs the frame on top, where execute returns with it.
LEMMA CallTop ==
  ASSUME NEW c \in Seq(CallInfo), c # <<>>, NEW t, NEW g \in Seq(Activation), NEW F \in Seq(Nat), Len(F) = Len(g),
         Floors(c, g, F, t), Runs(g, t), Last(g).k = "call", c[Len(c)].fresh
  PROVE  F[Len(g)] + 1 = Len(c)
<1> DEFINE l == Len(g)
           n == Len(c)
<1>1. l \in Nat /\ DOMAIN g = 1 .. l /\ n \in Nat /\ n > 0 /\ l \in DOMAIN g /\ Last(g) = g[l] /\ \A i \in DOMAIN g : F[i] \in Nat
  BY LastOne DEF Runs
<1>2. g[l].t = t /\ g[l].k = "call" /\ Live(g, l)
  <2>1. g # <<>>
    BY DEF Runs
  <2>2. Live(g, l)
    BY <2>1, LiveAgain
  <2> QED
    BY <1>1, <2>2 DEF Runs
<1>3. FloorOk(c, g, F, t, l)
  BY <1>1, <1>2 DEF Floors
<1>4. F[l] < n /\ \A p \in F[l] + 1 .. n : c[p].fresh =>
        \E j \in DOMAIN g : g[j].t = t /\ g[j].k = "call" /\ Live(g, j) /\ F[j] + 1 = p
  BY <1>2, <1>3 DEF FloorOk
<1> HIDE DEF l, n
<1>5. n \in F[l] + 1 .. n
  BY <1>1, <1>4
<1>6. PICK j \in DOMAIN g : g[j].t = t /\ g[j].k = "call" /\ Live(g, j) /\ F[j] + 1 = n
  BY <1>4, <1>5 DEF n
<1>7. CASE j = l
  BY <1>6, <1>7 DEF l, n
<1>8. CASE j # l
  <2>1. l \in j + 1 .. l
    BY <1>1, <1>8
  <2>2. F[j] < F[l]
    BY <1>2, <1>6, <2>1, SMTT(60) DEF Floors, FloorOk, l
  <2> QED
    BY <1>1, <1>4, <1>6, <2>2
<1> QED
  BY <1>7, <1>8

\* closeProtected ends in protectedCall, and what called it runs on.
LEMMA ClosedPcall ==
  ASSUME NEW m, NEW F, Body(m, F), m.go # <<>>, NEW t, t = Last(m.go).t, Last(m.go).k = "closing", Last(m.go).then = "pcall",
         ~HasTBC(m.th[t], Last(m.go).level)
  PROVE  \E E : Good(Back([m EXCEPT !.go = Front(m.go)]), E)
<1> DEFINE g == m.go
           l == Len(g)
           n == l - 1
           r == m.th[t]
           h == SubSeq(g, 1, n)
<1>1. /\ t \in Threads /\ r \in ThreadRecord /\ Runs(g, t) /\ Listed(r, t, g) /\ OnGo(r, t, g, F)
      /\ ~r.fresh /\ ~r.death /\ r.nny = Count(g, l, t) /\ (~Lua(g) => Len(r.ci) = F[l])
  BY RunningParts
<1>2. /\ g \in Seq(Activation) /\ F \in Seq(Nat) /\ Len(F) = l /\ GoOk(g) /\ m.th \in [Threads -> ThreadRecord]
      /\ m = [th |-> m.th, go |-> m.go] /\ Last(g) = g[l] /\ l \in DOMAIN g /\ g[l] \in Activation
  BY BodyParts
<1>3. l \in Nat /\ n \in Nat /\ n + 1 = l /\ n < l /\ DOMAIN g = 1 .. l /\ l \in 1 .. l /\ n \in 0 .. l /\ (\A j \in n + 1 .. l : j = l)
      /\ (l > 1 <=> n > 0)
  BY <1>2
<1> HIDE DEF l, n
<1>4. g[l].t = t /\ g[l].k = "closing" /\ g[l].then = "pcall" /\ g[l].level \in Nat /\ ActivationOk(g, l)
  <2>1. g[l].k = "closing" /\ g[l].t = t /\ g[l].then = "pcall"
    BY <1>2
  <2> QED
    BY <1>2, <2>1, ActivationParts DEF GoOk
<1>5. ~Begins(g[l]) /\ ~Ends(g[l]) /\ ~ClosesSelf(g[l]) /\ Protects(g[l]) /\ ~Lua(g)
  BY <1>2, <1>4 DEF Begins, Ends, ClosesSelf, Protects, Lua
<1>6. r.ci = SubSeq(r.ci, 1, F[l]) /\ r.status = "ok"
  <2>1. r.ci \in Seq(CallInfo) /\ r.status \in {"ok", "yield", "error"}
    BY <1>1, ThreadParts
  <2>2. Len(r.ci) = F[l]
    BY <1>1, <1>5
  <2>3. r.ci = SubSeq(r.ci, 1, Len(r.ci))
    BY ONLY <2>1, AllOnes, SMTT(60)
  <2>4. r.status = "ok"
    BY <1>1, <1>2, <1>5, <2>1 DEF OnGo
  <2> QED
    BY ONLY <2>2, <2>3, <2>4
<1>7. r.nny = Count(g, n, t)
  <2>1. Count(g, l, t) = Count(g, l - 1, t)
    BY <1>2, <1>3, <1>5, CountNext DEF l
  <2> QED
    BY <1>1, <2>1 DEF n
<1>8. h \in Seq(Activation) /\ Len(h) = n /\ DOMAIN h = 1 .. n /\ (\A i \in 1 .. n : h[i] = g[i]) /\ (n > 0 => Last(h) = g[n])
  <2>1. g \in Seq(Activation) /\ n \in 0 .. Len(g)
    BY ONLY <1>2, <1>3 DEF l
  <2> HIDE DEF g
  <2> QED
    BY <1>3, <2>1, FirstOnes
<1>9. Listed(r, t, h)
  <2>1. \A i \in DOMAIN r.tbc : r.tbc[i].level \in Nat /\ r.tbc[i].level < g[l].level
    <3>1. ~HasTBC(r, g[l].level)
      BY <1>2
    <3> QED
      BY <1>1, <1>4, <3>1, NoneAbove
  <2>2. ASSUME NEW i \in DOMAIN r.tbc, Covered(r, t, g, r.tbc[i]) PROVE Covered(r, t, h, r.tbc[i])
    <3>1. \A j \in DOMAIN g : j = l \/ (j \in DOMAIN h /\ h[j] = g[j])
      BY ONLY <1>3, <1>8, SMTT(60)
    <3>2. ~(r.tbc[i].level >= g[l].level)
      BY <1>4, <2>1
    <3> HIDE DEF h, g, r
    <3> QED
      BY <2>2, <3>1, <3>2 DEF Covered
  <2> QED
    BY ONLY <1>1, <2>2, CoveredStill
<1> DEFINE o == [th |-> m.th, go |-> h]
           E == SubSeq(F, 1, n)
<1>10. Body(o, E)
  <2>1. [m.th EXCEPT ![t] = r] = m.th
    BY <1>2
  <2>2. Body([th |-> [m.th EXCEPT ![t] = r], go |-> SubSeq(m.go, 1, n)], SubSeq(F, 1, n))
    <3>1. \A j \in n + 1 .. Len(m.go) : m.go[j].t = t /\ ~ClosesSelf(m.go[j])
      BY <1>3, <1>4, <1>5 DEF l
    <3>2. n < Len(m.go) /\ ~Begins(m.go[n + 1]) /\ r.ci = SubSeq(m.th[t].ci, 1, F[n + 1])
      BY <1>3, <1>5, <1>6 DEF l
    <3> QED
      BY <1>1, <1>3, <1>6, <1>7, <1>9, <3>1, <3>2, PieceCut
  <2> QED
    BY <2>1, <2>2
<1>11. h = <<>> \/ Last(h).k # "protect"
  <2>1. CASE n = 0
    BY <1>8, <2>1
  <2>2. CASE n > 0
    <3>1. g[l - 1].k \in {"call", "resume"}
      BY <1>3, <1>4, <2>2 DEF ActivationOk
    <3> QED
      BY <1>8, <2>2, <3>1 DEF n
  <2> QED
    BY <1>3, <2>1, <2>2
<1>12. o = [m EXCEPT !.go = Front(m.go)]
  <2>1. Front(g) = h
    BY DEF Front, n, l
  <2> HIDE DEF h
  <2> QED
    BY <1>2, <2>1
<1> HIDE DEF o, E
<1>13. Good(Back(o), E)
  <2>1. o.go = h
    BY DEF o
  <2> QED
    BY <1>10, <1>11, <2>1, BackBody
<1> QED
  BY <1>12, <1>13

\* A Lua function returns, where execute goes on with its caller.
LEMMA LeaveReentry ==
  ASSUME NEW m, NEW F, Body(m, F), Lua(m.go), NEW t, t = Last(m.go).t, Done(m.th[t]), ~Top(m).fresh
  PROVE  \E E : Good(Leave(m), E)
<1> DEFINE q == [m.th[t] EXCEPT !.ci = Front(m.th[t].ci)]
           n == [th |-> [m.th EXCEPT ![t] = q], go |-> m.go]
<1>1. Body(n, F) /\ Lua(n.go)
  BY DropBody
<1>2. Good(Back(n), F)
  <2> HIDE DEF n
  <2>1. n.go = <<>> \/ Last(n.go).k # "protect"
    BY <1>1 DEF Lua
  <2> QED
    BY <1>1, <2>1, BackBody
<1>3. [m EXCEPT !.th[Last(m.go).t].ci = Front(@)] = n
  <2>1. m = [th |-> m.th, go |-> m.go] /\ m.th \in [Threads -> ThreadRecord]
    BY BodyParts
  <2> DEFINE T == m.th
             G == m.go
  <2>2. m = [th |-> T, go |-> G] /\ T \in [Threads -> ThreadRecord] /\ t = Last(G).t /\ q = [T[t] EXCEPT !.ci = Front(T[t].ci)]
    BY <2>1
  <2> HIDE DEF T, G, q
  <2>3. [[th |-> T, go |-> G] EXCEPT !.th[t].ci = Front(@)] = [th |-> [T EXCEPT ![t] = [T[t] EXCEPT !.ci = Front(T[t].ci)]], go |-> G]
    BY ONLY <2>2
  <2> QED
    BY <2>2, <2>3 DEF T, G
<1>4. Leave(m) = Back(n)
  <2>1. ~Last(m.th[t].ci).fresh
    BY DEF Top
  <2> HIDE DEF n
  <2> QED
    BY <1>3, <2>1 DEF Leave
<1> QED
  BY <1>2, <1>4

\* The machine without the frame on top.
LEMMA PopIs ==
  ASSUME NEW m, NEW F, Body(m, F), NEW t \in Threads
  PROVE  [m EXCEPT !.th[t].ci = Front(@)]
           = [th |-> [m.th EXCEPT ![t] = [m.th[t] EXCEPT !.ci = Front(m.th[t].ci)]], go |-> m.go]
<1>1. m = [th |-> m.th, go |-> m.go] /\ m.th \in [Threads -> ThreadRecord]
  BY BodyParts
<1> DEFINE T == m.th
           G == m.go
<1>2. m = [th |-> T, go |-> G] /\ T \in [Threads -> ThreadRecord]
  BY <1>1
<1> HIDE DEF T, G
<1>3. [[th |-> T, go |-> G] EXCEPT !.th[t].ci = Front(@)] = [th |-> [T EXCEPT ![t] = [T[t] EXCEPT !.ci = Front(T[t].ci)]], go |-> G]
  BY <1>2
<1> QED
  BY <1>2, <1>3 DEF T, G

\* It returns to State.call, and protectedCall's may end with it.
LEMMA LeaveCall ==
  ASSUME NEW m, NEW F, Body(m, F), Lua(m.go), NEW t, t = Last(m.go).t, Done(m.th[t]), Top(m).fresh, Last(m.go).k = "call"
  PROVE  \E E : Good(Leave(m), E)
<1> DEFINE g == m.go
           l == Len(g)
           a == l - 1
           b == l - 2
           r == m.th[t]
           c == r.ci
           d == Front(c)
           x == IF g[l].ny THEN 1 ELSE 0
           p == [r EXCEPT !.ci = d]
           q == [p EXCEPT !.nny = p.nny - x]
           P(n) == SubSeq(g, 1, n)
           o(n) == [th |-> [m.th EXCEPT ![t] = q], go |-> P(n)]
<1>1. g # <<>>
  BY SMTT(60) DEF Lua
<1>2. /\ t \in Threads /\ r \in ThreadRecord /\ Runs(g, t) /\ FramesOk(c) /\ Listed(r, t, g) /\ Floors(c, g, F, t)
      /\ c # <<>> /\ Top(m) = c[Len(c)] /\ r.status = "ok" /\ ~r.fresh /\ ~r.death /\ r.nny = Count(g, l, t) /\ r.nny \in Nat
  BY <1>1, RunningParts
<1>3. /\ g \in Seq(Activation) /\ F \in Seq(Nat) /\ Len(F) = l /\ GoOk(g) /\ m.th \in [Threads -> ThreadRecord]
      /\ m = [th |-> m.th, go |-> m.go] /\ Last(g) = g[l] /\ l \in DOMAIN g /\ g[l] \in Activation
  BY <1>1, BodyParts
<1>4. /\ l \in Nat /\ DOMAIN g = 1 .. l /\ a \in Nat /\ a + 1 = l /\ a < l /\ (\A j \in a + 1 .. l : j = l)
      /\ l > 1 => b \in Nat /\ b + 1 = a /\ b < l /\ (\A j \in b + 1 .. l : j = l \/ j = a) /\ a \in DOMAIN g
      /\ l > 1 => l \in a + 1 .. l /\ l = a + 1
      /\ a - 1 = b /\ l - 1 = a /\ (b > 0 => b \in DOMAIN g)
      /\ (a > 0 \/ a = 0) /\ (a > 0 <=> l > 1) /\ (l > 1 => b > 0 \/ b = 0) /\ (b > 0 => a > 1)
  <2>1. l \in Nat /\ DOMAIN g = 1 .. l /\ l \in 1 .. l
    BY <1>3
  <2> HIDE DEF l, g
  <2> QED
    BY <2>1
<1>5. c \in Seq(CallInfo) /\ Len(c) \in Nat /\ d = SubSeq(c, 1, Len(c) - 1)
  <2>1. c \in Seq(CallInfo)
    BY ONLY <1>2, ThreadParts
  <2> HIDE DEF c
  <2> QED
    BY ONLY <2>1 DEF Front
<1>6. F[l] + 1 = Len(c)
  BY <1>2, <1>3, <1>5, CallTop, Zenon
<1>7. d \in Seq(CallInfo) /\ d = SubSeq(c, 1, F[l])
  <2>1. F[l] \in Nat
    BY ONLY <1>3, SMTT(60)
  <2>2. Len(c) - 1 = F[l] /\ F[l] \in 0 .. Len(c)
    BY <1>5, <1>6, <2>1, SMTT(60)
  <2> HIDE DEF c
  <2> QED
    BY <1>5, <2>2, FirstOnes
<1>8. g[l].k = "call" /\ g[l].t = t /\ g[l].ny \in BOOLEAN /\ ActivationOk(g, l)
  <2>1. g[l].k = "call" /\ g[l].t = t
    BY <1>3
  <2> QED
    BY <1>3, <2>1, ActivationParts DEF GoOk
<1>9. Count(g, a, t) = r.nny - x /\ r.nny - x \in Nat
  <2>1. Count(g, l, t) = Count(g, l - 1, t) + x
    <3>1. l \in 1 .. Len(g)
      BY <1>3, <1>4
    <3> HIDE DEF l
    <3> QED
      BY <1>3, <1>8, <3>1, CountNext
  <2>2. Count(g, a, t) \in Nat
    <3>1. a \in 0 .. Len(g)
      BY <1>4
    <3> HIDE DEF a
    <3> QED
      BY <1>3, <3>1, CountType
  <2> QED
    BY ONLY <1>2, <1>4, <2>1, <2>2
<1>10. /\ q \in ThreadRecord /\ q.ci = d /\ q.nny = r.nny - x /\ q.tbc = r.tbc /\ q.death = r.death /\ q.status = r.status /\ q.fresh = r.fresh
  <2> HIDE DEF r, d
  <2>1. p \in ThreadRecord /\ p.ci = d /\ SameRest(p, r)
    BY <1>2, <1>7, OnlyCalls
  <2>2. p.nny - x \in Nat
    BY <1>9, <2>1 DEF SameRest
  <2> HIDE DEF p, x
  <2> QED
    BY <2>1, <2>2, OnlyCount DEF SameRest
<1>11. g[l].k # "closing" /\ ~ClosesSelf(g[l]) /\ ~Begins(g[l])
  BY ONLY <1>8 DEF ClosesSelf, Begins
<1> HIDE DEF q, p, x, d
<1>12. [m EXCEPT !.th[t].ci = Front(@)] = [th |-> [m.th EXCEPT ![t] = p], go |-> g]
  BY <1>2, PopIs, ZenonT(60) DEF p, d
<1>13. \A n \in Nat : n < l /\ (\A j \in n + 1 .. l : g[j].k # "closing") => Listed(q, t, P(n))
  <2>1. ASSUME NEW n \in Nat, n < l, \A j \in n + 1 .. l : g[j].k # "closing" PROVE Listed(q, t, P(n))
    <3>1. n \in 0 .. Len(g) /\ \A j \in 1 .. l : j \in 1 .. n \/ j \in n + 1 .. l
      BY <1>4, <2>1
    <3>2. DOMAIN P(n) = 1 .. n /\ \A j \in 1 .. n : P(n)[j] = g[j]
      <4> HIDE DEF g
      <4> QED
        BY <1>3, <3>1, FirstOnes
    <3>3. \A i \in DOMAIN g : g[i].k = "closing" => i \in DOMAIN P(n) /\ P(n)[i] = g[i]
      BY <1>4, <2>1, <3>1, <3>2
    <3>4. q.ci = SubSeq(r.ci, 1, Len(r.ci) - 1) /\ q.tbc = r.tbc /\ q.death = r.death
      BY ONLY <1>5, <1>10, SMTT(60)
    <3>5. r \in ThreadRecord /\ r.ci # <<>> /\ FramesOk(r.ci) /\ Done(r) /\ Listed(r, t, g) /\ q \in ThreadRecord
      BY <1>2, <1>10
    <3> HIDE DEF r, g, P
    <3> QED
      BY <3>3, <3>4, <3>5, DropListed
  <2> QED
    BY <2>1
<1>14. Leave(m) = Back(EndCall([th |-> [m.th EXCEPT ![t] = p], go |-> g]))
  <2> DEFINE W == [m EXCEPT !.th[t].ci = Front(@)]
  <2>1. Leave(m) = Back(EndCall(W))
    <3>1. Last(m.th[t].ci).fresh
      BY DEF Top
    <3> QED
      BY <3>1 DEF Leave
  <2> HIDE DEF W
  <2> QED
    BY <1>12, <2>1 DEF W
<1>15. P(a) = Front(g) /\ (a > 0 => P(a) # <<>> /\ Last(P(a)) = g[a] /\ Front(P(a)) = P(b)) /\ (a = 0 => P(a) = <<>>)
  <2>1. a \in 0 .. Len(g) /\ (a > 0 => b \in 0 .. a /\ b = a - 1)
    BY <1>4
  <2>2. P(a) = Front(g)
    BY DEF Front
  <2> HIDE DEF g, a, b
  <2>3. P(a) \in Seq(Activation) /\ Len(P(a)) = a /\ (a > 0 => Last(P(a)) = g[a])
    BY <1>3, <2>1, FirstOnes
  <2>4. a > 0 => SubSeq(P(a), 1, b) = P(b)
    BY <1>3, <2>1, FirstOfFirst
  <2>5. a > 0 => Front(P(a)) = P(b)
    BY <2>1, <2>3, <2>4 DEF Front
  <2> HIDE DEF P
  <2>6. (a > 0 => P(a) # <<>>) /\ (a = 0 => P(a) = <<>>)
    BY ONLY <2>3, SMTT(60)
  <2> QED
    BY <2>2, <2>3, <2>5, <2>6 DEF P
<1>16. EndCall([th |-> [m.th EXCEPT ![t] = p], go |-> g])
         = [th |-> [m.th EXCEPT ![t] = q], go |-> IF a > 0 /\ g[a].k = "protect" THEN P(b) ELSE P(a)]
  <2>1. [[m.th EXCEPT ![t] = p] EXCEPT ![g[l].t].nny = @ - x] = [m.th EXCEPT ![t] = q]
    <3>1. g[l].t = t /\ m.th \in [Threads -> ThreadRecord] /\ t \in Threads
      BY <1>2, <1>3, <1>8
    <3> DEFINE T == m.th
    <3> HIDE DEF T, g, l
    <3>2. [[T EXCEPT ![t] = p] EXCEPT ![t].nny = @ - x] = [T EXCEPT ![t] = [p EXCEPT !.nny = p.nny - x]]
      BY <3>1 DEF T
    <3> QED
      BY <3>1, <3>2 DEF q, T
  <2>2. a > 0 \/ a = 0
    <3> HIDE DEF a
    <3> QED
      BY <1>4
  <2>3. Front(g) # <<>> /\ Last(Front(g)).k = "protect" <=> a > 0 /\ g[a].k = "protect"
    <3> HIDE DEF P, a, g
    <3> QED
      BY <1>15, <2>2
  <2> DEFINE U == [m.th EXCEPT ![t] = p]
  <2>4. EndCall([th |-> U, go |-> g])
          = [th |-> [U EXCEPT ![g[l].t].nny = @ - x],
             go |-> IF Front(g) # <<>> /\ Last(Front(g)).k = "protect" THEN Front(Front(g)) ELSE Front(g)]
    <3> HIDE DEF U
    <3> QED
      BY <1>3 DEF EndCall, x
  <2> QED
    BY <1>15, <2>1, <2>3, <2>4
<1>17. CASE a > 0 /\ g[a].k = "protect"
  <2>1. l > 1
    BY <1>4, <1>17
  <2>2. g[a].t = t /\ Halts(g[a]) /\ Protects(g[a]) /\ ~ClosesSelf(g[a]) /\ ~Begins(g[a]) /\ ~Ends(g[a])
    <3>1. g[a].t = t
      BY ONLY <1>4, <1>8, <1>11, <2>1, SMTT(60) DEF ActivationOk
    <3> QED
      BY <1>17, <3>1 DEF Halts, Protects, ClosesSelf, Begins, Ends
  <2>3. F[a] = F[l]
    <3>1. Live(g, a)
      BY ONLY <1>4, <1>11, SMTT(60) DEF Live
    <3>2. FloorOk(c, g, F, t, a)
      BY <1>2, <1>4, <2>1, <2>2, <3>1 DEF Floors
    <3> QED
      BY <1>4, <1>8, <2>1, <2>2, <3>2 DEF FloorOk
  <2>4. Count(g, b, t) = Count(g, a, t)
    <3>1. a \in 1 .. Len(g)
      BY <1>4, <2>1
    <3>2. Count(g, a, t) = Count(g, a - 1, t)
      <4> HIDE DEF a
      <4> QED
        BY <1>3, <2>2, <3>1, CountNext
    <3> QED
      BY <1>4, <3>2
  <2>5. Listed(q, t, P(b))
    <3>1. \A j \in b + 1 .. l : g[j].k # "closing"
      BY <1>4, <1>11, <1>17, <2>1
    <3> QED
      BY <1>4, <1>13, <2>1, <3>1
  <2>6. Body(o(b), SubSeq(F, 1, b))
    <3>1. \A j \in b + 1 .. Len(m.go) : m.go[j].t = t /\ ~ClosesSelf(m.go[j])
      BY <1>4, <1>8, <1>11, <2>1, <2>2
    <3>2. b \in Nat /\ b < Len(m.go) /\ b + 1 = a
      BY <1>4, <2>1
    <3>3. ~Begins(m.go[b + 1]) /\ q.ci = SubSeq(m.th[t].ci, 1, F[b + 1])
      BY <1>7, <1>10, <2>2, <2>3, <3>2
    <3>4. q.nny = Count(m.go, b, t) /\ Listed(q, t, SubSeq(m.go, 1, b))
      BY <1>9, <1>10, <2>4, <2>5
    <3> HIDE DEF b
    <3> QED
      BY <1>2, <1>10, <3>1, <3>2, <3>3, <3>4, PieceCut, ZenonT(60)
  <2>7. P(b) = <<>> \/ Last(P(b)).k # "protect"
    <3>1. P(b) \in Seq(Activation) /\ Len(P(b)) = b /\ (b > 0 => Last(P(b)) = g[b])
      <4>1. b \in 0 .. Len(g)
        BY <1>4, <2>1
      <4> HIDE DEF b, g
      <4> QED
        BY <1>3, <4>1, FirstOnes
    <3>2. b > 0 => g[b].k \in {"call", "resume"}
      <4>1. ActivationOk(g, a) /\ (b > 0 => a > 1) /\ a - 1 = b
        <5> HIDE DEF a, b, l
        <5> QED
          BY <1>3, <1>4, <2>1 DEF GoOk
      <4> QED
        BY <1>17, <4>1 DEF ActivationOk
    <3> HIDE DEF P, b, l
    <3>3. b > 0 \/ b = 0
      BY <1>4, <2>1
    <3> QED
      BY <3>1, <3>2, <3>3
  <2>8. Good(Back(o(b)), SubSeq(F, 1, b))
    <3> DEFINE s == o(b)
               E == SubSeq(F, 1, b)
    <3>1. s.go = P(b)
      OBVIOUS
    <3> HIDE DEF s, E, P
    <3>2. Good(Back(s), E)
      <4>1. Body(s, E)
        BY <2>6 DEF s, E, P
      <4> QED
        BY <2>7, <3>1, <4>1, BackBody
    <3> QED
      BY <3>2 DEF s, E, P
  <2> QED
    BY <1>14, <1>16, <1>17, <2>8
<1>18. CASE ~(a > 0 /\ g[a].k = "protect")
  <2>1. Listed(q, t, P(a))
    <3>1. \A j \in a + 1 .. l : g[j].k # "closing"
      BY ONLY <1>4, <1>11
    <3> QED
      BY <1>4, <1>13, <3>1
  <2>2. Body(o(a), SubSeq(F, 1, a))
    <3>1. \A j \in a + 1 .. Len(m.go) : m.go[j].t = t /\ ~ClosesSelf(m.go[j])
      BY <1>4, <1>8, <1>11
    <3>2. a \in Nat /\ a < Len(m.go) /\ a + 1 = l
      BY <1>4
    <3>3. ~Begins(m.go[a + 1]) /\ q.ci = SubSeq(m.th[t].ci, 1, F[a + 1])
      BY <1>7, <1>10, <1>11, <3>2
    <3>4. q.nny = Count(m.go, a, t) /\ Listed(q, t, SubSeq(m.go, 1, a))
      BY <1>9, <1>10, <2>1
    <3> HIDE DEF a
    <3> QED
      BY <1>2, <1>10, <3>1, <3>2, <3>3, <3>4, PieceCut, ZenonT(60)
  <2>3. P(a) = <<>> \/ Last(P(a)).k # "protect"
    <3> HIDE DEF P, a, g
    <3>1. a > 0 \/ a = 0
      BY <1>4
    <3> QED
      BY ONLY <1>15, <1>18, <3>1, SMTT(60)
  <2>4. Good(Back(o(a)), SubSeq(F, 1, a))
    <3> DEFINE s == o(a)
               E == SubSeq(F, 1, a)
    <3>1. s.go = P(a)
      OBVIOUS
    <3> HIDE DEF s, E, P
    <3>2. Good(Back(s), E)
      <4>1. Body(s, E)
        BY <2>2 DEF s, E, P
      <4> QED
        BY <2>3, <3>1, <4>1, BackBody
    <3> QED
      BY <3>2 DEF s, E, P
  <2> QED
    BY <1>14, <1>16, <1>18, <2>4
<1> QED
  BY <1>17, <1>18

\* A coroutine leaves Go's stack.
Without(m, t, i, q) == [th |-> [m.th EXCEPT ![t] = q], go |-> SubSeq(m.go, 1, i - 1)]
\* What runs on waits for a call.
Calls(m) == Top(m).op = "call"

\* Thread t leaves Go's stack from its first activation, at i, on, with record
\* q, and what is below waits for a call.
Departs(m, F, t, i, q) ==
  /\ Begins(m.go[i]) /\ \A j \in i .. Len(m.go) : m.go[j].t = t
  /\ Body(Without(m, t, i, q), SubSeq(F, 1, i - 1)) /\ ~On(Without(m, t, i, q).go, t) /\ t \in Coroutines /\ t # Main
  /\ Lua(Without(m, t, i, q).go) /\ Calls(Without(m, t, i, q)) /\ Without(m, t, i, q).th[t] = q

\* A thread whose activations are all dropped does.
LEMMA DepartsIs ==
  ASSUME NEW m, NEW F, Body(m, F), NEW t, NEW i \in 1 .. Len(m.go), Begins(m.go[i]), \A j \in i .. Len(m.go) : m.go[j].t = t,
         NEW q \in ThreadRecord, FramesOk(q.ci), OffGo(q, t), ~q.fresh, Listed(q, t, SubSeq(m.go, 1, i - 1))
  PROVE  Departs(m, F, t, i, q)
<1> DEFINE g == m.go
           n == i - 1
           h == SubSeq(g, 1, n)
           E == SubSeq(F, 1, n)
           o == [th |-> [m.th EXCEPT ![t] = q], go |-> h]
<1>1. g \in Seq(Activation) /\ F \in Seq(Nat) /\ Len(F) = Len(g) /\ GoOk(g) /\ m.th \in [Threads -> ThreadRecord]
      /\ (g # <<>> => Last(g).t \in Threads /\ Last(g) = g[Len(g)])
  BY BodyParts
<1>2. /\ Len(g) \in Nat /\ DOMAIN g = 1 .. Len(g) /\ n \in Nat /\ n < Len(g) /\ n \in 0 .. Len(g) /\ g # <<>> /\ i \in DOMAIN g
      /\ n + 1 = i /\ (\A j \in n + 1 .. Len(g) : j \in i .. Len(g)) /\ i \in i .. Len(g) /\ 1 .. n \subseteq DOMAIN g
      /\ (i > 1 <=> n > 0) /\ (i # 1 => i > 1) /\ Len(g) \in i .. Len(g)
  BY ONLY <1>1, SMTT(60)
<1>3. h \in Seq(Activation) /\ Len(h) = n /\ DOMAIN h = 1 .. n /\ (\A j \in 1 .. n : h[j] = g[j]) /\ (n > 0 => Last(h) = g[n] /\ h # <<>>)
  <2> HIDE DEF g, n
  <2>1. h \in Seq(Activation) /\ Len(h) = n /\ DOMAIN h = 1 .. n /\ (\A j \in 1 .. n : h[j] = g[j]) /\ (n > 0 => Last(h) = g[n])
    BY <1>1, <1>2, FirstOnes
  <2> HIDE DEF h
  <2> QED
    BY <2>1
<1>4. g[i].t = t /\ Last(g).t = t /\ t \in Threads
  BY <1>1, <1>2
<1>5. ActivationOk(g, i) /\ i > 1
  <2>1. ActivationOk(g, i) /\ Hosts(g[1])
    BY <1>1, <1>2 DEF GoOk
  <2>2. i # 1
    BY <2>1 DEF Hosts, Begins, Protects
  <2> QED
    BY <1>2, <2>1, <2>2
<1> HIDE DEF n
<1>6. (\A j \in 1 .. n : g[j].t # t) /\ g[n].k \in {"call", "resume"}
  BY <1>4, <1>5 DEF ActivationOk, Begins, n
<1>7. t # Main /\ t \in Coroutines
  <2>1. g[1].t = Main /\ 1 \in 1 .. n
    BY <1>1, <1>2, <1>5 DEF GoOk, Hosts
  <2> QED
    BY <1>4, <1>6, <2>1 DEF Threads
<1>8. ~On(h, t)
  BY <1>3, <1>6 DEF On
<1>9. Lua(h) /\ n > 0
  BY <1>2, <1>3, <1>5, <1>6 DEF Lua
<1>10. Body(o, E)
  <2>1. ThreadOk(q, t, h, E)
    BY <1>8 DEF ThreadOk, n
  <2> QED
    BY <1>2, <2>1, CutStep
<1>11. Top(o).op = "call"
  <2> DEFINE s == g[n].t
  <2>1. n \in 1 .. n /\ n \in DOMAIN g
    BY <1>2, <1>9
  <2>2. s \in Threads /\ s # t /\ On(g, s) /\ ~Runs(g, s)
    BY <1>1, <1>4, <1>6, <2>1, ActivationParts DEF On, Runs
  <2>3. Waits(m.th[s].ci)
    BY <2>2, BodyParts DEF ThreadOk, OnGo
  <2>4. o.th[s] = m.th[s] /\ Last(o.go).t = s
    BY <1>1, <1>3, <1>9, <2>2
  <2> QED
    BY <2>3, <2>4 DEF Top, Waits
<1>12. o.th[t] = q
  BY <1>1, <1>4
<1>13. Without(m, t, i, q) = o
  BY DEF Without, n
<1>14. o.go = h /\ E = SubSeq(F, 1, i - 1)
  BY DEF n
<1> HIDE DEF o, h, E
<1> QED
  BY <1>7, <1>8, <1>9, <1>10, <1>11, <1>12, <1>13, <1>14 DEF Departs, Calls

\* It is off the stack then.
LEMMA DropThread ==
  ASSUME NEW m, NEW F, Body(m, F), NEW t, NEW i \in 1 .. Len(m.go), Begins(m.go[i]), \A j \in i .. Len(m.go) : m.go[j].t = t,
         NEW q \in ThreadRecord, FramesOk(q.ci), OffGo(q, t), ~q.fresh, Listed(q, t, SubSeq(m.go, 1, i - 1))
  PROVE  LET o == Without(m, t, i, q) IN
         /\ Body(o, SubSeq(F, 1, i - 1)) /\ ~On(o.go, t) /\ t \in Coroutines /\ t # Main
         /\ Lua(o.go) /\ Calls(o) /\ o.th[t] = q
<1>1. Departs(m, F, t, i, q)
  BY DepartsIs
<1> QED
  BY <1>1 DEF Departs

\* A coroutine's first function returns, and Resume with it; or unroll goes on.
LEMMA ReturnIs ==
  ASSUME NEW m, NEW F, Body(m, F), Lua(m.go), NEW t, t = Last(m.go).t, Done(m.th[t]), Top(m).fresh, Last(m.go).k = "resume"
  PROVE  \/ Good(Leave(m), F) /\ Leave(m).go = m.go
         \/ \E q \in ThreadRecord :
              /\ q.status = "ok" /\ q.ci = <<>> /\ ~q.fresh
              /\ Len(m.go) \in 1 .. Len(m.go) /\ Departs(m, F, t, Len(m.go), q)
              /\ Leave(m) = Back(Without(m, t, Len(m.go), q))
<1> DEFINE g == m.go
           l == Len(g)
           r == m.th[t]
           c == r.ci
           d == Front(c)
           e == Last(g)
           p == [r EXCEPT !.ci = d]
           n == [th |-> [m.th EXCEPT ![t] = p], go |-> g]
<1>1. g # <<>>
  BY SMTT(60) DEF Lua
<1>2. /\ t \in Threads /\ r \in ThreadRecord /\ Runs(g, t) /\ FramesOk(c) /\ Listed(r, t, g)
      /\ c # <<>> /\ r.status = "ok" /\ ~r.fresh /\ ~r.death
  BY <1>1, RunningParts
<1>3. /\ g \in Seq(Activation) /\ F \in Seq(Nat) /\ Len(F) = l /\ GoOk(g) /\ m.th \in [Threads -> ThreadRecord]
      /\ e = g[l] /\ l \in DOMAIN g /\ e \in Activation
  BY <1>1, BodyParts
<1>4. c \in Seq(CallInfo) /\ Len(c) \in Nat /\ d \in Seq(CallInfo) /\ d = SubSeq(c, 1, Len(c) - 1) /\ Len(d) = Len(c) - 1
  <2>1. c \in Seq(CallInfo)
    BY <1>2, ThreadParts
  <2>2. c # <<>>
    BY <1>2
  <2> HIDE DEF c
  <2>3. Len(c) \in Nat /\ Len(c) - 1 \in 0 .. Len(c)
    BY <2>1, <2>2
  <2> QED
    BY ONLY <2>1, <2>3, FirstOnes DEF Front
<1>5. p \in ThreadRecord /\ p.ci = d /\ SameRest(p, r)
  <2> HIDE DEF r, d
  <2> QED
    BY <1>2, <1>4, OnlyCalls
<1>6. [m EXCEPT !.th[t].ci = Front(@)] = n
  BY <1>2, PopIs, SMTT(60)
<1>7. n.th[t] = p /\ n.go = g /\ [n.th EXCEPT ![t].nny = e.nny] = [m.th EXCEPT ![t] = [p EXCEPT !.nny = e.nny]]
  <2> HIDE DEF p, e, g
  <2> QED
    BY <1>2, <1>3
<1>8. Leave(m) = Back(IF p.ci # <<>> THEN n ELSE [th |-> [n.th EXCEPT ![t].nny = e.nny], go |-> Front(g)])
  <2>1. Last(m.th[Last(m.go).t].ci).fresh /\ Last(m.go).k # "call"
    BY DEF Top
  <2> DEFINE W == [m EXCEPT !.th[t].ci = Front(@)]
  <2>2. Leave(m) = Back(IF W.th[t].ci # <<>> THEN W ELSE [th |-> [W.th EXCEPT ![t].nny = Last(m.go).nny], go |-> Front(W.go)])
    BY <2>1 DEF Leave
  <2> HIDE DEF W, n, p
  <2>3. W = n
    BY ONLY <1>6 DEF W
  <2> QED
    BY <1>7, <2>2, <2>3
<1>9. CASE d # <<>>
  <2>1. Len(c) > 1
    <3> HIDE DEF d, c
    <3>1. Len(d) # 0
      BY ONLY <1>4, <1>9
    <3> QED
      BY <1>4, <3>1
  <2>2. Body(n, F) /\ Lua(n.go)
    BY <2>1, DropBody, SMTT(60)
  <2>3. Good(Back(n), F) /\ Back(n).go = g
    <3>0. n.go = g
      BY <1>7
    <3> HIDE DEF n
    <3>1. n.go = <<>> \/ Last(n.go).k # "protect"
      BY <2>2 DEF Lua
    <3> QED
      BY ONLY <2>2, <3>0, <3>1, BackBody
  <2>4. Leave(m) = Back(n)
    BY <1>5, <1>8, <1>9
  <2> HIDE DEF n
  <2> QED
    BY <2>3, <2>4
<1>10. CASE d = <<>>
  <2> DEFINE q == [p EXCEPT !.nny = e.nny]
             h == SubSeq(g, 1, l - 1)
             o == [th |-> [m.th EXCEPT ![t] = q], go |-> h]
  <2>1. /\ q \in ThreadRecord /\ q.ci = <<>> /\ q.tbc = r.tbc /\ q.status = "ok" /\ ~q.fresh /\ ~q.death /\ q.death = r.death
    <3>1. e.nny \in Nat
      BY <1>3, ActivationParts
    <3> HIDE DEF p, e, d
    <3> QED
      BY <1>2, <1>5, <1>10, <3>1, OnlyCount DEF SameRest
  <2>2. e.t = t /\ Begins(g[l]) /\ t # Main
    <3>1. e.t = t /\ e.t \in Coroutines
      BY <1>3, ActivationParts, SMTT(60)
    <3> QED
      BY <1>3, <3>1, ThreadsAssumption DEF Begins
  <2> HIDE DEF q
  <2>3. l \in 1 .. Len(g) /\ (\A j \in l .. Len(g) : g[j].t = t) /\ l - 1 \in Nat /\ \A j \in DOMAIN g : j = l \/ j \in 1 .. l - 1
    <3>1. l \in Nat /\ l \in 1 .. l /\ DOMAIN g = 1 .. l
      BY <1>3
    <3>2. g[l].t = t
      BY <1>3, <2>2
    <3> HIDE DEF g
    <3>3. \A j \in l .. l : j = l
      <4> HIDE DEF l
      <4> QED
        BY <3>1
    <3>4. (\A j \in 1 .. l : j = l \/ j \in 1 .. l - 1) /\ l - 1 \in Nat
      <4> HIDE DEF l
      <4> QED
        BY <3>1
    <3> QED
      BY <3>1, <3>2, <3>3, <3>4
  <2>4. Listed(q, t, h)
    <3>1. DOMAIN h = 1 .. l - 1 /\ \A j \in 1 .. l - 1 : h[j] = g[j]
      <4>1. l - 1 \in 0 .. Len(g)
        BY <2>3
      <4> HIDE DEF g, l
      <4> QED
        BY <1>3, <4>1, FirstOnes
    <3>2. g[l].k # "closing"
      BY <1>3
    <3>3. \A j \in DOMAIN g : g[j].k = "closing" => j \in DOMAIN h /\ h[j] = g[j]
      <4> HIDE DEF h, g, l
      <4> QED
        BY ONLY <2>3, <3>1, <3>2
    <3>4. r \in ThreadRecord /\ r.ci # <<>> /\ FramesOk(r.ci) /\ Done(r) /\ Listed(r, t, g)
      BY <1>2, SMTT(60)
    <3>5. q.ci = SubSeq(r.ci, 1, Len(r.ci) - 1)
      BY <1>4, <1>10, <2>1
    <3> HIDE DEF r, g, h
    <3> QED
      BY <2>1, <3>3, <3>4, <3>5, DropListed
  <2>5. FramesOk(q.ci) /\ OffGo(q, t)
    <3>1. FramesOk(<<>>)
      BY DEF FramesOk
    <3>2. OffGo(q, t)
      BY <2>1, <2>2 DEF OffGo
    <3> QED
      BY <2>1, <3>1, <3>2
  <2>6. o = Without(m, t, l, q)
    BY DEF Without
  <2>7. Departs(m, F, t, l, q)
    <3> HIDE DEF o, h, r, c
    <3>1. Body(m, F) /\ q \in ThreadRecord /\ ~q.fresh /\ Listed(q, t, SubSeq(m.go, 1, l - 1)) /\ l \in 1 .. Len(m.go) /\ Begins(m.go[l]) /\ \A j \in l .. Len(m.go) : m.go[j].t = t
      BY <2>1, <2>2, <2>3, <2>4 DEF h
    <3> HIDE DEF l, g
    <3> QED
      BY ONLY <2>5, <3>1, DepartsIs
  <2>8. o = [th |-> [n.th EXCEPT ![t].nny = e.nny], go |-> Front(g)]
    <3>1. Front(g) = h
      BY DEF Front
    <3> HIDE DEF h, n, g, p, e
    <3> QED
      BY <1>7, <3>1 DEF q
  <2> HIDE DEF o, n, p, d, l
  <2>9. Leave(m) = Back(o)
    BY <1>5, <1>8, <1>10, <2>8
  <2> QED
    BY <2>1, <2>3, <2>6, <2>7, <2>9 DEF l
<1> QED
  BY <1>9, <1>10

\* Whatever it does, the machine is in order.
LEMMA LeaveResume ==
  ASSUME NEW m, NEW F, Body(m, F), Lua(m.go), NEW t, t = Last(m.go).t, Done(m.th[t]), Top(m).fresh, Last(m.go).k = "resume"
  PROVE  \E E : Good(Leave(m), E)
<1>1. ASSUME NEW q \in ThreadRecord, Departs(m, F, t, Len(m.go), q), Leave(m) = Back(Without(m, t, Len(m.go), q))
      PROVE  \E E : Good(Leave(m), E)
  <2> DEFINE o == Without(m, t, Len(m.go), q)
             D == SubSeq(F, 1, Len(m.go) - 1)
  <2>1. Body(o, D) /\ Lua(o.go) /\ Leave(m) = Back(o)
    BY <1>1 DEF Departs
  <2> HIDE DEF o, D
  <2>2. o.go = <<>> \/ Last(o.go).k # "protect"
    BY <2>1 DEF Lua
  <2>3. Good(Back(o), D)
    BY <2>1, <2>2, BackBody
  <2> QED
    BY <2>1, <2>3
<1> QED
  BY <1>1, ReturnIs

-----------------------------------------------------------------------------
(* Closing threads.                                                        *)

\* The record of a thread that CloseThread has reset.
LEMMA ClosedIs ==
  ASSUME NEW r \in ThreadRecord
  PROVE  LET q == [r EXCEPT !.status = "ok", !.death = FALSE, !.fresh = FALSE, !.ci = <<>>, !.nny = 1]
         IN /\ q \in ThreadRecord /\ q.status = "ok" /\ q.death = FALSE /\ q.fresh = FALSE /\ q.ci = <<>> /\ q.nny = 1
            /\ q.tbc = r.tbc
<1>1. <<>> \in Seq(CallInfo) /\ 1 \in Nat
  OBVIOUS
<1> QED
  BY <1>1 DEF ThreadRecord

\* Variables that lie somewhere are at or above level 1.
LEMMA LevelsAre ==
  ASSUME NEW r \in ThreadRecord
  PROVE  \A i \in DOMAIN r.tbc : r.tbc[i].level \in Nat /\ r.tbc[i].level >= 1 /\ r.tbc[i].base \in Nat /\ r.tbc[i].base >= 1
<1> DEFINE s == r.tbc
           V == [level : Nat \ {0}, base : Nat \ {0}, id : Variables]
<1>1. s \in Seq(V)
  BY ThreadParts
<1>2. \A v \in V : v.level \in Nat /\ v.level >= 1 /\ v.base \in Nat /\ v.base >= 1
  OBVIOUS
<1> HIDE DEF s, V
<1>3. \A i \in DOMAIN s : s[i] \in V
  BY <1>1
<1>4. \A i \in DOMAIN s : s[i].level \in Nat /\ s[i].level >= 1 /\ s[i].base \in Nat /\ s[i].base >= 1
  BY <1>2, <1>3
<1> QED
  BY <1>4 DEF s

\* A thread under CloseThread's loop, which closes all its variables.
LEMMA ClosedOk ==
  ASSUME NEW g \in Seq(Activation), NEW F \in Seq(Nat), Len(F) = Len(g), NEW t,
         NEW e \in Activation, e.t = t, Ends(e), e.ci = <<>>, e.level = 1,
         \A i \in DOMAIN g : g[i].t = t => ClosesSelf(e) /\ (g[i].k = "resume" \/ Ends(g[i]) => F[i] = 0),
         NEW r \in ThreadRecord, NEW h, Listed(r, t, h), NEW q \in ThreadRecord, q.tbc = r.tbc, q.ci = <<>>, q.nny = 1,
         q.status # "yield", q.status = "error" => q.tbc = <<>>, ~q.death, ~q.fresh
  PROVE  ThreadOk(q, t, Append(g, e), Append(F, 0))
<1> DEFINE l == Append(g, e)
           E == Append(F, 0)
           n == Len(g) + 1
<1>1. l \in Seq(Activation) /\ Len(l) = n /\ n \in 1 .. n /\ DOMAIN l = 1 .. n /\ l[n] = e /\ Last(l) = e /\ l # <<>> /\ E[n] = 0
  <2>1. Len(g) + 1 \in 1 .. Len(g) + 1 /\ Append(F, 0)[Len(F) + 1] = 0
    BY OneMore
  <2> QED
    BY <2>1, OneMore
<1>2. Floors(<<>>, l, E, t)
  BY FloorsClosed
<1> HIDE DEF l, E, n
<1>3. Runs(l, t) /\ ~Lua(l) /\ On(l, t)
  BY <1>1 DEF Runs, Lua, On, Ends
<1>4. Count(l, Len(l), t) = 1
  BY <1>1, CountNext
<1>5. Listed(q, t, l)
  <2>1. \A i \in DOMAIN r.tbc : r.tbc[i].level >= 1
    BY LevelsAre
  <2>2. e.k = "closing"
    BY DEF Ends
  <2>3. \A i \in DOMAIN r.tbc : Covered(q, t, l, r.tbc[i])
    BY <1>1, <2>1, <2>2 DEF Covered
  <2> QED
    BY <2>3, CoveredStill
<1>6. FramesOk(<<>>) /\ Len(<<>>) = 0
  BY DEF FramesOk
<1>7. OnGo(q, t, l, E)
  <2>1. Ends(Last(l)) /\ Len(q.ci) = E[Len(l)]
    BY <1>1, <1>6
  <2> QED
    BY <1>2, <1>3, <1>4, <2>1 DEF OnGo
<1>8. ThreadOk(q, t, l, E)
  BY <1>3, <1>5, <1>6, <1>7 DEF ThreadOk
<1> QED
  BY <1>8 DEF l, E

\* CloseThread, of a coroutine that is not in progress.
LEMMA CloseBegin ==
  ASSUME NEW m, NEW F, Body(m, F), Lua(m.go), Top(m).op = "call", NEW co \in Coroutines, ~On(m.go, co),
         NEW then \in {"close", "wrap"}
  PROVE  \E E : Good(CloseThread(m, co, then), E)
<1> DEFINE r == m.th[co]
           q == [r EXCEPT !.status = "ok", !.death = FALSE, !.fresh = FALSE, !.ci = <<>>, !.nny = 1]
           e == [k |-> "closing", t |-> co, ci |-> <<>>, nny |-> 1, level |-> 1, err |-> r.death, then |-> then]
           h == Append(m.go, e)
           E == Append(F, 0)
           o == [th |-> [m.th EXCEPT ![co] = q], go |-> h]
<1>1. co \in Threads /\ co # Main
  BY ThreadsAssumption DEF Threads
<1>2. /\ m.go \in Seq(Activation) /\ F \in Seq(Nat) /\ Len(F) = Len(m.go) /\ m.th \in [Threads -> ThreadRecord]
      /\ r \in ThreadRecord /\ ThreadOk(r, co, m.go, F)
  BY <1>1, BodyParts
<1>3. /\ q \in ThreadRecord /\ q.status = "ok" /\ q.death = FALSE /\ q.fresh = FALSE /\ q.ci = <<>> /\ q.nny = 1
      /\ q.tbc = r.tbc
  <2> HIDE DEF r
  <2> QED
    BY <1>2, ClosedIs
<1>4. e \in Activation /\ e.t = co /\ e.ci = <<>> /\ e.level = 1 /\ e.nny = 1 /\ e.k = "closing" /\ e.then = then
  <2>1. r.death \in BOOLEAN /\ <<>> \in Seq(CallInfo)
    BY <1>2, ThreadParts
  <2> HIDE DEF r
  <2> QED
    BY <1>1, <2>1 DEF Activation
<1> HIDE DEF q, e
<1>5. Ends(e) /\ Begins(e)
  BY <1>4 DEF Ends, Begins
<1>6. ThreadOk(q, co, h, E)
  <2>1. \A i \in DOMAIN m.go : m.go[i].t # co
    BY DEF On
  <2>2. Listed(r, co, m.go)
    BY <1>2 DEF ThreadOk
  <2> QED
    BY <1>2, <1>3, <1>4, <1>5, <2>1, <2>2, ClosedOk
<1>7. Body(o, E)
  BY <1>1, <1>3, <1>4, <1>5, <1>6, BeginStep
<1>8. Last(o.go) = e /\ ~Lua(o.go)
  <2>1. Last(h) = e
    BY <1>2, <1>4, OneMore
  <2> HIDE DEF h
  <2> QED
    BY <1>4, <2>1 DEF Lua
<1>9. o = CloseThread(m, co, then)
  BY DEF CloseThread, q, e
<1> HIDE DEF o, E
<1>10. Good(o, E)
  BY <1>4, <1>7, <1>8 DEF Good
<1> QED
  BY <1>9, <1>10

\* CloseRunning, of the coroutine that runs.
LEMMA CloseSelf ==
  ASSUME NEW m, NEW F, Body(m, F), Lua(m.go), NEW co, co = Last(m.go).t, co # Main,
         \A i \in DOMAIN m.go : m.go[i].t = co =>
           /\ ~(m.go[i].k = "closing" /\ m.go[i].then = "pcall")
           /\ m.go[i].k = "resume" /\ m.go[i].loop => "closeRecovered" \in Uses
  PROVE  \E E : Good(CloseThread(m, co, "self"), E)
<1> DEFINE r == m.th[co]
           g == m.go
           l == Len(g)
           n == l + 1
           q == [r EXCEPT !.status = "ok", !.death = FALSE, !.fresh = FALSE, !.ci = <<>>, !.nny = 1]
           e == [k |-> "closing", t |-> co, ci |-> <<>>, nny |-> 1, level |-> 1, err |-> r.death, then |-> "self"]
           h == Append(g, e)
           E == Append(F, 0)
           o == [th |-> [m.th EXCEPT ![co] = q], go |-> h]
<1>1. g # <<>>
  BY DEF Lua
<1>2. /\ g \in Seq(Activation) /\ F \in Seq(Nat) /\ Len(F) = Len(g) /\ m.th \in [Threads -> ThreadRecord] /\ GoOk(g)
      /\ l \in DOMAIN g /\ Last(g) = g[l]
  BY <1>1, BodyParts
<1>3. co \in Threads /\ r \in ThreadRecord /\ Listed(r, co, g) /\ Floors(r.ci, g, F, co)
  BY <1>1, RunningParts
<1>4. /\ q \in ThreadRecord /\ q.status = "ok" /\ q.death = FALSE /\ q.fresh = FALSE /\ q.ci = <<>> /\ q.nny = 1
      /\ q.tbc = r.tbc
  <2> HIDE DEF r
  <2> QED
    BY <1>3, ClosedIs
<1>5. /\ e \in Activation /\ e.t = co /\ e.ci = <<>> /\ e.level = 1 /\ e.nny = 1 /\ e.k = "closing" /\ e.then = "self"
  <2>1. r.death \in BOOLEAN /\ <<>> \in Seq(CallInfo)
    BY <1>3, ThreadParts
  <2> HIDE DEF r
  <2> QED
    BY <1>3, <2>1 DEF Activation
<1>6. l \in Nat /\ l > 0 /\ DOMAIN g = 1 .. l /\ n - 1 = l /\ n > 1
  BY <1>1, <1>2
<1> HIDE DEF q, e
<1>7. Ends(e) /\ ClosesSelf(e) /\ ~Begins(e) /\ ~Protects(e) /\ e.k # "call"
  BY ONLY <1>5, SMTT(60) DEF Ends, ClosesSelf, Begins, Protects
<1>8. ThreadOk(q, co, h, E)
  <2>1. \A i \in DOMAIN g : g[i].t = co => ClosesSelf(e) /\ (g[i].k = "resume" \/ Ends(g[i]) => F[i] = 0)
    BY <1>3, <1>7 DEF Floors
  <2> QED
    BY <1>2, <1>3, <1>4, <1>5, <1>7, <2>1, ClosedOk
<1>9. h \in Seq(Activation) /\ Len(h) = n /\ h[n] = e /\ (\A j \in 1 .. l : h[j] = g[j]) /\ Last(h) = e /\ h # <<>>
      /\ E \in Seq(Nat) /\ Len(E) = Len(h)
  <2> HIDE DEF g
  <2> QED
    BY <1>2, <1>5, OneMore
<1> HIDE DEF n, l, h, E
<1>10. ActivationOk(h, n)
  <2>1. ~(n < Len(h)) /\ h[n - 1] = g[l]
    BY <1>6, <1>9
  <2>2. g[l].k \in {"call", "resume"} /\ g[l].t = co
    BY <1>2 DEF Lua
  <2>3. \A j \in 1 .. n - 1 : h[j] = g[j] /\ j \in DOMAIN g
    BY <1>6, <1>9
  <2> QED
    BY <1>5, <1>7, <1>9, <2>1, <2>2, <2>3 DEF ActivationOk
<1>11. GoOk(h)
  <2>1. Hosts(g[1]) /\ ~Halts(Last(g)) /\ \A i \in DOMAIN g : ActivationOk(g, i)
    BY <1>1, <1>2 DEF GoOk, Lua, Halts
  <2> QED
    BY <1>1, <1>2, <1>5, <1>10, <2>1, GoMore DEF h, n, l
<1>12. \A s \in Threads \ {co} : SameView(g, F, h, E, s) /\ ~Runs(g, s) /\ ~Runs(h, s)
  <2>1. \A s \in Threads \ {co} : SameView(g, F, h, E, s)
    BY ONLY <1>2, <1>5, ViewMore DEF h, E
  <2> QED
    BY <1>5, <1>9, <2>1 DEF Runs
<1>13. Body(o, E)
  BY <1>3, <1>4, <1>8, <1>9, <1>11, <1>12, BodyStep
<1>14. Last(o.go) = e /\ ~Lua(o.go)
  BY <1>5, <1>9 DEF Lua
<1>15. o = CloseThread(m, co, "self")
  BY DEF CloseThread, q, e, h
<1> HIDE DEF o
<1>16. Good(o, E)
  BY <1>5, <1>13, <1>14 DEF Good
<1> QED
  BY <1>15, <1>16

\* auxResume's caller takes an error of a coroutine that has left Go's stack.
LEMMA ResumeFailedBody ==
  ASSUME NEW m, NEW F, Body(m, F), Lua(m.go), Top(m).op = "call", NEW co \in Coroutines, ~On(m.go, co), NEW wrap
  PROVE  \E E : Good(ResumeFailed(m, co, wrap), E)
<1>1. CASE wrap /\ m.th[co].status = "error"
  <2>1. \E E : Good(CloseThread(m, co, "wrap"), E)
    BY CloseBegin
  <2> QED
    BY <1>1, <2>1 DEF ResumeFailed
<1>2. CASE ~(wrap /\ m.th[co].status = "error")
  <2>1. Good(Back(m), F)
    BY BackBody DEF Lua
  <2> QED
    BY <1>2, <2>1 DEF ResumeFailed
<1> QED
  BY <1>1, <1>2

-----------------------------------------------------------------------------
(* Panics.                                                                 *)

\* The innermost activation that recovers a panic.
LEMMA CatchIs ==
  ASSUME NEW g \in Seq(Activation), NEW kind, NEW b \in 1 .. Len(g), Catches(g[b], kind)
  PROVE  LET i == Max({j \in 1 .. Len(g) : Catches(g[j], kind)}) IN
         i \in b .. Len(g) /\ i \in 1 .. Len(g) /\ Catches(g[i], kind) /\ \A j \in i + 1 .. Len(g) : ~Catches(g[j], kind)
<1> DEFINE K == {j \in 1 .. Len(g) : Catches(g[j], kind)}
           n == Len(g)
<1>1. n \in Nat /\ K \in SUBSET (0 .. n) /\ K # {} /\ b \in K
  OBVIOUS
<1>2. Max(K) \in K /\ \A j \in K : j <= Max(K)
  <2> HIDE DEF K, n
  <2> QED
    BY <1>1, GreatestOf
<1> DEFINE i == Max(K)
<1>3. i \in 1 .. n /\ Catches(g[i], kind) /\ \A j \in 1 .. n : Catches(g[j], kind) => j <= i
  <2> HIDE DEF i
  <2> QED
    BY <1>2 DEF i
<1> HIDE DEF i, K
<1>4. i \in b .. n /\ \A j \in i + 1 .. n : j \in 1 .. n /\ ~(j <= i)
  <2> HIDE DEF n
  <2>1. b \in 1 .. n
    BY DEF n
  <2> QED
    BY <1>1, <1>3, <2>1
<1>5. \A j \in i + 1 .. n : ~Catches(g[j], kind)
  BY <1>3, <1>4
<1> QED
  BY <1>3, <1>4, <1>5 DEF i, K

\* Without what catches it, an error or a yield crosses calls only.
LEMMA AboveCatch ==
  ASSUME NEW g \in Seq(Activation), GoOk(g), NEW kind, NEW i \in 1 .. Len(g), \A j \in i + 1 .. Len(g) : ~Catches(g[j], kind)
  PROVE  /\ \A j \in i .. Len(g) : g[j].t = Last(g).t
         /\ \A j \in i + 1 .. Len(g) : g[j].k \in {"call", "protect"}
         /\ kind # "closed" => \A j \in i + 1 .. Len(g) : g[j].k = "call"
<1>1. \A j \in i + 1 .. Len(g) : g[j] \in Activation
  OBVIOUS
<1>2. \A j \in i + 1 .. Len(g) : g[j].k \in {"call", "protect", "closing", "resume"}
  BY <1>1, ActivationParts
<1>3. \A j \in i + 1 .. Len(g) : g[j].k \in {"call", "protect"} /\ (kind # "closed" => g[j].k = "call")
  BY <1>2 DEF Catches
<1>4. \A j \in i + 1 .. Len(g) : ~Begins(g[j])
  BY <1>3 DEF Begins
<1> QED
  BY <1>3, <1>4, PieceAbove

\* Frames above the one that called protectedCall lie at or above its level,
\* and their variables with them.
LEMMA CaughtListed ==
  ASSUME NEW r \in ThreadRecord, FramesOk(r.ci), NEW t, NEW g, NEW h, Listed(r, t, g), ~r.death,
         NEW f \in 0 .. Len(r.ci), NEW q \in ThreadRecord, q.ci = SubSeq(r.ci, 1, f), q.tbc = r.tbc,
         NEW i \in DOMAIN h, h[i].k = "closing", h[i].t = t,
         h[i].level = (IF f = 0 THEN 1 ELSE r.ci[f].pos + 1),
         \A j \in DOMAIN g : g[j].k = "closing" /\ g[j].t = t =>
            (j \in DOMAIN h /\ h[j] = g[j]) \/ g[j].level = h[i].level
  PROVE  Listed(q, t, h)
<1> DEFINE c == r.ci
           d == q.ci
<1>1. c \in Seq(CallInfo) /\ DOMAIN c = 1 .. Len(c) /\ Len(c) \in Nat
  BY ThreadParts, AllOnes
<1>2. DOMAIN d = 1 .. f /\ \A p \in 1 .. f : d[p] = c[p]
  BY <1>1, FirstOnes
<1>3. \A p \in DOMAIN c : c[p].pos \in Nat /\ c[p].pos >= 1
  <2>1. \A x \in CallInfo : x.pos \in Nat /\ x.pos >= 1
    BY DEF CallInfo
  <2> HIDE DEF c
  <2>2. \A p \in DOMAIN c : c[p] \in CallInfo
    BY <1>1
  <2> QED
    BY <2>1, <2>2
<1> HIDE DEF c, d
<1>4. ASSUME NEW p \in DOMAIN c, NEW x \in Nat, c[p].pos < x PROVE (p \in DOMAIN d /\ d[p] = c[p]) \/ x >= h[i].level
  <2>1. CASE p <= f
    BY <1>1, <1>2, <2>1
  <2>2. CASE ~(p <= f)
    <3>1. p \in Nat /\ f \in Nat /\ f < p /\ (f # 0 => f \in DOMAIN c)
      BY <1>1, <2>2 DEF c
    <3>2. f = 0 => x >= 1
      BY <1>3, <1>4
    <3>3. f # 0 => c[f].pos < c[p].pos
      BY <3>1 DEF FramesOk, c
    <3>4. f # 0 => x >= c[f].pos + 1
      BY ONLY <1>3, <1>4, <3>1, <3>3
    <3> QED
      BY <3>2, <3>4 DEF c
  <2> QED
    BY <2>1, <2>2
<1>5. ASSUME NEW n \in DOMAIN r.tbc, r.tbc[n].base < r.tbc[n].level, Covered(r, t, g, r.tbc[n])
      PROVE  Covered(q, t, h, r.tbc[n])
  <2> DEFINE x == r.tbc[n]
  <2>1. x.level \in Nat /\ x.base \in Nat
    BY LevelsAre
  <2>2. CASE \E p \in DOMAIN c : c[p].op \in LuaOps /\ c[p].pos = x.base
    <3>1. PICK p \in DOMAIN c : c[p].op \in LuaOps /\ c[p].pos = x.base
      BY <2>2
    <3>2. (p \in DOMAIN d /\ d[p] = c[p]) \/ x.level >= h[i].level
      BY <1>4, <1>5, <2>1, <3>1
    <3> QED
      BY <3>1, <3>2 DEF Covered, d
  <2>3. CASE \E p \in DOMAIN c : c[p].op = "error" /\ x.level >= c[p].level
    <3>1. PICK p \in DOMAIN c : c[p].op = "error" /\ x.level >= c[p].level
      BY <2>3
    <3>2. c[p].level = c[p].pos + 1
      BY <3>1 DEF FramesOk, c
    <3>3. c[p].pos < x.level
      BY <1>3, <2>1, <3>1, <3>2
    <3>4. (p \in DOMAIN d /\ d[p] = c[p]) \/ x.level >= h[i].level
      BY <1>4, <2>1, <3>3
    <3> QED
      BY <3>1, <3>4 DEF Covered, d
  <2>4. CASE \E j \in DOMAIN g : g[j].k = "closing" /\ g[j].t = t /\ x.level >= g[j].level
    BY <2>4 DEF Covered
  <2> QED
    BY <1>5, <2>2, <2>3, <2>4 DEF Covered, c
<1> QED
  BY <1>5, CoveredStill

\* protectedCall takes an error, and closes what was declared under it.
LEMMA CatchPcall ==
  ASSUME NEW m, NEW F, Body(m, F), NEW t, NEW i \in 1 .. Len(m.go), \A j \in i .. Len(m.go) : m.go[j].t = t,
         \A j \in i + 1 .. Len(m.go) : m.go[j].k = "call", Protects(m.go[i]), m.th[t].status = "ok",
         NEW x \in Activation, x.k = "closing", x.then = "pcall", x.t = t, x.ci = m.go[i].ci, x.nny = m.go[i].nny,
         x.level = m.go[i].level, NEW q \in ThreadRecord, q.ci = x.ci, q.nny = x.nny, q.status = "ok", q.tbc = m.th[t].tbc,
         ~q.death, ~q.fresh
  PROVE  \E E : Good([th |-> [m.th EXCEPT ![t] = q], go |-> Append(SubSeq(m.go, 1, i - 1), x)], E)
<1> DEFINE g == m.go
           n == i - 1
           c == m.th[t].ci
           f == F[i]
           l == SubSeq(g, 1, n)
           D == SubSeq(F, 1, n)
           h == Append(l, x)
           E == Append(D, f)
           d == SubSeq(c, 1, f)
           o == [th |-> [m.th EXCEPT ![t] = q], go |-> h]
<1>1. g \in Seq(Activation) /\ F \in Seq(Nat) /\ Len(F) = Len(g) /\ GoOk(g) /\ m.th \in [Threads -> ThreadRecord]
      /\ (g # <<>> => Last(g).t \in Threads /\ Last(g) = g[Len(g)])
  BY BodyParts
<1>2. /\ Len(g) \in Nat /\ DOMAIN g = 1 .. Len(g) /\ n \in Nat /\ n \in 0 .. Len(g) /\ g # <<>> /\ i \in DOMAIN g
      /\ n + 1 = i /\ (\A j \in n + 1 .. Len(g) : j = i \/ j \in i + 1 .. Len(g)) /\ i \in i .. Len(g) /\ 1 .. n \subseteq DOMAIN g
      /\ Len(g) \in i .. Len(g) /\ (\A j \in 1 .. Len(g) : j \in 1 .. n \/ j = i \/ j \in i + 1 .. Len(g))
      /\ \A j \in 1 .. n : i \in j + 1 .. Len(g)
  BY <1>1
<1>3. t \in Threads /\ g[i].t = t /\ ActivationOk(g, i)
  BY <1>1, <1>2 DEF GoOk
<1>4. m.th[t] \in ThreadRecord /\ ThreadOk(m.th[t], t, g, F)
  BY <1>3, BodyParts
<1>5. c \in Seq(CallInfo) /\ Len(c) \in Nat
  BY <1>4, ThreadParts
<1>6. OnGo(m.th[t], t, g, F) /\ FramesOk(c) /\ Listed(m.th[t], t, g) /\ ~m.th[t].death /\ Floors(c, g, F, t)
  <2>1. On(g, t)
    BY <1>2, <1>3 DEF On
  <2> QED
    BY <1>4, <2>1 DEF ThreadOk, OnGo
<1> HIDE DEF n
<1>7. ~ClosesSelf(g[i]) /\ ~Begins(g[i]) /\ ~Ends(g[i]) /\ Halts(g[i]) /\ g[i].k \in {"protect", "closing"}
  BY DEF Protects, ClosesSelf, Begins, Ends, Halts
<1>8. \A j \in i + 1 .. Len(g) : ~ClosesSelf(g[j])
  BY DEF ClosesSelf
<1>9. Live(g, i) /\ FloorOk(c, g, F, t, i)
  <2>1. Live(g, i)
    BY ONLY <1>8, SMTT(60) DEF Live
  <2> QED
    BY <1>2, <1>3, <1>6, <2>1 DEF Floors
<1>10. /\ f = Len(g[i].ci) /\ f <= Len(c) /\ g[i].ci = d /\ g[i].level = (IF f = 0 THEN 1 ELSE c[f].pos + 1)
       /\ f > 0 => c[f].op = "protect"
  BY <1>7, <1>9 DEF FloorOk
<1>11. f \in 0 .. Len(c) /\ f \in Nat
  <2>1. i \in 1 .. Len(F)
    BY <1>1
  <2>2. f \in Nat
    BY ONLY <1>1, <2>1, SMTT(60)
  <2>3. f <= Len(c)
    BY <1>10
  <2> HIDE DEF f, c
  <2> QED
    BY <1>5, <2>2, <2>3
<1>12. \A j \in n + 1 .. Len(g) : g[j].t = t => ~ClosesSelf(g[j]) /\ F[j] >= f
  <2>1. \A j \in i + 1 .. Len(g) : g[j].t = t => F[i] <= F[j]
    BY <1>9 DEF FloorOk
  <2>2. \A j \in i + 1 .. Len(g) : F[j] \in Nat
    BY <1>1, <1>2, SMTT(60)
  <2>3. \A j \in i + 1 .. Len(g) : g[j].t = t => F[j] >= f
    BY <1>11, <2>1, <2>2
  <2>4. f >= f
    BY ONLY <1>11
  <2> HIDE DEF f
  <2> QED
    BY ONLY <1>2, <1>7, <1>8, <2>3, <2>4, SMTT(60) DEF f
<1>13. ASSUME NEW j \in 1 .. n, g[j].t = t, Live(g, j)
       PROVE  F[j] <= f /\ (g[j].k \in {"call", "resume"} => F[j] < f) /\ (j = n => ~Halts(g[j]))
  <2>1. FloorOk(c, g, F, t, j) /\ i \in j + 1 .. Len(g) /\ g[i].t = t
    BY <1>2, <1>3, <1>6, <1>13 DEF Floors
  <2>2. j = n => g[j].k \in {"call", "resume"}
    <3>1. j = n => i > 1 /\ i - 1 = j
      BY <1>2, <1>13 DEF n
    <3> QED
      BY <1>3, <1>7, <3>1 DEF ActivationOk
  <2> QED
    BY <2>1, <2>2 DEF FloorOk, Halts
<1>14. d \in Seq(CallInfo) /\ Len(d) = f /\ FramesOk(d) /\ (f > 0 => d[f] = c[f])
  <2> HIDE DEF c, f
  <2>1. d \in Seq(CallInfo) /\ Len(d) = f /\ \A p \in 1 .. f : d[p] = c[p]
    BY <1>5, <1>11, FirstOnes
  <2>2. FramesOk(d)
    BY <1>5, <1>6, <1>11, FramesCut
  <2>3. f > 0 => f \in 1 .. f
    BY <1>11
  <2> QED
    BY <2>1, <2>2, <2>3
<1>15. /\ l \in Seq(Activation) /\ Len(l) = n /\ DOMAIN l = 1 .. n /\ (\A j \in 1 .. n : l[j] = g[j])
       /\ D \in Seq(Nat) /\ Len(D) = n /\ (\A j \in 1 .. n : D[j] = F[j])
  <2> HIDE DEF g
  <2>1. l \in Seq(Activation) /\ Len(l) = n /\ DOMAIN l = 1 .. n /\ \A j \in 1 .. n : l[j] = g[j]
    BY <1>1, <1>2, FirstOnes
  <2>2. n \in 0 .. Len(F)
    BY <1>1, <1>2
  <2>3. D \in Seq(Nat) /\ Len(D) = n /\ \A j \in 1 .. n : D[j] = F[j]
    BY ONLY <1>1, <2>2, FirstOnes
  <2> QED
    BY <2>1, <2>3
<1>16. Floors(d, l, D, t)
  <2> HIDE DEF c, f, g
  <2>1. \A j \in 1 .. n : g[j].t = t /\ Live(g, j) => F[j] <= f /\ (g[j].k = "call" => F[j] < f)
    BY <1>13
  <2> QED
    BY <1>1, <1>2, <1>5, <1>6, <1>11, <1>12, <2>1, FloorsCut
<1>17. Alike(x, g[i])
  BY <1>3, <1>7 DEF Alike, Begins, Ends, ClosesSelf, Halts, Protects
<1> HIDE DEF l, D, d, f, c
<1>18. Floors(d, h, E, t)
  <2>1. ASSUME NEW j \in DOMAIN l, l[j].t = t, Live(l, j)
        PROVE  /\ D[j] <= f
               /\ l[j].k \in {"call", "resume"} => D[j] < f
               /\ Halts(l[j]) /\ j = Len(l) => f = D[j]
    <3>1. j \in 1 .. n /\ l[j] = g[j] /\ D[j] = F[j]
      BY <1>15, <2>1
    <3>2. Live(g, j)
      <4>1. \A b \in n + 1 .. Len(g) : g[b].t = t => ~ClosesSelf(g[b])
        BY <1>12
      <4>2. Live(SubSeq(g, 1, n), j) <=> Live(g, j)
        <5>1. g \in Seq(Activation) /\ n \in 0 .. Len(g) /\ j \in 1 .. n /\ g[j].t = t
          BY <1>1, <1>2, <2>1, <3>1
        <5> HIDE DEF g
        <5> QED
          BY <4>1, <5>1, LiveAgain
      <4> QED
        BY <2>1, <4>2 DEF l
    <3> QED
      BY <1>13, <1>15, <2>1, <3>1, <3>2
  <2>2. x.level = (IF f = 0 THEN 1 ELSE d[f].pos + 1) /\ (f > 0 => d[f].op = "protect")
    BY <1>10, <1>11, <1>14
  <2>3. Halts(x) /\ Protects(x) /\ ~ClosesSelf(x) /\ ~Ends(x)
    BY DEF Halts, Protects, ClosesSelf, Ends
  <2>4. x.ci = d /\ f = Len(d)
    BY <1>10, <1>14
  <2> QED
    BY <1>11, <1>14, <1>15, <1>16, <2>1, <2>2, <2>3, <2>4, FloorsMore, ZenonT(30)
<1>19. h \in Seq(Activation) /\ Len(h) = i /\ h[i] = x /\ Last(h) = x /\ h # <<>> /\ (\A j \in 1 .. n : h[j] = g[j]) /\ DOMAIN h = 1 .. i
       /\ E[i] = f /\ i \in 1 .. i
  <2>1. Len(l) + 1 = i /\ Len(D) + 1 = i /\ i \in 1 .. i
    BY <1>2, <1>15
  <2>2. h \in Seq(Activation) /\ Len(h) = Len(l) + 1 /\ h[Len(l) + 1] = x /\ Last(h) = x /\ h # <<>> /\ (\A j \in 1 .. Len(l) : h[j] = l[j])
        /\ DOMAIN h = 1 .. Len(l) + 1
    BY <1>15, OneMore
  <2>3. E[Len(D) + 1] = f
    BY <1>11, <1>15, OneMore
  <2> HIDE DEF h, E
  <2> QED
    BY <1>15, <2>1, <2>2, <2>3
<1>20. q.nny = Count(h, Len(h), t)
  <2>1. x.nny = Count(g, i - 1, t)
    BY <1>3 DEF ActivationOk
  <2>2. Count(g, i, t) = Count(g, i - 1, t)
    BY <1>1, CountNext
  <2>3. Count(h, i, t) = Count(g, i, t)
    BY <1>1, <1>17, GoAlike DEF l, n
  <2> QED
    BY <1>19, <2>1, <2>2, <2>3
<1>21. Listed(q, t, h)
  <2> DEFINE r == m.th[t]
  <2>1. q.ci = SubSeq(r.ci, 1, f) /\ f \in 0 .. Len(r.ci) /\ FramesOk(r.ci)
    BY <1>6, <1>10, <1>11, Zenon DEF d, c
  <2>2. i \in DOMAIN h /\ h[i].k = "closing" /\ h[i].t = t /\ h[i].level = (IF f = 0 THEN 1 ELSE r.ci[f].pos + 1)
    BY <1>10, <1>19 DEF c
  <2>3. ASSUME NEW j \in DOMAIN g, g[j].k = "closing" PROVE (j \in DOMAIN h /\ h[j] = g[j]) \/ g[j].level = h[i].level
    <3>1. j \in 1 .. n \/ j = i
      BY <1>2, <2>3
    <3>2. \A b \in 1 .. n : b \in 1 .. i
      BY <1>2
    <3> QED
      BY <1>19, <3>1, <3>2
  <2>4. r \in ThreadRecord /\ Listed(r, t, g) /\ ~r.death /\ q.tbc = r.tbc
    BY <1>4, <1>6
  <2> HIDE DEF r, g, h
  <2> QED
    BY <2>1, <2>2, <2>3, <2>4, CaughtListed, SMTT(60)
<1>22. ThreadOk(q, t, h, E)
  <2>1. Runs(h, t) /\ ~Lua(h) /\ On(h, t)
    BY <1>19 DEF Runs, Lua, On
  <2>2. q.ci = d /\ Len(q.ci) = E[Len(h)]
    BY <1>10, <1>14, <1>19
  <2>3. OnGo(q, t, h, E)
    BY <1>18, <1>20, <2>1, <2>2 DEF OnGo
  <2> QED
    BY <1>14, <1>21, <2>1, <2>2, <2>3 DEF ThreadOk
<1>23. Body(o, E)
  BY <1>11, <1>17, <1>22, CatchStep DEF l, D, n
<1>24. ~Lua(o.go) /\ Last(o.go).k # "protect"
  BY <1>19 DEF Lua
<1>25. Good(o, E)
  <2> HIDE DEF o, E
  <2> QED
    BY <1>23, <1>24 DEF Good
<1> QED
  <2>1. \E A : Good(o, A)
    <3> HIDE DEF o, E
    <3> QED
      BY <1>25
  <2> QED
    BY <2>1 DEF l, n

\* CloseThread's loop takes an error, or an errClosed, and closes on.
LEMMA CatchEnds ==
  ASSUME NEW m, NEW F, Body(m, F), NEW t, NEW i \in 1 .. Len(m.go), \A j \in i .. Len(m.go) : m.go[j].t = t, Ends(m.go[i]),
         NEW x \in Activation, Alike(x, m.go[i]), NEW q \in ThreadRecord, q.tbc = m.th[t].tbc, q.ci = <<>>, q.nny = 1,
         q.status # "yield", q.status = "error" => q.tbc = <<>>, ~q.death, ~q.fresh
  PROVE  \E E : Good([th |-> [m.th EXCEPT ![t] = q], go |-> Append(SubSeq(m.go, 1, i - 1), x)], E)
<1> DEFINE g == m.go
           n == i - 1
           l == SubSeq(g, 1, n)
           D == SubSeq(F, 1, n)
           h == Append(l, x)
           E == Append(D, 0)
           o == [th |-> [m.th EXCEPT ![t] = q], go |-> h]
<1>1. g \in Seq(Activation) /\ F \in Seq(Nat) /\ Len(F) = Len(g) /\ GoOk(g) /\ m.th \in [Threads -> ThreadRecord]
      /\ (g # <<>> => Last(g).t \in Threads /\ Last(g) = g[Len(g)])
  BY BodyParts
<1>2. /\ n \in Nat /\ n \in 0 .. Len(g) /\ n \in 0 .. Len(F) /\ g # <<>> /\ i \in DOMAIN g /\ i \in i .. Len(g) /\ Len(g) \in i .. Len(g)
      /\ \A j \in 1 .. n : j \in DOMAIN g /\ i > 1 /\ j \in 1 .. i - 1
  BY <1>1
<1>3. t \in Threads /\ g[i].t = t /\ ActivationOk(g, i)
  BY <1>1, <1>2 DEF GoOk
<1>4. m.th[t] \in ThreadRecord /\ Floors(m.th[t].ci, g, F, t) /\ Listed(m.th[t], t, g)
  <2>1. On(g, t)
    BY <1>2, <1>3 DEF On
  <2>2. m.th[t] \in ThreadRecord /\ ThreadOk(m.th[t], t, g, F)
    BY <1>3, BodyParts
  <2> QED
    BY <2>1, <2>2 DEF ThreadOk, OnGo
<1>5. Ends(x) /\ x.t = t /\ x.ci = <<>> /\ x.level = 1 /\ (ClosesSelf(x) <=> ClosesSelf(g[i])) /\ x.k = "closing"
  BY <1>3 DEF Alike, ActivationOk, Ends, Halts
<1>6. ASSUME NEW j \in 1 .. n, g[j].t = t PROVE ClosesSelf(x) /\ (g[j].k = "resume" \/ Ends(g[j]) => F[j] = 0)
  <2>1. ~Begins(g[i])
    BY <1>2, <1>3, <1>6 DEF ActivationOk
  <2>2. ClosesSelf(g[i])
    <3>1. g[i] \in Activation
      BY <1>1, <1>2
    <3> QED
      BY <2>1, <3>1, ActivationParts DEF Ends, Begins, ClosesSelf
  <2> QED
    BY <1>2, <1>4, <1>5, <1>6, <2>2 DEF Floors
<1> HIDE DEF n
<1>7. l \in Seq(Activation) /\ Len(l) = n /\ DOMAIN l = 1 .. n /\ \A j \in 1 .. n : l[j] = g[j]
  <2> HIDE DEF g
  <2> QED
    BY <1>1, <1>2, FirstOnes
<1>8. D \in Seq(Nat) /\ Len(D) = n /\ \A j \in 1 .. n : D[j] = F[j]
  BY <1>1, <1>2, FirstOnes, SMTT(60)
<1>9. ThreadOk(q, t, h, E)
  <2>1. \A j \in DOMAIN l : l[j].t = t => ClosesSelf(x) /\ (l[j].k = "resume" \/ Ends(l[j]) => D[j] = 0)
    BY <1>6, <1>7, <1>8
  <2> HIDE DEF l, D
  <2> QED
    BY <1>4, <1>5, <1>7, <1>8, <2>1, ClosedOk
<1>10. Body(o, E)
  BY <1>9, CatchStep DEF n
<1>11. Last(h) = x /\ h # <<>>
  <2> HIDE DEF l
  <2> QED
    BY <1>7, OneMore
<1>12. Good(o, E)
  <2>1. ~Lua(o.go) /\ Last(o.go).k # "protect"
    <3> HIDE DEF h
    <3> QED
      BY <1>5, <1>11 DEF Lua
  <2> HIDE DEF o, E
  <2> QED
    BY <1>10, <2>1 DEF Good
<1>13. \E A : Good(o, A)
  <2> HIDE DEF o, E
  <2> QED
    BY <1>12
<1> QED
  BY <1>13 DEF n

\* recover cuts the frames above the innermost yieldable pcall, which then
\* waits for its variables to close.
LEMMA RecoverIs ==
  ASSUME NEW r \in ThreadRecord, FramesOk(r.ci), Recoverable(r) # {}
  PROVE  LET q == Recover(r)
             p == Len(q.ci)
         IN /\ q \in ThreadRecord /\ q.status = r.status /\ q.death = r.death /\ q.fresh = r.fresh /\ q.tbc = r.tbc /\ q.nny = 0
            /\ q.ci # <<>> /\ p \in DOMAIN r.ci /\ Last(q.ci) = q.ci[p] /\ q.ci[p].op = "error" /\ q.ci[p].pos = r.ci[p].pos
            /\ q.ci[p].level = r.ci[p].pos + 1 /\ r.ci[p].op \in {"pcall", "error"} /\ q.ci[p].fresh = r.ci[p].fresh
            /\ \A k \in 1 .. p - 1 : q.ci[k] = r.ci[k]
            /\ FramesOk(q.ci) /\ Settled(q.ci)
<1> DEFINE c == r.ci
           p == Max(Recoverable(r))
           b == SubSeq(c, 1, p)
           x == c[p]
           e == [op |-> "error", pos |-> x.pos, fresh |-> x.fresh, level |-> x.pos + 1]
           d == [b EXCEPT ![p] = e]
<1>1. c \in Seq(CallInfo) /\ Len(c) \in Nat /\ DOMAIN c = 1 .. Len(c)
  BY ONLY ThreadParts, AllOnes
<1>2. p \in 1 .. Len(c) /\ c[p].op \in {"pcall", "error"}
  <2>1. Recoverable(r) \in SUBSET (0 .. Len(c))
    BY <1>1 DEF Recoverable
  <2>2. p \in Recoverable(r)
    BY <1>1, <2>1, GreatestOf
  <2> QED
    BY <2>2 DEF Recoverable
<1> HIDE DEF p
<1>3. x \in CallInfo /\ p \in 0 .. Len(c) /\ p \in Nat /\ p > 0 /\ p \in 1 .. p /\ p - 1 \in Nat
      /\ \A k \in 1 .. p - 1 : k \in 1 .. p /\ k # p
  BY <1>1, <1>2
<1>4. b \in Seq(CallInfo) /\ Len(b) = p /\ DOMAIN b = 1 .. p /\ \A k \in 1 .. p : b[k] = c[k]
  <2> HIDE DEF c
  <2> QED
    BY <1>1, <1>3, FirstOnes
<1>5. FramesOk(b)
  <2> HIDE DEF c
  <2> QED
    BY <1>1, <1>3, FramesCut DEF c
<1>6. e \in CallInfo
  <2> HIDE DEF x
  <2> QED
    BY <1>3 DEF CallInfo, LuaOps, GoOps
<1>7. [b EXCEPT ![p].op = "error", ![p].level = x.pos + 1] = d
  <2> DEFINE y == [op |-> "error", pos |-> x.pos, fresh |-> x.fresh, level |-> x.level]
  <2>1. b[p] = x
    BY <1>3, <1>4
  <2> HIDE DEF x, b
  <2>2. [x EXCEPT !.op = "error"] = y
    BY <1>3 DEF CallInfo
  <2>3. [y EXCEPT !.level = x.pos + 1] = e
    OBVIOUS
  <2>4. [b EXCEPT ![p].op = "error"] = [b EXCEPT ![p] = y]
    BY <2>1, <2>2
  <2> HIDE DEF y, e
  <2>5. [[b EXCEPT ![p] = y] EXCEPT ![p].level = x.pos + 1] = d
    BY <1>3, <1>4, <2>3
  <2> QED
    BY <2>4, <2>5
<1>8. Recover(r) = [r EXCEPT !.ci = d, !.nny = 0]
  BY <1>7 DEF Recover, p
<1> HIDE DEF e
<1>9. d \in Seq(CallInfo) /\ Len(d) = p /\ d # <<>> /\ (\A k \in 1 .. p - 1 : d[k] = b[k] /\ b[k] = c[k]) /\ d[p] = e
  <2> HIDE DEF b
  <2> QED
    BY <1>3, <1>4, <1>6
<1>10. Last(d) = d[p]
  BY <1>9 DEF Last
<1>11. e.op = "error" /\ e.pos = x.pos /\ e.fresh = x.fresh /\ e.level = x.pos + 1 /\ b[p] = x
  BY <1>3, <1>4 DEF e
<1>12. FramesOk(d) /\ Settled(d)
  <2>1. b # <<>> /\ Last(b) = b[p]
    <3> HIDE DEF b
    <3> QED
      BY <1>3, <1>4 DEF Last
  <2> HIDE DEF b, d, x
  <2>2. Last(b).op \in {"pcall", "error"}
    BY <1>2, <1>11, <2>1 DEF x
  <2> QED
    BY <1>4, <1>5, <1>9, <1>11, <2>1, <2>2, FramesRecover
<1> HIDE DEF d
<1> DEFINE q == [r EXCEPT !.ci = d, !.nny = 0]
<1>13. q \in ThreadRecord /\ q.status = r.status /\ q.death = r.death /\ q.fresh = r.fresh /\ q.tbc = r.tbc /\ q.nny = 0 /\ q.ci = d
  BY <1>9 DEF ThreadRecord
<1> HIDE DEF q
<1>14. Recover(r) = q
  BY <1>8 DEF q
<1> QED
  BY <1>1, <1>2, <1>9, <1>10, <1>11, <1>12, <1>13, <1>14

\* Resume begins, on frames that all have a continuation.
LEMMA FloorsBegun ==
  ASSUME NEW c \in Seq(CallInfo), Settled(c), NEW t, NEW g \in Seq(Activation), NEW F \in Seq(Nat), Len(F) = Len(g),
         \A i \in 1 .. Len(g) : g[i].t # t, NEW x \in Activation, x.t = t, x.k = "resume"
  PROVE  Floors(c, Append(g, x), Append(F, 0), t)
<1> DEFINE h == Append(g, x)
           E == Append(F, 0)
           n == Len(g) + 1
<1>1. DOMAIN h = 1 .. n /\ h[n] = x /\ E[n] = 0 /\ (\A i \in 1 .. Len(g) : h[i] = g[i]) /\ Len(h) = n
  BY OneMore
<1> HIDE DEF h, E
<1>2. \A i \in DOMAIN h : h[i].t = t => i = n
  <2>1. \A i \in 1 .. n : i \in 1 .. Len(g) \/ i = n
    OBVIOUS
  <2> QED
    BY <1>1, <2>1
<1>3. Len(g) \in Nat /\ n \in Nat /\ \A j \in n + 1 .. n : FALSE
  OBVIOUS
<1> HIDE DEF n
<1>4. FloorOk(c, h, E, t, n)
  BY <1>1, <1>3 DEF FloorOk, Halts, Protects
<1>5. Anchored(c, h, E, t)
  <2>1. \A p \in 1 .. Len(c) - 1 : p \in DOMAIN c
    OBVIOUS
  <2> QED
    BY <2>1 DEF Anchored, Settled
<1>6. Floors(c, h, E, t)
  BY <1>1, <1>2, <1>4, <1>5 DEF Floors
<1> QED
  BY <1>6 DEF h, E

\* What is left to close once recover has cut the frames lies under the pcall's.
LEMMA RecoverListed ==
  ASSUME NEW r \in ThreadRecord, FramesOk(r.ci), Recoverable(r) # {}, NEW t, NEW g, NEW h, Listed(r, t, g), ~r.death,
         \A j \in DOMAIN g : g[j].t = t => g[j].k # "closing"
  PROVE  Listed(Recover(r), t, h)
<1> DEFINE c == r.ci
           q == Recover(r)
           d == q.ci
           p == Len(d)
<1>1. q \in ThreadRecord /\ q.tbc = r.tbc
  BY RecoverIs
<1>2. p \in DOMAIN c /\ d[p].op = "error" /\ d[p].level = c[p].pos + 1 /\ c[p].op \in {"pcall", "error"}
      /\ (\A k \in 1 .. p - 1 : d[k] = c[k]) /\ d # <<>>
  BY RecoverIs
<1>3. c \in Seq(CallInfo) /\ DOMAIN c = 1 .. Len(c) /\ Len(c) \in Nat /\ d \in Seq(CallInfo) /\ DOMAIN d = 1 .. p
  BY <1>1, ThreadParts, AllOnes
<1>4. \A k \in DOMAIN c : c[k].pos \in Nat
  <2>1. \A x \in CallInfo : x.pos \in Nat
    BY DEF CallInfo
  <2> HIDE DEF c
  <2> QED
    BY <1>3, <2>1
<1>5. \A k, l \in DOMAIN c : k < l => c[k].pos < c[l].pos
  BY DEF FramesOk
<1>6. \A k \in DOMAIN c : c[k].op = "error" => c[k].level = c[k].pos + 1
  BY DEF FramesOk
<1> HIDE DEF c, d, p
<1>7. p \in DOMAIN d
  BY <1>2, <1>3
<1>8. ASSUME NEW k \in DOMAIN c, NEW x \in Nat, c[k].pos < x PROVE (k \in DOMAIN d /\ k # p /\ d[k] = c[k]) \/ k = p \/ x >= d[p].level
  <2>1. CASE k < p
    <3>1. k \in 1 .. p - 1 /\ k \in 1 .. p /\ k # p
      BY <1>2, <1>3, <2>1
    <3> QED
      BY <1>2, <1>3, <3>1
  <2>2. CASE p < k
    <3>1. c[p].pos < c[k].pos
      BY <1>2, <1>5, <2>2
    <3>2. c[p].pos \in Nat /\ c[k].pos \in Nat
      BY <1>2, <1>4
    <3> HIDE DEF c
    <3> QED
      BY <1>2, <1>8, <3>1, <3>2
  <2> QED
    BY <1>2, <1>3, <2>1, <2>2
<1>9. ASSUME NEW n \in DOMAIN r.tbc, r.tbc[n].base < r.tbc[n].level, Covered(r, t, g, r.tbc[n])
      PROVE  Covered(q, t, h, r.tbc[n])
  <2> DEFINE x == r.tbc[n]
  <2>1. x.level \in Nat /\ x.base \in Nat
    BY LevelsAre
  <2>2. CASE \E k \in DOMAIN c : c[k].op \in LuaOps /\ c[k].pos = x.base
    <3>1. PICK k \in DOMAIN c : c[k].op \in LuaOps /\ c[k].pos = x.base
      BY <2>2
    <3>2. k # p
      BY <1>2, <3>1 DEF LuaOps
    <3>3. (k \in DOMAIN d /\ d[k] = c[k]) \/ x.level >= d[p].level
      BY <1>8, <1>9, <2>1, <3>1, <3>2
    <3> QED
      BY <1>2, <1>7, <3>1, <3>3 DEF Covered, d
  <2>3. CASE \E k \in DOMAIN c : c[k].op = "error" /\ x.level >= c[k].level
    <3>1. PICK k \in DOMAIN c : c[k].op = "error" /\ x.level >= c[k].level
      BY <2>3
    <3>2. c[k].level = c[k].pos + 1 /\ c[k].pos \in Nat
      BY <1>4, <1>6, <3>1
    <3>3. c[k].pos < x.level
      BY <2>1, <3>1, <3>2
    <3>4. (k \in DOMAIN d /\ d[k] = c[k]) \/ k = p \/ x.level >= d[p].level
      BY <1>8, <2>1, <3>3
    <3>5. k = p => d[p].level = c[k].level
      BY <1>2, <3>2
    <3> QED
      BY <1>2, <1>7, <3>1, <3>4, <3>5 DEF Covered, d
  <2> QED
    BY <1>9, <2>2, <2>3 DEF Covered, c
<1> HIDE DEF q
<1>10. Listed(q, t, h)
  BY <1>1, <1>9, CoveredStill
<1> QED
  BY <1>10 DEF q

\* A coroutine's activations down to the Resume it runs under.
NoneBelow(g, i, t) == \A j \in 1 .. i - 1 : g[j].t # t

\* A thread's piece of the stack, from its Resume to the top.
LEMMA ResumePiece ==
  ASSUME NEW m, NEW F, Body(m, F), NEW t, NEW i \in 1 .. Len(m.go), \A j \in i .. Len(m.go) : m.go[j].t = t, m.go[i].k = "resume"
  PROVE  /\ t \in Coroutines /\ t \in Threads /\ Begins(m.go[i]) /\ m.go[i] \in Activation /\ m.go[i].t = t
         /\ NoneBelow(m.go, i, t)
         /\ i - 1 \in 0 .. Len(m.go) /\ On(m.go, t) /\ Last(m.go).t = t /\ m.go # <<>>
<1> DEFINE g == m.go
<1>1. g \in Seq(Activation) /\ GoOk(g)
  BY BodyParts
<1> HIDE DEF g
<1>2. i \in 1 .. Len(g) /\ (\A j \in i .. Len(g) : g[j].t = t) /\ g[i].k = "resume"
  BY DEF g
<1>3. i \in DOMAIN g /\ i \in i .. Len(g) /\ Len(g) \in i .. Len(g) /\ i - 1 \in 0 .. Len(g) /\ g # <<>> /\ (i > 1 \/ i - 1 = 0)
      /\ Last(g) = g[Len(g)]
  BY <1>1, <1>2 DEF Last
<1>4. g[i] \in Activation /\ g[i].t = t /\ ActivationOk(g, i) /\ Begins(g[i])
  BY <1>1, <1>2, <1>3 DEF GoOk, Begins
<1>5. t \in Coroutines /\ t \in Threads
  BY <1>2, <1>4, ActivationParts
<1>6. \A j \in 1 .. i - 1 : g[j].t # t
  BY <1>3, <1>4 DEF ActivationOk
<1> QED
  BY <1>2, <1>3, <1>4, <1>5, <1>6 DEF g, On, NoneBelow

\* Resume takes an error that a yieldable pcall recovers, and runs on.
LEMMA RecoverBody ==
  ASSUME NEW m, NEW F, Body(m, F), Lua(m.go), NEW t, NEW i \in 1 .. Len(m.go), \A j \in i .. Len(m.go) : m.go[j].t = t,
         m.go[i].k = "resume", \A j \in i + 1 .. Len(m.go) : m.go[j].k = "call", Recoverable(m.th[t]) # {},
         NEW x \in Activation, Alike(x, m.go[i])
  PROVE  \E E : Good([th |-> [m.th EXCEPT ![t] = Recover(m.th[t])], go |-> Append(SubSeq(m.go, 1, i - 1), x)], E)
<1>1. /\ t \in Coroutines /\ t \in Threads /\ Begins(m.go[i]) /\ m.go[i] \in Activation /\ m.go[i].t = t
      /\ NoneBelow(m.go, i, t)
      /\ i - 1 \in 0 .. Len(m.go) /\ On(m.go, t) /\ Last(m.go).t = t /\ m.go # <<>>
  BY ResumePiece
<1> DEFINE g == m.go
           n == i - 1
           l == SubSeq(g, 1, n)
           D == SubSeq(F, 1, n)
           h == Append(l, x)
           E == Append(D, 0)
           r == m.th[t]
           q == Recover(r)
           o == [th |-> [m.th EXCEPT ![t] = q], go |-> h]
<1>2. g \in Seq(Activation) /\ F \in Seq(Nat) /\ Len(F) = Len(g) /\ GoOk(g) /\ m.th \in [Threads -> ThreadRecord]
  BY BodyParts
<1>3. t \in Coroutines /\ t \in Threads /\ g[i].t = t /\ (\A j \in 1 .. n : g[j].t # t) /\ n \in 0 .. Len(g) /\ On(g, t)
      /\ Last(g).t = t /\ g # <<>>
  BY ONLY <1>1 DEF NoneBelow
<1>4. r \in ThreadRecord /\ FramesOk(r.ci) /\ Listed(r, t, g) /\ ~r.fresh /\ ~r.death /\ r.status = "ok"
  BY <1>3, RunningParts
<1>5. /\ q \in ThreadRecord /\ q.status = "ok" /\ ~q.death /\ ~q.fresh /\ q.nny = 0 /\ q.ci # <<>> /\ Last(q.ci).op = "error"
      /\ FramesOk(q.ci) /\ Settled(q.ci)
  BY <1>4, RecoverIs
<1>6. q.ci \in Seq(CallInfo)
  BY <1>5, ThreadParts
<1>7. \A j \in DOMAIN g : g[j].t = t => g[j].k # "closing"
  <2>1. \A j \in DOMAIN g : j \in 1 .. n \/ j = i \/ j \in i + 1 .. Len(g)
    BY <1>2, SMTT(60)
  <2> QED
    BY <1>3, <2>1
<1>8. Listed(q, t, h)
  <2> HIDE DEF g, h, r
  <2> QED
    BY <1>4, <1>7, RecoverListed DEF r
<1> HIDE DEF n, q, r
<1>9. l \in Seq(Activation) /\ Len(l) = n /\ \A j \in 1 .. n : l[j] = g[j]
  <2> HIDE DEF g
  <2> QED
    BY ONLY <1>2, <1>3, FirstOnes, SMTT(60)
<1>10. D \in Seq(Nat) /\ Len(D) = n
  BY <1>2, <1>3, FirstOnes, SMTT(60)
<1>11. x.t = t /\ x.k = "resume"
  BY <1>3 DEF Alike
<1> HIDE DEF l, D
<1>12. Floors(q.ci, h, E, t)
  <2>1. \A j \in 1 .. Len(l) : l[j].t # t
    BY <1>3, <1>9
  <2> HIDE DEF g
  <2> QED
    BY <1>5, <1>6, <1>9, <1>10, <1>11, <2>1, FloorsBegun
<1>13. h \in Seq(Activation) /\ Len(h) = n + 1 /\ h[n + 1] = x /\ Last(h) = x /\ h # <<>> /\ n + 1 \in DOMAIN h
  BY ONLY <1>9, OneMore
<1>14. Count(h, Len(h), t) = 0
  <2> HIDE DEF h
  <2>1. Len(h) \in 1 .. Len(h) /\ h[Len(h)] = x
    BY <1>13
  <2> QED
    BY <1>11, <1>13, <2>1, CountNext
<1>15. Lua(h) /\ Runs(h, t) /\ On(h, t)
  <2> HIDE DEF h
  <2> QED
    BY <1>11, <1>13 DEF Lua, Runs, On
<1> HIDE DEF h, E
<1>16. ThreadOk(q, t, h, E)
  BY <1>5, <1>8, <1>12, <1>14, <1>15 DEF ThreadOk, OnGo
<1>17. Body(o, E)
  <2>1. ThreadOk(q, t, Append(SubSeq(m.go, 1, i - 1), x), Append(SubSeq(F, 1, i - 1), 0))
    BY <1>16 DEF l, D, n, h, E
  <2>2. Body([th |-> [m.th EXCEPT ![t] = q], go |-> Append(SubSeq(m.go, 1, i - 1), x)], Append(SubSeq(F, 1, i - 1), 0))
    <3>1. q \in ThreadRecord /\ 0 \in Nat
      BY <1>5
    <3> QED
      BY <2>1, <3>1, CatchStep
  <2> QED
    BY <2>2 DEF l, D, n, h, E
<1>18. Top(o).op = "error"
  BY <1>2, <1>3, <1>5, <1>11, <1>13 DEF Top
<1>19. Good(o, E)
  <2>1. Lua(o.go)
    BY <1>15
  <2> HIDE DEF o
  <2> QED
    BY <1>17, <1>18, <2>1, GoodLua
<1>20. \E A : Good(o, A)
  <2> HIDE DEF o, E
  <2> QED
    BY <1>19
<1> QED
  BY <1>20 DEF n, l, h, q, r

\* A thread reset to the call infos and the count its activation kept.
Reset(r, c, k) == [r EXCEPT !.ci = c, !.nny = k]
AllReset(T, t, c, k) == [T EXCEPT ![t].ci = c, ![t].nny = k]

\* Resetting two fields is one record.
LEMMA ResetIs ==
  ASSUME NEW T \in [Threads -> ThreadRecord], NEW t \in Threads, NEW c \in Seq(CallInfo), NEW k \in Nat
  PROVE  LET q == Reset(T[t], c, k)
         IN /\ q \in ThreadRecord /\ q.ci = c /\ q.nny = k /\ q.status = T[t].status /\ q.death = T[t].death
            /\ q.fresh = T[t].fresh /\ q.tbc = T[t].tbc
            /\ AllReset(T, t, c, k) = [T EXCEPT ![t] = q]
<1> DEFINE r == T[t]
           p == [r EXCEPT !.ci = c]
           q == [p EXCEPT !.nny = k]
<1>1. r \in ThreadRecord
  OBVIOUS
<1>2. [T EXCEPT ![t].ci = c] = [T EXCEPT ![t] = p]
  OBVIOUS
<1> HIDE DEF p
<1>3. [[T EXCEPT ![t] = p] EXCEPT ![t].nny = k] = [T EXCEPT ![t] = q]
  OBVIOUS
<1> HIDE DEF q
<1>4. [T EXCEPT ![t].ci = c, ![t].nny = k] = [T EXCEPT ![t] = q]
  BY <1>2, <1>3
<1> HIDE DEF r
<1>5. q \in ThreadRecord /\ q.ci = c /\ q.nny = k /\ q.status = r.status /\ q.death = r.death
      /\ q.fresh = r.fresh /\ q.tbc = r.tbc
  BY <1>1 DEF q, p, ThreadRecord
<1> QED
  BY <1>4, <1>5 DEF q, p, r, Reset, AllReset

\* Frames without an activation that protects them wait for no protect.
LEMMA NoneProtects ==
  ASSUME NEW c \in Seq(CallInfo), NEW g, NEW F, NEW t, Floors(c, g, F, t), c # <<>>, Last(c).op # "protect",
         \A i \in DOMAIN g : g[i].t = t => ~Protects(g[i])
  PROVE  \A p \in DOMAIN c : c[p].op # "protect"
<1>1. \A p \in DOMAIN c : p = Len(c) \/ p \in 1 .. Len(c) - 1
  OBVIOUS
<1>2. Last(c) = c[Len(c)]
  BY DEF Last
<1>3. \A p \in 1 .. Len(c) - 1 : c[p].op # "protect"
  BY DEF Floors, Anchored
<1> QED
  BY <1>1, <1>2, <1>3

\* A thread that dies where its Resume counted k.
Died(T, t, k, g) ==
  [[th |-> [T EXCEPT ![t].nny = k], go |-> g] EXCEPT !.th[t].status = "error", !.th[t].death = TRUE]
Dead(r, k) == [r EXCEPT !.nny = k, !.status = "error", !.death = TRUE]

\* Dying changes one record.
LEMMA DeadIs ==
  ASSUME NEW T, DOMAIN T = Threads, NEW t \in Threads, NEW k, NEW g
  PROVE  Died(T, t, k, g) = [th |-> [T EXCEPT ![t] = Dead(T[t], k)], go |-> g]
<1> DEFINE a == [T[t] EXCEPT !.nny = k]
           b == [a EXCEPT !.status = "error"]
           c == [b EXCEPT !.death = TRUE]
           U == [T EXCEPT ![t] = b]
<1>1. [T EXCEPT ![t].nny = k] = [T EXCEPT ![t] = a]
  OBVIOUS
<1> HIDE DEF a
<1>2. [[th |-> [T EXCEPT ![t] = a], go |-> g] EXCEPT !.th[t].status = "error"] = [th |-> [T EXCEPT ![t] = b], go |-> g]
  OBVIOUS
<1> HIDE DEF b
<1>3. U[t] = b /\ \A z : [U EXCEPT ![t] = z] = [T EXCEPT ![t] = z]
  OBVIOUS
<1> HIDE DEF U
<1>4. \A v : [[th |-> U, go |-> g] EXCEPT !.th[t].death = v] = [th |-> [U EXCEPT ![t] = [b EXCEPT !.death = v]], go |-> g]
  BY <1>3
<1>5. [[th |-> U, go |-> g] EXCEPT !.th[t].death = TRUE] = [th |-> [U EXCEPT ![t] = c], go |-> g]
  BY <1>4
<1> HIDE DEF c
<1>6. [U EXCEPT ![t] = c] = [T EXCEPT ![t] = c]
  BY <1>3
<1>7. [[th |-> [T EXCEPT ![t].nny = k], go |-> g] EXCEPT !.th[t].status = "error"] = [th |-> U, go |-> g]
  BY <1>1, <1>2 DEF U
<1>8. [[[th |-> [T EXCEPT ![t].nny = k], go |-> g] EXCEPT !.th[t].status = "error"] EXCEPT !.th[t].death = TRUE]
        = [th |-> [T EXCEPT ![t] = c], go |-> g]
  BY <1>5, <1>6, <1>7
<1> QED
  BY <1>8 DEF a, b, c, Died, Dead

\* A coroutine dies of an error, and leaves Go's stack.
LEMMA DieDeparts ==
  ASSUME NEW m, NEW F, Body(m, F), NEW t, NEW i \in 1 .. Len(m.go), \A j \in i .. Len(m.go) : m.go[j].t = t, m.go[i].k = "resume",
         \A p \in DOMAIN m.th[t].ci : m.th[t].ci[p].op \notin {"protect", "pcall", "error"}
  PROVE  LET q == Dead(m.th[t], m.go[i].nny)
             o == Without(m, t, i, q)
         IN Body(o, SubSeq(F, 1, i - 1)) /\ ~On(o.go, t) /\ Lua(o.go) /\ Top(o).op = "call" /\ q.status = "error" /\ o.th[t] = q
<1>1. /\ t \in Coroutines /\ t \in Threads /\ Begins(m.go[i]) /\ m.go[i] \in Activation /\ On(m.go, t)
  BY ResumePiece
<1>2. m.go[i].nny \in Nat
  BY <1>1, ActivationParts
<1>3. m.th[t] \in ThreadRecord /\ ThreadOk(m.th[t], t, m.go, F)
  BY <1>1, BodyParts
<1>4. FramesOk(m.th[t].ci) /\ Listed(m.th[t], t, m.go) /\ ~m.th[t].fresh
  BY <1>1, <1>3 DEF ThreadOk, OnGo
<1> DEFINE r == m.th[t]
           k == m.go[i].nny
           q == Dead(r, k)
           g == SubSeq(m.go, 1, i - 1)
           o == Without(m, t, i, q)
<1>5. q \in ThreadRecord /\ q.status = "error" /\ q.death = TRUE /\ q.fresh = r.fresh /\ q.ci = r.ci /\ q.tbc = r.tbc
  <2> HIDE DEF r, k
  <2> QED
    BY <1>2, <1>3 DEF ThreadRecord, r, k, Dead
<1> HIDE DEF q
<1>6. Listed(q, t, g)
  <2>1. \A j \in DOMAIN r.tbc : Covered(q, t, g, r.tbc[j])
    BY ONLY <1>5 DEF Covered
  <2> HIDE DEF g, r
  <2> QED
    BY <1>3, <1>4, <1>5, <2>1, CoveredStill DEF r
<1>7. OffGo(q, t)
  <2>1. t # Main
    BY <1>1, ThreadsAssumption
  <2> QED
    BY <1>4, <1>5, <2>1 DEF OffGo
<1>8. Body(o, SubSeq(F, 1, i - 1)) /\ ~On(o.go, t) /\ Lua(o.go) /\ Top(o).op = "call"
  <2>1. FramesOk(q.ci) /\ ~q.fresh
    BY <1>4, <1>5
  <2>2. q \in ThreadRecord /\ Listed(q, t, SubSeq(m.go, 1, i - 1)) /\ Begins(m.go[i])
    BY <1>1, <1>5, <1>6
  <2>3. o = Without(m, t, i, q)
    OBVIOUS
  <2>4. FramesOk(q.ci) /\ OffGo(q, t) /\ ~q.fresh /\ Listed(q, t, SubSeq(m.go, 1, i - 1)) /\ Begins(m.go[i]) /\ q \in ThreadRecord
    BY <1>7, <2>1, <2>2
  <2>5. Body(Without(m, t, i, q), SubSeq(F, 1, i - 1)) /\ ~On(Without(m, t, i, q).go, t)
        /\ Lua(Without(m, t, i, q).go) /\ Calls(Without(m, t, i, q))
    BY <2>4, DropThread
  <2> HIDE DEF o
  <2> QED
    BY <2>3, <2>5 DEF Calls
<1>10. o.th[t] = q
  <2>1. m.th \in [Threads -> ThreadRecord]
    BY BodyParts
  <2> QED
    BY <1>1, <2>1 DEF Without
<1> QED
  BY <1>5, <1>8, <1>10 DEF q

\* What Resume does with an error: a yieldable pcall recovers it, or its
\* coroutine dies.
LEMMA CaughtIs ==
  ASSUME NEW m, NEW F, Body(m, F), Lua(m.go), Top(m).op \in LuaOps, NEW t, NEW i \in 1 .. Len(m.go),
         \A j \in i .. Len(m.go) : m.go[j].t = t, m.go[i].k = "resume", \A j \in i + 1 .. Len(m.go) : m.go[j].k = "call"
  PROVE  LET r == m.th[t]
             e == m.go[i]
             g == SubSeq(m.go, 1, i - 1)
             x == [e EXCEPT !.loop = TRUE]
             n == CaughtByResume("error", [m EXCEPT !.go = Append(g, e)], e)
         IN /\ x \in Activation /\ Alike(x, e)
            /\ Recoverable(r) # {} => n = [th |-> [m.th EXCEPT ![t] = Recover(r)], go |-> Append(g, x)]
            /\ Recoverable(r) = {} => /\ \A p \in DOMAIN r.ci : r.ci[p].op \notin {"protect", "pcall", "error"}
                                      /\ n = ResumeFailed(Without(m, t, i, Dead(r, e.nny)), t, e.wrap)
<1>1. /\ t \in Coroutines /\ t \in Threads /\ Begins(m.go[i]) /\ m.go[i] \in Activation /\ m.go[i].t = t
      /\ NoneBelow(m.go, i, t)
      /\ i - 1 \in 0 .. Len(m.go) /\ On(m.go, t) /\ Last(m.go).t = t /\ m.go # <<>>
  BY ResumePiece
<1> DEFINE e == m.go[i]
           g == SubSeq(m.go, 1, i - 1)
           h == Append(g, e)
           r == m.th[t]
           c == r.ci
           x == [e EXCEPT !.loop = TRUE]
           n == [m EXCEPT !.go = h]
<1>2. m = [th |-> m.th, go |-> m.go] /\ m.th \in [Threads -> ThreadRecord] /\ m.go \in Seq(Activation)
  BY BodyParts
<1>3. g \in Seq(Activation)
  BY <1>1, <1>2
<1>4. Front(h) = g
  <2> HIDE DEF g, e
  <2> QED
    BY <1>1, <1>3, OneMore DEF e
<1>5. n = [th |-> m.th, go |-> h]
  <2> DEFINE T == m.th
             G == m.go
  <2>1. m = [th |-> T, go |-> G]
    BY <1>2
  <2> HIDE DEF h, T, G
  <2>2. [[th |-> T, go |-> G] EXCEPT !.go = h] = [th |-> T, go |-> h]
    OBVIOUS
  <2> QED
    BY <2>1, <2>2 DEF T
<1> HIDE DEF n
<1>6. n.th = m.th /\ n.go = h
  BY <1>5
<1>7. x \in Activation /\ Alike(x, e)
  <2>1. e \in [k : {"resume"}, t : Coroutines, nny : Nat, loop : BOOLEAN, wrap : BOOLEAN]
    <3> HIDE DEF e
    <3> QED
      BY <1>1 DEF Activation, e
  <2> HIDE DEF e
  <2>2. x \in [k : {"resume"}, t : Coroutines, nny : Nat, loop : BOOLEAN, wrap : BOOLEAN]
    BY <2>1
  <2>3. x.k = e.k /\ x.t = e.t /\ e.k = "resume"
    BY <2>1
  <2> HIDE DEF x
  <2> QED
    BY <2>2, <2>3 DEF Activation, Alike, Begins, Ends, ClosesSelf, Halts, Protects
<1>8. CASE Recoverable(r) # {}
  <2> DEFINE o == [th |-> [m.th EXCEPT ![t] = Recover(r)], go |-> Append(g, x)]
  <2>1. CaughtByResume("error", n, e) = o
    <3> HIDE DEF g, h, x
    <3> QED
      BY <1>1, <1>4, <1>6, <1>8 DEF CaughtByResume, x
  <2> HIDE DEF o
  <2> QED
    BY <1>7, <1>8, <2>1 DEF n, o
<1>9. CASE Recoverable(r) = {}
  <2> DEFINE q == Dead(r, e.nny)
             o == Without(m, t, i, q)
  <2>1. r \in ThreadRecord /\ Floors(c, m.go, F, t) /\ c # <<>> /\ Last(c) = Top(m)
    BY <1>1, RunningParts
  <2>2. c \in Seq(CallInfo)
    BY <2>1, ThreadParts
  <2>3. \A j \in DOMAIN m.go : m.go[j].t = t => ~Protects(m.go[j])
    <3>1. \A j \in DOMAIN m.go : j \in 1 .. i - 1 \/ j = i \/ j \in i + 1 .. Len(m.go)
      BY <1>2
    <3> QED
      BY <1>1, <3>1 DEF Protects, NoneBelow
  <2>4. \A p \in DOMAIN c : c[p].op # "protect"
    <3>1. Last(c).op # "protect"
      BY <2>1 DEF LuaOps
    <3> QED
      BY <2>1, <2>2, <2>3, <3>1, NoneProtects
  <2>5. \A p \in DOMAIN c : c[p].op \notin {"pcall", "error"}
    BY ONLY <1>9, <2>2, SMTT(60) DEF Recoverable
  <2>7. [[th |-> [m.th EXCEPT ![t].nny = e.nny], go |-> g] EXCEPT !.th[t].status = "error", !.th[t].death = TRUE] = o
    <3> DEFINE T == m.th
               k == e.nny
    <3>1. T \in [Threads -> ThreadRecord] /\ t \in Threads
      BY <1>1, <1>2
    <3> HIDE DEF T, k, g
    <3>2. Died(T, t, k, g) = [th |-> [T EXCEPT ![t] = Dead(T[t], k)], go |-> g]
      BY <3>1, DeadIs
    <3> QED
      BY <3>2 DEF T, k, g, Died, Dead, Without
  <2>8. CaughtByResume("error", n, e) = ResumeFailed(o, t, e.wrap)
    <3> HIDE DEF g, h, x, q, o
    <3> QED
      BY <1>1, <1>4, <1>6, <1>9, <2>7 DEF CaughtByResume
  <2>9. \A p \in DOMAIN c : c[p].op \notin {"protect", "pcall", "error"}
    BY <2>4, <2>5
  <2> HIDE DEF o
  <2> QED
    BY ONLY <1>7, <1>9, <2>8, <2>9 DEF n, o
<1> QED
  BY <1>8, <1>9

\* Either way the machine is in order.
LEMMA ResumeCatches ==
  ASSUME NEW m, NEW F, Body(m, F), Lua(m.go), Top(m).op \in LuaOps, NEW t, NEW i \in 1 .. Len(m.go),
         \A j \in i .. Len(m.go) : m.go[j].t = t, m.go[i].k = "resume", \A j \in i + 1 .. Len(m.go) : m.go[j].k = "call"
  PROVE  \E E : Good(CaughtByResume("error", [m EXCEPT !.go = Append(SubSeq(m.go, 1, i - 1), m.go[i])], m.go[i]), E)
<1> DEFINE e == m.go[i]
           g == SubSeq(m.go, 1, i - 1)
           r == m.th[t]
           x == [e EXCEPT !.loop = TRUE]
           n == CaughtByResume("error", [m EXCEPT !.go = Append(g, e)], e)
           q == Dead(r, e.nny)
           o == Without(m, t, i, q)
           p == [th |-> [m.th EXCEPT ![t] = Recover(r)], go |-> Append(g, x)]
<1>1. /\ x \in Activation /\ Alike(x, e)
      /\ Recoverable(r) # {} => n = p
      /\ Recoverable(r) = {} => /\ \A k \in DOMAIN r.ci : r.ci[k].op \notin {"protect", "pcall", "error"}
                                /\ n = ResumeFailed(o, t, e.wrap)
  BY CaughtIs
<1> HIDE DEF n
<1>2. CASE Recoverable(r) # {}
  <2>1. \E E : Good(p, E)
    BY <1>1, <1>2, RecoverBody
  <2> HIDE DEF p
  <2> QED
    BY <1>1, <1>2, <2>1 DEF n
<1>3. CASE Recoverable(r) = {}
  <2> DEFINE D == SubSeq(F, 1, i - 1)
  <2>1. Body(o, D) /\ ~On(o.go, t) /\ Lua(o.go) /\ Top(o).op = "call"
    <3>1. m.go[i].k = "resume" /\ \A j \in i .. Len(m.go) : m.go[j].t = t
      OBVIOUS
    <3>2. \A k \in DOMAIN m.th[t].ci : m.th[t].ci[k].op \notin {"protect", "pcall", "error"}
      BY <1>1, <1>3
    <3> HIDE DEF x, n, p
    <3> QED
      BY <3>1, <3>2, DieDeparts
  <2>2. t \in Coroutines
    BY ResumePiece
  <2> HIDE DEF o, D
  <2>3. \E E : Good(ResumeFailed(o, t, e.wrap), E)
    BY <2>1, <2>2, ResumeFailedBody
  <2> HIDE DEF e
  <2> QED
    BY <1>1, <1>3, <2>3 DEF n, e
<1> QED
  BY <1>2, <1>3

\* An error of Lua code reaches what catches it.
LEMMA ErrorBody ==
  ASSUME NEW m, NEW F, Body(m, F), Lua(m.go), Top(m).op \in LuaOps
  PROVE  \E E : Good(Throw("error", m), E)
<1> DEFINE g == m.go
           t == Last(g).t
           i == Max({j \in 1 .. Len(g) : Catches(g[j], "error")})
           e == g[i]
           l == SubSeq(g, 1, i - 1)
           q == [m.th[t] EXCEPT !.ci = e.ci, !.nny = e.nny]
           reset == [m.th EXCEPT ![e.t].ci = e.ci, ![e.t].nny = e.nny]
<1>1. g \in Seq(Activation) /\ GoOk(g) /\ m.th \in [Threads -> ThreadRecord] /\ g # <<>>
  BY BodyParts DEF Lua
<1>2. m.th[t] \in ThreadRecord /\ t \in Threads /\ m.th[t].status = "ok" /\ ~m.th[t].fresh /\ ~m.th[t].death
  BY <1>1, RunningParts
<1>3. 1 \in 1 .. Len(g) /\ Catches(g[1], "error")
  <2>1. Hosts(g[1]) /\ 1 \in 1 .. Len(g)
    BY <1>1 DEF GoOk
  <2> QED
    BY <2>1 DEF Hosts, Protects, Catches
<1>4. i \in 1 .. Len(g) /\ Catches(e, "error") /\ \A j \in i + 1 .. Len(g) : ~Catches(g[j], "error")
  <2> HIDE DEF g
  <2> QED
    BY <1>1, <1>3, CatchIs
<1> HIDE DEF i
<1>5. (\A j \in i .. Len(g) : g[j].t = t) /\ (\A j \in i + 1 .. Len(g) : g[j].k = "call") /\ i \in i .. Len(g)
  <2> HIDE DEF g
  <2>1. g \in Seq(Activation) /\ GoOk(g) /\ i \in 1 .. Len(g) /\ \A j \in i + 1 .. Len(g) : ~Catches(g[j], "error")
    BY <1>1, <1>4
  <2>2. (\A j \in i .. Len(g) : g[j].t = Last(g).t) /\ ("error" # "closed" => \A j \in i + 1 .. Len(g) : g[j].k = "call")
    BY <2>1, AboveCatch, ZenonT(60)
  <2>3. i \in i .. Len(g)
    BY <2>1
  <2> QED
    BY <2>2, <2>3
<1>6. e \in Activation /\ e.t = t /\ e.k \in {"closing", "resume", "protect"}
  BY <1>1, <1>4, <1>5 DEF Catches
<1>7. Throw("error", m) =
        CASE e.k = "resume" -> CaughtByResume("error", [m EXCEPT !.go = Append(l, e)], e)
          [] e.k = "protect" ->
               [th |-> reset,
                go |-> Append(l, [k |-> "closing", t |-> e.t, ci |-> e.ci, nny |-> e.nny,
                                  level |-> e.level, err |-> TRUE, then |-> "pcall"])]
          [] e.k = "closing" ->
               [th |-> reset, go |-> Append(l, [e EXCEPT !.err = @ \/ TRUE])]
  BY DEF Throw, i
<1>8. CASE e.k = "resume"
  <2>1. Throw("error", m) = CaughtByResume("error", [m EXCEPT !.go = Append(l, e)], e)
    BY <1>7, <1>8
  <2>2. \E E : Good(CaughtByResume("error", [m EXCEPT !.go = Append(l, e)], e), E)
    BY <1>4, <1>5, <1>8, ResumeCatches
  <2> QED
    BY <2>1, <2>2
<1>9. CASE Halts(e)
  <2>1. e.ci \in Seq(CallInfo) /\ e.nny \in Nat /\ e.level \in Nat
    BY <1>6, <1>9, ActivationParts DEF Halts
  <2>2. /\ q \in ThreadRecord /\ q.ci = e.ci /\ q.nny = e.nny /\ q.status = m.th[t].status /\ q.death = m.th[t].death
        /\ q.fresh = m.th[t].fresh /\ q.tbc = m.th[t].tbc /\ reset = [m.th EXCEPT ![t] = q]
    <3> DEFINE T == m.th
               c == e.ci
               k == e.nny
               p == Reset(T[t], c, k)
    <3>1. T \in [Threads -> ThreadRecord] /\ t \in Threads /\ c \in Seq(CallInfo) /\ k \in Nat
      BY <1>1, <1>2, <2>1
    <3> HIDE DEF T, c, k, t
    <3>2. /\ p \in ThreadRecord /\ p.ci = c /\ p.nny = k /\ p.status = T[t].status /\ p.death = T[t].death
          /\ p.fresh = T[t].fresh /\ p.tbc = T[t].tbc
          /\ AllReset(T, t, c, k) = [T EXCEPT ![t] = p]
      BY <3>1, ResetIs
    <3>3. p = q /\ reset = AllReset(T, t, c, k)
      BY <1>6 DEF T, c, k, Reset, AllReset
    <3> HIDE DEF p, q, reset
    <3> QED
      BY <3>2, <3>3 DEF T, c, k
  <2> HIDE DEF q, reset
  <2>3. CASE e.k = "protect"
    <3> DEFINE x == [k |-> "closing", t |-> e.t, ci |-> e.ci, nny |-> e.nny, level |-> e.level, err |-> TRUE, then |-> "pcall"]
    <3>1. Throw("error", m) = [th |-> [m.th EXCEPT ![t] = q], go |-> Append(l, x)]
      BY <1>7, <2>2, <2>3
    <3>2. x \in Activation
      BY <1>2, <1>6, <2>1 DEF Activation
    <3>3. x.k = "closing" /\ x.then = "pcall" /\ x.t = t /\ x.ci = e.ci /\ x.nny = e.nny /\ x.level = e.level
      BY <1>6
    <3>4. Protects(e)
      BY ONLY <2>3 DEF Protects
    <3> HIDE DEF x
    <3>5. \E E : Good([th |-> [m.th EXCEPT ![t] = q], go |-> Append(l, x)], E)
      BY <1>2, <1>4, <1>5, <2>2, <3>2, <3>3, <3>4, CatchPcall, Zenon
    <3> QED
      BY <3>1, <3>5
  <2>4. CASE e.k = "closing"
    <3> DEFINE x == [e EXCEPT !.err = @ \/ TRUE]
    <3>1. Throw("error", m) = [th |-> [m.th EXCEPT ![t] = q], go |-> Append(l, x)]
      BY <1>7, <2>2, <2>4
    <3>2. e \in [k : {"closing"}, t : Threads, ci : Seq(CallInfo), nny : Nat, level : Nat, err : BOOLEAN,
                 then : {"pcall", "close", "wrap", "self"}]
      <4> HIDE DEF e
      <4> QED
        BY <1>6, <2>4 DEF Activation
    <3>3. x \in Activation /\ x.k = "closing" /\ x.then = e.then /\ x.t = t /\ x.ci = e.ci /\ x.nny = e.nny /\ x.level = e.level
      <4> HIDE DEF e
      <4> QED
        BY <1>6, <3>2 DEF Activation
    <3> HIDE DEF x
    <3>4. CASE e.then = "pcall"
      <4>1. Protects(e)
        BY <2>4, <3>4 DEF Protects
      <4>2. \E E : Good([th |-> [m.th EXCEPT ![t] = q], go |-> Append(l, x)], E)
        BY <1>2, <1>4, <1>5, <2>2, <3>3, <3>4, <4>1, CatchPcall, ZenonT(30)
      <4> QED
        BY <3>1, <4>2
    <3>5. CASE e.then # "pcall"
      <4>1. Ends(e) /\ Alike(x, e)
        BY <1>6, <2>4, <3>3, <3>5 DEF Ends, Alike, Begins, ClosesSelf, Halts, Protects
      <4>2. q.ci = <<>> /\ q.nny = 1
        <5>1. ActivationOk(g, i)
          BY ONLY <1>1, <1>4 DEF GoOk
        <5> QED
          BY <2>2, <4>1, <5>1 DEF ActivationOk
      <4>3. \E E : Good([th |-> [m.th EXCEPT ![t] = q], go |-> Append(l, x)], E)
        BY <1>2, <1>4, <1>5, <2>2, <3>3, <4>1, <4>2, CatchEnds
      <4> QED
        BY <3>1, <4>3
    <3> QED
      BY <3>4, <3>5
  <2> QED
    BY <1>9, <2>3, <2>4 DEF Halts
<1> QED
  BY <1>6, <1>8, <1>9 DEF Halts

-----------------------------------------------------------------------------
(* Yields.                                                                 *)

\* A thread that may yield runs under its Resume and yieldable calls only.
LEMMA ZeroPiece ==
  ASSUME NEW g \in Seq(Activation), GoOk(g), Lua(g), NEW t, Runs(g, t), Count(g, Len(g), t) = 0
  PROVE  \E i \in 1 .. Len(g) :
           /\ g[i].k = "resume" /\ \A j \in i .. Len(g) : g[j].t = t
           /\ \A j \in i + 1 .. Len(g) : g[j].k = "call" /\ ~g[j].ny
<1> DEFINE n == Len(g)
           i == From(g, n, t)
<1>1. n \in Nat /\ n \in 0 .. Len(g) /\ n \in 1 .. n /\ DOMAIN g = 1 .. n /\ Last(g) = g[n]
  BY DEF Lua, Last
<1> HIDE DEF n
<1>2. i \in 0 .. n /\ (i # 0 => g[i].t = t /\ (g[i].k = "resume" \/ Ends(g[i])))
      /\ \A j \in 1 .. n : g[j].t = t /\ (g[j].k = "resume" \/ Ends(g[j])) => j <= i
  BY <1>1, FromIs
<1>3. Unyieldable(g, n, t) = {} /\ i # 0 /\ g[i].k = "resume"
  <2>1. Cardinality(Unyieldable(g, n, t)) + (IF i = 0 \/ g[i].k = "closing" THEN 1 ELSE 0) = 0
    BY DEF Count, n
  <2>2. IsFiniteSet(Unyieldable(g, n, t)) /\ Cardinality(Unyieldable(g, n, t)) \in Nat
    BY <1>1, CountType
  <2>3. Cardinality(Unyieldable(g, n, t)) = 0 /\ ~(i = 0 \/ g[i].k = "closing")
    <3> HIDE DEF i
    <3> QED
      BY <2>1, <2>2
  <2>4. Unyieldable(g, n, t) = {}
    BY <2>2, <2>3, FS_EmptySet
  <2> QED
    BY <1>2, <2>3, <2>4 DEF Ends
<1>4. \A j \in i + 1 .. n : ~(g[j].t = t /\ g[j].k = "call" /\ g[j].ny)
  BY <1>3 DEF Unyieldable
<1> HIDE DEF i
<1>5. i \in 1 .. n /\ g[i].t = Last(g).t /\ Last(g).t = t
  BY <1>2, <1>3 DEF Runs
<1>6. \A j \in i + 1 .. n : g[j].t = t /\ ~Begins(g[j])
  BY <1>1, <1>5, PieceOfTop DEF n
<1>7. ASSUME NEW j \in i + 1 .. n PROVE g[j].k = "call" /\ ~g[j].ny
  <2>1. j \in 1 .. n /\ ~(j <= i) /\ (j = n \/ (j < n /\ j + 1 \in i + 1 .. n))
    BY <1>1, <1>5
  <2>2. g[j] \in Activation /\ ActivationOk(g, j)
    BY <1>1, <2>1 DEF GoOk
  <2>3. g[j].k # "resume" /\ ~Ends(g[j])
    BY <1>2, <1>6, <2>1
  <2>4. ~Halts(g[j])
    <3>1. ASSUME Halts(g[j]) PROVE FALSE
      <4>1. j # n
        BY <1>1, <3>1 DEF Lua, Halts
      <4>2. g[j + 1].k = "call" /\ g[j + 1].ny /\ g[j + 1].t = t
        BY <1>6, <2>1, <2>2, <3>1, <4>1 DEF ActivationOk, n
      <4> QED
        BY <1>4, <2>1, <4>1, <4>2
    <3> QED
      BY <3>1
  <2>5. g[j].k = "call"
    BY <2>2, <2>3, <2>4, ActivationParts DEF Halts
  <2> QED
    BY <1>4, <1>6, <2>5
<1>8. \A j \in i .. n : g[j].t = t
  <2>1. \A j \in i .. n : j = i \/ j \in i + 1 .. n
    BY ONLY <1>5
  <2> QED
    BY <1>5, <1>6, <2>1
<1> QED
  BY <1>3, <1>5, <1>7, <1>8 DEF n

\* All that its frames below the one on top wait for has a continuation.
LEMMA ZeroSettled ==
  ASSUME NEW m, NEW F, Body(m, F), Lua(m.go), NEW t, t = Last(m.go).t, m.th[t].nny = 0
  PROVE  \A p \in 1 .. Len(m.th[t].ci) - 1 : m.th[t].ci[p].op \notin {"protect", "plain"}
<1> DEFINE g == m.go
           c == m.th[t].ci
<1>1. g \in Seq(Activation) /\ GoOk(g) /\ g # <<>> /\ Lua(g)
  BY BodyParts DEF Lua
<1>2. Runs(g, t) /\ Floors(c, g, F, t) /\ Count(g, Len(g), t) = 0
  BY <1>1, RunningParts
<1>3. PICK i \in 1 .. Len(g) :
        /\ g[i].k = "resume" /\ \A j \in i .. Len(g) : g[j].t = t
        /\ \A j \in i + 1 .. Len(g) : g[j].k = "call" /\ ~g[j].ny
  <2> HIDE DEF g
  <2> QED
    BY <1>1, <1>2, ZeroPiece
<1>4. NoneBelow(g, i, t)
  BY <1>3, ResumePiece
<1>5. \A j \in DOMAIN g : g[j].t = t => ~Protects(g[j]) /\ ~(g[j].k = "call" /\ g[j].ny)
  <2>1. \A j \in DOMAIN g : j \in 1 .. i - 1 \/ j = i \/ j \in i + 1 .. Len(g)
    BY <1>1
  <2> QED
    BY <1>3, <1>4, <2>1 DEF Protects, NoneBelow
<1> QED
  BY ONLY <1>2, <1>5, SMTT(60) DEF Floors, Anchored

\* A list stays covered while the frames keep their places, and Lua frames stay
\* Lua frames.
LEMMA SameListed ==
  ASSUME NEW r \in ThreadRecord, NEW q \in ThreadRecord, NEW t, NEW g, NEW h, Listed(r, t, g), q.tbc = r.tbc, ~r.death,
         \A p \in DOMAIN r.ci : p \in DOMAIN q.ci /\ q.ci[p].pos = r.ci[p].pos
                                /\ (r.ci[p].op \in LuaOps => q.ci[p].op \in LuaOps)
                                /\ (r.ci[p].op = "error" => q.ci[p].op = "error" /\ q.ci[p].level = r.ci[p].level),
         \A j \in DOMAIN g : g[j].t = t => g[j].k # "closing"
  PROVE  Listed(q, t, h)
<1>1. ASSUME NEW n \in DOMAIN r.tbc, Covered(r, t, g, r.tbc[n]) PROVE Covered(q, t, h, r.tbc[n])
  <2> DEFINE x == r.tbc[n]
  <2>1. CASE \E k \in DOMAIN r.ci : r.ci[k].op \in LuaOps /\ r.ci[k].pos = x.base
    BY <2>1 DEF Covered
  <2>2. CASE \E k \in DOMAIN r.ci : r.ci[k].op = "error" /\ x.level >= r.ci[k].level
    BY <2>2, SMTT(60) DEF Covered
  <2> QED
    BY <1>1, <2>1, <2>2 DEF Covered
<1> QED
  BY <1>1, CoveredStill

\* Machine n is m, whose thread t has left Go's stack from its Resume at i on,
\* with record q.
Yields(m, F, t, i, q, n) ==
  /\ m.go[i].k = "resume" /\ \A j \in i .. Len(m.go) : m.go[j].t = t
  /\ \A j \in i + 1 .. Len(m.go) : m.go[j].k = "call"
  /\ q.status = "yield" /\ t \in Coroutines
  /\ Body(Without(m, t, i, q), SubSeq(F, 1, i - 1)) /\ Lua(Without(m, t, i, q).go)
  /\ ~On(Without(m, t, i, q).go, t) /\ Without(m, t, i, q).th[t] = q
  /\ n = Back(Without(m, t, i, q))

\* What a yield does: its coroutine leaves Go's stack, and whatever resumed it
\* runs on.
LEMMA YieldIs ==
  ASSUME NEW m, NEW F, Body(m, F), Lua(m.go), Top(m).op = "run", NEW t, t = Last(m.go).t, m.th[t].nny = 0
  PROVE  \E i \in 1 .. Len(m.go), q \in ThreadRecord :
           Yields(m, F, t, i, q, Throw("yield", [m EXCEPT !.th[t] = [Calling(m.th[t]) EXCEPT !.status = "yield"]]))
<1> DEFINE g == m.go
           r == m.th[t]
           a == Calling(r)
           b == [a EXCEPT !.status = "yield"]
           y == [m EXCEPT !.th[t] = b]
<1>1. g \in Seq(Activation) /\ GoOk(g) /\ m.th \in [Threads -> ThreadRecord] /\ g # <<>> /\ m = [th |-> m.th, go |-> g]
  BY BodyParts DEF Lua
<1>2. /\ r \in ThreadRecord /\ t \in Threads /\ r.status = "ok" /\ ~r.fresh /\ ~r.death /\ r.ci # <<>> /\ FramesOk(r.ci)
      /\ Listed(r, t, g) /\ Runs(g, t) /\ Count(g, Len(g), t) = 0 /\ Last(r.ci) = Top(m) /\ Last(r.ci) = r.ci[Len(r.ci)]
  BY <1>1, RunningParts, SMTT(60)
<1>3. PICK i \in 1 .. Len(g) :
        /\ g[i].k = "resume" /\ \A j \in i .. Len(g) : g[j].t = t
        /\ \A j \in i + 1 .. Len(g) : g[j].k = "call" /\ ~g[j].ny
  <2> HIDE DEF g
  <2> QED
    BY <1>1, <1>2, ZeroPiece
<1>4. /\ t \in Coroutines /\ Begins(g[i]) /\ g[i] \in Activation /\ g[i].t = t
      /\ (\A j \in 1 .. i - 1 : g[j].t # t) /\ i - 1 \in 0 .. Len(g)
  <2>1. i \in 1 .. Len(m.go) /\ (\A j \in i .. Len(m.go) : m.go[j].t = t) /\ m.go[i].k = "resume"
    BY <1>3
  <2>2. NoneBelow(m.go, i, t)
    BY <2>1, ResumePiece, SMTT(60)
  <2>3. t \in Coroutines /\ Begins(m.go[i]) /\ m.go[i] \in Activation /\ m.go[i].t = t /\ i - 1 \in 0 .. Len(m.go)
    BY <2>1, ResumePiece, SMTT(60)
  <2> QED
    BY <2>2, <2>3 DEF NoneBelow
<1> DEFINE e == g[i]
           l == SubSeq(g, 1, i - 1)
           k == e.nny
           q == [b EXCEPT !.nny = k]
           o == Without(m, t, i, q)
<1>5. /\ a \in ThreadRecord /\ Len(a.ci) = Len(r.ci) /\ a.ci # <<>> /\ SameRest(a, r)
      /\ (\A p \in 1 .. Len(r.ci) - 1 : a.ci[p] = r.ci[p])
      /\ Last(a.ci) = a.ci[Len(r.ci)] /\ Last(a.ci).op = "call"
      /\ Last(a.ci).pos = r.ci[Len(r.ci)].pos
  <2>1. "call" \in LuaOps \union GoOps /\ 0 \in Nat
    BY SMTT(60) DEF LuaOps
  <2> HIDE DEF r
  <2> QED
    BY <1>2, <2>1, MarkIs DEF Calling
<1>6. FramesOk(a.ci)
  <2>1. Body([th |-> [m.th EXCEPT ![t] = a], go |-> m.go], F)
    <3>1. Top(m).op \in LuaOps /\ "call" \in LuaOps /\ 0 \in Nat /\ "call" # "return"
      BY DEF LuaOps
    <3> QED
      BY <3>1, MarkBody DEF Calling
  <2>2. [m.th EXCEPT ![t] = a][t] = a
    BY <1>1, <1>2
  <2> HIDE DEF a
  <2> QED
    BY <1>2, <2>1, <2>2 DEF Body, ThreadOk
<1>7. k \in Nat
  BY <1>3, <1>4, ActivationParts
<1> HIDE DEF a
<1>8. q \in ThreadRecord /\ q.ci = a.ci /\ q.status = "yield" /\ q.death = r.death /\ q.fresh = r.fresh /\ q.tbc = r.tbc /\ q.nny = k
  <2> HIDE DEF k, r
  <2> QED
    BY <1>5, <1>7 DEF ThreadRecord, SameRest
<1>9. a.ci \in Seq(CallInfo) /\ r.ci \in Seq(CallInfo) /\ DOMAIN r.ci = 1 .. Len(r.ci) /\ DOMAIN a.ci = 1 .. Len(r.ci)
  <2> HIDE DEF r
  <2> QED
    BY <1>2, <1>5, ThreadParts, AllOnes
<1>10. \A p \in 1 .. Len(r.ci) : p = Len(r.ci) \/ p \in 1 .. Len(r.ci) - 1
  BY ONLY <1>9, SMTT(60)
<1> HIDE DEF q
<1>11. OffGo(q, t)
  <2>1. \A p \in 1 .. Len(r.ci) - 1 : r.ci[p].op \notin {"protect", "plain"}
    BY ZeroSettled, SMTT(60)
  <2>2. Settled(q.ci)
    <3> HIDE DEF r
    <3> QED
      BY ONLY <1>5, <1>8, <1>9, <1>10, <2>1 DEF Settled
  <2>3. Waits(q.ci)
    BY <1>5, <1>8 DEF Waits
  <2>4. t # Main
    BY <1>4, ThreadsAssumption
  <2> QED
    BY <1>2, <1>8, <2>2, <2>3, <2>4 DEF OffGo
<1>12. Listed(q, t, l)
  <2>1. \A j \in DOMAIN g : g[j].t = t => g[j].k # "closing"
    <3>1. \A j \in DOMAIN g : j \in 1 .. i - 1 \/ j = i \/ j \in i + 1 .. Len(g)
      BY <1>1
    <3> QED
      BY <1>3, <1>4, <3>1
  <2>2. \A p \in DOMAIN r.ci : p \in DOMAIN q.ci /\ q.ci[p].pos = r.ci[p].pos
                                /\ (r.ci[p].op \in LuaOps => q.ci[p].op \in LuaOps)
                                /\ (r.ci[p].op = "error" => q.ci[p].op = "error" /\ q.ci[p].level = r.ci[p].level)
    <3>1. r.ci[Len(r.ci)].op = "run"
      BY <1>2
    <3> HIDE DEF r
    <3> QED
      BY ONLY <1>5, <1>8, <1>9, <1>10, <3>1, SMTT(60) DEF LuaOps
  <2> HIDE DEF g, l, r
  <2> QED
    BY <1>2, <1>8, <2>1, <2>2, SameListed
<1>13. Body(o, SubSeq(F, 1, i - 1)) /\ Lua(o.go) /\ ~On(o.go, t) /\ o.th[t] = q
  <2>1. FramesOk(q.ci) /\ ~q.fresh
    BY <1>2, <1>6, <1>8
  <2> HIDE DEF o
  <2> QED
    BY <1>3, <1>4, <1>8, <1>11, <1>12, <2>1, DropThread, SMTT(60) DEF o
<1>14. Throw("yield", y) = Back(o)
  <2> DEFINE T == m.th
             Y == [T EXCEPT ![t] = b]
             I == Max({j \in 1 .. Len(g) : Catches(g[j], "yield")})
  <2>1. y = [th |-> Y, go |-> g]
    <3>1. m = [th |-> T, go |-> g] /\ T \in [Threads -> ThreadRecord] /\ t \in Threads
      BY <1>1, <1>2
    <3> HIDE DEF b, T, g
    <3>2. [[th |-> T, go |-> g] EXCEPT !.th[t] = b] = [th |-> [T EXCEPT ![t] = b], go |-> g]
      BY <3>1
    <3> QED
      BY ONLY <3>1, <3>2, SMTT(60) DEF T
  <2>2. I = i
    <3>1. Catches(g[i], "yield")
      BY <1>3 DEF Catches
    <3>2. I \in i .. Len(g) /\ Catches(g[I], "yield")
      <4> HIDE DEF g
      <4> QED
        BY <1>1, <3>1, CatchIs
    <3>3. I \notin i + 1 .. Len(g)
      <4> HIDE DEF I
      <4> QED
        BY <1>3, <3>2 DEF Catches
    <3> HIDE DEF I, g
    <3> QED
      BY <3>2, <3>3
  <2> HIDE DEF I
  <2>3. y.th = Y /\ y.go = g
    BY <2>1
  <2> DEFINE z == [y EXCEPT !.go = Append(l, e)]
  <2>4. Throw("yield", y) = CaughtByResume("yield", z, e)
    <3> DEFINE J == Max({j \in 1 .. Len(y.go) : Catches(y.go[j], "yield")})
    <3>1. J = i
      <4> HIDE DEF g, y
      <4>1. {j \in 1 .. Len(y.go) : Catches(y.go[j], "yield")} = {j \in 1 .. Len(g) : Catches(g[j], "yield")}
        BY <2>3
      <4> QED
        BY <2>2, <4>1 DEF I
    <3>2. y.go[J].k = "resume" => Throw("yield", y) = CaughtByResume("yield", [y EXCEPT !.go = Append(SubSeq(y.go, 1, J - 1), y.go[J])], y.go[J])
      <4> HIDE DEF y
      <4> QED
        BY DEF Throw
    <3> HIDE DEF J, y
    <3> QED
      BY <1>3, <2>3, <3>1, <3>2
  <2>5. z.th = Y /\ z.go = Append(l, e)
    <3> HIDE DEF l, e, Y, g
    <3>1. [[th |-> Y, go |-> g] EXCEPT !.go = Append(l, e)] = [th |-> Y, go |-> Append(l, e)]
      BY SMTT(60)
    <3> HIDE DEF y
    <3> QED
      BY <2>1, <3>1
  <2>6. Front(Append(l, e)) = l
    <3>1. l \in Seq(Activation)
      BY <1>1, <1>4
    <3> HIDE DEF l, e
    <3> QED
      BY <1>4, <3>1, OneMore DEF e
  <2>7. CaughtByResume("yield", z, e) = Back([th |-> [Y EXCEPT ![t].nny = k], go |-> l])
    <3> HIDE DEF z, l, Y
    <3> QED
      BY <1>4, <2>5, <2>6 DEF CaughtByResume
  <2>8. [Y EXCEPT ![t].nny = k] = [T EXCEPT ![t] = q]
    <3>1. T \in [Threads -> ThreadRecord] /\ t \in Threads
      BY <1>1, <1>2
    <3> HIDE DEF T, b, k
    <3> QED
      BY <3>1 DEF q
  <2>9. o = [th |-> [T EXCEPT ![t] = q], go |-> l]
    BY DEF Without
  <2> HIDE DEF o, y, z, Y, T, l
  <2> QED
    BY <2>4, <2>7, <2>8, <2>9
<1> HIDE DEF o
<1> QED
  BY <1>3, <1>4, <1>8, <1>13, <1>14 DEF a, o, Yields

\* The machine is in order then.
LEMMA YieldBody ==
  ASSUME NEW m, NEW F, Body(m, F), Lua(m.go), Top(m).op = "run", NEW t, t = Last(m.go).t, m.th[t].nny = 0
  PROVE  \E E : Good(Throw("yield", [m EXCEPT !.th[t] = [Calling(m.th[t]) EXCEPT !.status = "yield"]]), E)
<1> DEFINE n == Throw("yield", [m EXCEPT !.th[t] = [Calling(m.th[t]) EXCEPT !.status = "yield"]])
<1>1. PICK i \in 1 .. Len(m.go), q \in ThreadRecord : Yields(m, F, t, i, q, n)
  BY YieldIs
<1> HIDE DEF n
<1> DEFINE o == Without(m, t, i, q)
           D == SubSeq(F, 1, i - 1)
<1>2. Body(o, D) /\ Lua(o.go) /\ n = Back(o)
  BY <1>1 DEF Yields
<1> HIDE DEF o, D
<1>3. o.go = <<>> \/ Last(o.go).k # "protect"
  BY <1>2 DEF Lua
<1>4. Good(Back(o), D)
  BY <1>2, <1>3, BackBody
<1> QED
  BY <1>2, <1>4 DEF n

-----------------------------------------------------------------------------
(* A thread that closed itself.                                            *)

\* It has no function and no variable, and is on Go's stack only while it is
\* closed once more.
Finished(r, t, g) ==
  /\ r.ci = <<>> /\ r.tbc = <<>> /\ ~r.fresh /\ r.status # "yield" /\ t # Main
  /\ On(g, t) => Runs(g, t) /\ Ends(Last(g))
  /\ "closeRecovered" \notin Uses => ~r.death
Finishes(m, t) == Finished(m.th[t], t, m.go)

\* What a step does elsewhere.
Untouched(m, n, t) == n.th[t] = m.th[t] /\ ~On(n.go, t)

\* A thread that is off Go's stack, and left alone, stays as it was.
LEMMA StaysFinished ==
  ASSUME NEW m, NEW n, NEW t, Finishes(m, t), Untouched(m, n, t)
  PROVE  Finishes(n, t)
BY DEF Finishes, Finished, Untouched

\* The thread on top is on the stack.
LEMMA TopIsOn ==
  ASSUME NEW g \in Seq(Activation), NEW t, ~On(g, t)
  PROVE  /\ g # <<>> => Last(g).t # t
         /\ \A n \in 0 .. Len(g) : ~On(SubSeq(g, 1, n), t)
         /\ g # <<>> => ~On(Front(g), t) /\ Front(g) \in Seq(Activation)
         /\ \A x : x.t # t => ~On(Append(g, x), t)
<1>1. \A j \in 1 .. Len(g) : g[j].t # t
  BY DEF On
<1>2. g # <<>> => Last(g).t # t
  BY <1>1, LastOne
<1>3. \A n \in 0 .. Len(g) : ~On(SubSeq(g, 1, n), t)
  BY <1>1, FirstOnes DEF On
<1>4. g # <<>> => ~On(Front(g), t) /\ Front(g) \in Seq(Activation)
  <2> SUFFICES ASSUME g # <<>> PROVE ~On(Front(g), t) /\ Front(g) \in Seq(Activation)
    OBVIOUS
  <2> DEFINE n == Len(g) - 1
  <2>1. n \in 0 .. Len(g)
    OBVIOUS
  <2>2. Front(g) = SubSeq(g, 1, n)
    BY DEF Front
  <2> HIDE DEF n
  <2> QED
    BY <1>3, <2>1, <2>2, FirstOnes
<1>5. ASSUME NEW x, x.t # t PROVE ~On(Append(g, x), t)
  <2>1. \A j \in 1 .. Len(g) + 1 : j = Len(g) + 1 \/ j \in 1 .. Len(g)
    OBVIOUS
  <2> DEFINE S == Activation \union {x}
  <2>2. g \in Seq(S) /\ x \in S
    OBVIOUS
  <2> HIDE DEF S
  <2> QED
    BY <1>1, <1>5, <2>1, <2>2, OneMore DEF On
<1> QED
  BY <1>2, <1>3, <1>4, <1>5

\* What a return leaves alone.
LEMMA BackUntouched ==
  ASSUME NEW m, m.go \in Seq(Activation), NEW t \in DOMAIN m.th, ~On(m.go, t)
  PROVE  Untouched(m, Back(m), t)
<1>1. CASE m.go = <<>> \/ Last(m.go).k = "closing"
  BY <1>1 DEF Back, Untouched
<1>2. CASE ~(m.go = <<>> \/ Last(m.go).k = "closing")
  <2> DEFINE s == Last(m.go).t
             g == m.go
  <2>1. Back(m) = [m EXCEPT !.th[s] = Continued(m.th[s])]
    BY <1>2 DEF Back
  <2>2. s # t
    BY <1>2, TopIsOn
  <2> HIDE DEF s
  <2>3. Back(m).th[t] = m.th[t] /\ Back(m).go = m.go
    BY <2>1, <2>2
  <2> QED
    BY <2>3 DEF Untouched
<1> QED
  BY <1>1, <1>2

\* What CloseThread leaves alone.
LEMMA CloseUntouched ==
  ASSUME NEW m, m.th \in [Threads -> ThreadRecord], m.go \in Seq(Activation), NEW t \in Threads, ~On(m.go, t),
         NEW co \in Threads, co # t, NEW then \in {"pcall", "close", "wrap", "self"}
  PROVE  Untouched(m, CloseThread(m, co, then), t)
<1> DEFINE q == [m.th[co] EXCEPT !.status = "ok", !.death = FALSE, !.fresh = FALSE, !.ci = <<>>, !.nny = 1]
           d == m.th[co].death
           x == [k |-> "closing", t |-> co, ci |-> <<>>, nny |-> 1, level |-> 1, err |-> d, then |-> then]
           n == CloseThread(m, co, then)
<1>1. n.th = [m.th EXCEPT ![co] = q] /\ n.go = Append(m.go, x)
  BY DEF CloseThread
<1>2. d \in BOOLEAN
  BY ThreadParts
<1>3. x \in Activation /\ x.t # t
  <2> HIDE DEF d
  <2>1. <<>> \in Seq(CallInfo)
    OBVIOUS
  <2> QED
    BY <1>2, <2>1 DEF Activation
<1> HIDE DEF x, q, n
<1>4. ~On(n.go, t)
  BY <1>1, <1>3, TopIsOn
<1>5. n.th[t] = m.th[t]
  BY <1>1
<1> QED
  BY <1>4, <1>5 DEF Untouched, n

\* A step after another.
LEMMA UntouchedTwice ==
  ASSUME NEW m, NEW n, NEW o, NEW t, Untouched(m, n, t), Untouched(n, o, t)
  PROVE  Untouched(m, o, t)
BY DEF Untouched

\* What auxResume's caller leaves alone.
LEMMA ResumeFailedUntouched ==
  ASSUME NEW m, m.th \in [Threads -> ThreadRecord], m.go \in Seq(Activation), NEW t \in Threads, ~On(m.go, t),
         NEW co \in Threads, co # t, NEW wrap
  PROVE  Untouched(m, ResumeFailed(m, co, wrap), t)
BY BackUntouched, CloseUntouched DEF ResumeFailed

\* What Resume leaves alone when a panic ends its protect.
LEMMA CaughtUntouched ==
  ASSUME NEW m, m.th \in [Threads -> ThreadRecord], m.go \in Seq(Activation), m.go # <<>>, NEW t \in Threads, ~On(m.go, t),
         NEW e \in Activation, e.k = "resume", e.t # t, NEW kind
  PROVE  Untouched(m, CaughtByResume(kind, m, e), t)
<1> DEFINE s == e.t
           k == e.nny
           g == Front(m.go)
           a == [m.th[s] EXCEPT !.nny = k]
           d == [m.th[s] EXCEPT !.nny = k, !.status = "error", !.death = TRUE]
           ended == [th |-> [m.th EXCEPT ![s].nny = k], go |-> g]
           died == [ended EXCEPT !.th[s].status = "error", !.th[s].death = TRUE]
           x == [e EXCEPT !.loop = TRUE]
           again == [th |-> [m.th EXCEPT ![s] = Recover(m.th[s])], go |-> Append(g, x)]
<1>1. s \in Threads /\ k \in Nat
  BY ActivationParts
<1>2. g \in Seq(Activation) /\ ~On(g, t)
  BY TopIsOn
<1>3. a \in ThreadRecord /\ d \in ThreadRecord
  <2> HIDE DEF k, s
  <2>1. m.th[s] \in ThreadRecord
    BY <1>1
  <2> QED
    BY <1>1, <2>1 DEF ThreadRecord
<1>4. ended = [th |-> [m.th EXCEPT ![s] = a], go |-> g]
  <2> HIDE DEF k, s, g
  <2> QED
    BY <1>1
<1>5. died = [th |-> [m.th EXCEPT ![s] = d], go |-> g]
  <2> HIDE DEF k, s, g
  <2>1. Died(m.th, s, k, g) = [th |-> [m.th EXCEPT ![s] = Dead(m.th[s], k)], go |-> g]
    BY <1>1, DeadIs
  <2> QED
    BY <2>1 DEF Died, Dead
<1> HIDE DEF a, d, ended, died
<1>6. /\ ended.th \in [Threads -> ThreadRecord] /\ ended.go = g /\ Untouched(m, ended, t)
      /\ died.th \in [Threads -> ThreadRecord] /\ died.go = g /\ Untouched(m, died, t)
  <2> HIDE DEF g, s
  <2>1. s # t
    BY DEF s
  <2> QED
    BY <1>1, <1>2, <1>3, <1>4, <1>5, <2>1 DEF Untouched
<1>7. Untouched(m, again, t)
  <2>1. x \in Activation /\ x.t = s
    <3>1. e \in [k : {"resume"}, t : Coroutines, nny : Nat, loop : BOOLEAN, wrap : BOOLEAN]
      BY DEF Activation
    <3>2. x \in [k : {"resume"}, t : Coroutines, nny : Nat, loop : BOOLEAN, wrap : BOOLEAN] /\ x.t = e.t
      BY <3>1
    <3> QED
      BY <3>2 DEF Activation
  <2> HIDE DEF x, g, s
  <2>2. s # t
    BY DEF s
  <2>3. ~On(Append(g, x), t)
    BY <1>2, <2>1, <2>2, TopIsOn
  <2> QED
    BY <2>2, <2>3 DEF Untouched
<1>8. /\ Untouched(m, Back(ended), t)
      /\ Untouched(m, ResumeFailed(ended, s, e.wrap), t) /\ Untouched(m, ResumeFailed(died, s, e.wrap), t)
  <2> HIDE DEF g, s
  <2>1. s # t
    BY DEF s
  <2>2. Untouched(ended, Back(ended), t)
    BY <1>2, <1>6, BackUntouched
  <2>3. Untouched(ended, ResumeFailed(ended, s, e.wrap), t) /\ Untouched(died, ResumeFailed(died, s, e.wrap), t)
    BY <1>1, <1>2, <1>6, <2>1, ResumeFailedUntouched
  <2> QED
    BY <1>6, <2>2, <2>3, UntouchedTwice
<1>9. CaughtByResume(kind, m, e) \in {Back(ended), ResumeFailed(ended, s, e.wrap), ResumeFailed(died, s, e.wrap), again}
  <2> HIDE DEF x
  <2> QED
    BY DEF CaughtByResume, ended, died, x
<1> HIDE DEF again, s
<1> QED
  BY <1>7, <1>8, <1>9

\* What a panic leaves alone.
LEMMA ThrowUntouched ==
  ASSUME NEW m, m.th \in [Threads -> ThreadRecord], m.go \in Seq(Activation), m = [th |-> m.th, go |-> m.go],
         NEW t \in Threads, ~On(m.go, t), NEW kind, NEW b \in 1 .. Len(m.go), Catches(m.go[b], kind)
  PROVE  Untouched(m, Throw(kind, m), t)
<1> DEFINE h == m.go
           i == Max({j \in 1 .. Len(h) : Catches(h[j], kind)})
           e == h[i]
           g == SubSeq(h, 1, i - 1)
           reset == [m.th EXCEPT ![e.t].ci = e.ci, ![e.t].nny = e.nny]
           w == [m EXCEPT !.go = Append(g, e)]
           x == [k |-> "closing", t |-> e.t, ci |-> e.ci, nny |-> e.nny, level |-> e.level, err |-> TRUE, then |-> "pcall"]
           y == [e EXCEPT !.err = @ \/ kind # "closed"]
<1>1. i \in 1 .. Len(h) /\ Catches(h[i], kind)
  BY CatchIs
<1> HIDE DEF i
<1>2. e \in Activation /\ e.t \in Threads /\ e.t # t /\ i - 1 \in 0 .. Len(h)
  BY <1>1, ActivationParts DEF On
<1>3. g \in Seq(Activation) /\ ~On(g, t)
  <2> HIDE DEF h
  <2>1. h \in Seq(Activation) /\ ~On(h, t)
    BY DEF h
  <2> QED
    BY <1>2, <2>1, TopIsOn, FirstOnes
<1>4. Throw(kind, m) = CASE e.k = "resume" -> CaughtByResume(kind, w, e)
                         [] e.k = "protect" -> [th |-> reset, go |-> Append(g, x)]
                         [] e.k = "closing" -> [th |-> reset, go |-> Append(g, y)]
  BY DEF Throw, i
<1> HIDE DEF h, e
<1>5. e.k = "resume" => Untouched(m, CaughtByResume(kind, w, e), t)
  <2> SUFFICES ASSUME e.k = "resume" PROVE Untouched(m, CaughtByResume(kind, w, e), t)
    OBVIOUS
  <2> HIDE DEF g
  <2>1. w = [th |-> m.th, go |-> Append(g, e)]
    <3> DEFINE T == m.th
    <3>1. m = [th |-> T, go |-> m.go]
      OBVIOUS
    <3> HIDE DEF T
    <3>2. w = [th |-> T, go |-> Append(g, e)]
      BY ONLY <3>1, SMTT(60)
    <3> QED
      BY <3>2 DEF T
  <2>2. Append(g, e) \in Seq(Activation) /\ Append(g, e) # <<>> /\ ~On(Append(g, e), t)
    <3>1. ~On(Append(g, e), t)
      BY <1>2, <1>3, TopIsOn
    <3>2. Append(g, e) \in Seq(Activation) /\ Append(g, e) # <<>>
      BY ONLY <1>2, <1>3, OneMore
    <3> QED
      BY <3>1, <3>2
  <2>3. w.th = m.th /\ w.go = Append(g, e)
    BY <2>1
  <2> HIDE DEF w
  <2>4. Untouched(w, CaughtByResume(kind, w, e), t)
    BY <1>2, <2>2, <2>3, CaughtUntouched
  <2> QED
    BY <2>3, <2>4 DEF Untouched
<1>6. reset[t] = m.th[t]
  BY <1>2
<1>7. e.k = "protect" => ~On(Append(g, x), t)
  <2> SUFFICES ASSUME e.k = "protect" PROVE ~On(Append(g, x), t)
    OBVIOUS
  <2>1. e.ci \in Seq(CallInfo) /\ e.nny \in Nat /\ e.level \in Nat
    BY <1>2, ActivationParts
  <2>2. x \in Activation /\ x.t = e.t
    BY <1>2, <2>1 DEF Activation
  <2> HIDE DEF x, g
  <2> QED
    BY <1>2, <1>3, <2>2, TopIsOn
<1>8. e.k = "closing" => ~On(Append(g, y), t)
  <2> SUFFICES ASSUME e.k = "closing" PROVE ~On(Append(g, y), t)
    OBVIOUS
  <2>1. e \in [k : {"closing"}, t : Threads, ci : Seq(CallInfo), nny : Nat, level : Nat, err : BOOLEAN,
               then : {"pcall", "close", "wrap", "self"}]
    BY <1>2 DEF Activation
  <2>2. y \in [k : {"closing"}, t : Threads, ci : Seq(CallInfo), nny : Nat, level : Nat, err : BOOLEAN,
               then : {"pcall", "close", "wrap", "self"}] /\ y.t = e.t
    BY <2>1
  <2>3. y \in Activation /\ y.t = e.t
    BY <2>2 DEF Activation
  <2> HIDE DEF y, g
  <2> QED
    BY <1>2, <1>3, <2>3, TopIsOn
<1> HIDE DEF x, y, reset, g, w
<1>9. e.k \in {"resume", "closing", "protect"}
  BY <1>1 DEF Catches, e
<1> QED
  BY <1>4, <1>5, <1>6, <1>7, <1>8, <1>9 DEF Untouched

\* What a return leaves alone.
LEMMA LeaveUntouched ==
  ASSUME NEW m, NEW F, Body(m, F), Lua(m.go), NEW t \in Threads, ~On(m.go, t)
  PROVE  Untouched(m, Leave(m), t)
<1> DEFINE g == m.go
           e == Last(g)
           s == e.t
           f == Last(m.th[s].ci)
           a == [m.th[s] EXCEPT !.ci = Front(@)]
           n == [th |-> [m.th EXCEPT ![s] = a], go |-> g]
<1>1. /\ m = [th |-> m.th, go |-> g] /\ m.th \in [Threads -> ThreadRecord] /\ g \in Seq(Activation) /\ g # <<>>
      /\ e \in Activation /\ e.k \in {"call", "resume"}
  BY BodyParts DEF Lua
<1>2. s \in Threads /\ s # t
  BY <1>1, TopIsOn, ActivationParts
<1>3. Leave(m) = Back(IF ~f.fresh THEN n
                      ELSE IF e.k = "call" THEN EndCall(n)
                      ELSE IF n.th[s].ci # <<>> THEN n
                      ELSE [th |-> [n.th EXCEPT ![s].nny = e.nny], go |-> Front(n.go)])
  <2> DEFINE W == [m EXCEPT !.th[s].ci = Front(@)]
  <2>1. W = n
    BY <1>2, PopIs
  <2>2. Leave(m) = Back(IF ~f.fresh THEN W
                        ELSE IF e.k = "call" THEN EndCall(W)
                        ELSE IF W.th[s].ci # <<>> THEN W
                        ELSE [th |-> [W.th EXCEPT ![s].nny = e.nny], go |-> Front(W.go)])
    <3> HIDE DEF W
    <3> QED
      BY DEF Leave, W
  <2> HIDE DEF W, n, f, e, s
  <2> QED
    BY <2>1, <2>2
<1> HIDE DEF a, f
<1>4. n.go = g /\ DOMAIN n.th = Threads /\ n.th[t] = m.th[t]
  <2> HIDE DEF s, g
  <2> QED
    BY <1>1, <1>2
<1> HIDE DEF n
<1>5. Untouched(m, Back(n), t)
  <2>1. Untouched(n, Back(n), t)
    BY <1>1, <1>4, BackUntouched
  <2> QED
    BY <1>4, <2>1 DEF Untouched
<1>6. Front(g) \in Seq(Activation) /\ ~On(Front(g), t)
  BY <1>1, TopIsOn
<1>7. Untouched(m, Back([th |-> [n.th EXCEPT ![s].nny = e.nny], go |-> Front(n.go)]), t)
  <2> DEFINE o == [th |-> [n.th EXCEPT ![s].nny = e.nny], go |-> Front(n.go)]
  <2>1. o.go = Front(g) /\ t \in DOMAIN o.th /\ o.th[t] = m.th[t]
    <3> DEFINE k == e.nny
    <3> HIDE DEF k, s, g
    <3> QED
      BY <1>2, <1>4
  <2> HIDE DEF o
  <2>2. Untouched(o, Back(o), t)
    BY <1>6, <2>1, BackUntouched
  <2>3. Untouched(m, Back(o), t)
    BY <2>1, <2>2 DEF Untouched
  <2> QED
    BY <2>3 DEF o
<1>8. e.k = "call" => Untouched(m, Back(EndCall(n)), t)
  <2> SUFFICES ASSUME e.k = "call" PROVE Untouched(m, Back(EndCall(n)), t)
    OBVIOUS
  <2> DEFINE o == EndCall(n)
             h == Front(g)
             y == IF e.ny THEN 1 ELSE 0
  <2>1. o = [th |-> [n.th EXCEPT ![s].nny = @ - y], go |-> IF h # <<>> /\ Last(h).k = "protect" THEN Front(h) ELSE h]
    <3> HIDE DEF g
    <3> QED
      BY <1>4 DEF EndCall
  <2>2. o.go \in Seq(Activation) /\ ~On(o.go, t)
    <3> HIDE DEF h
    <3>1. h # <<>> => Front(h) \in Seq(Activation) /\ ~On(Front(h), t)
      BY <1>6, TopIsOn DEF h
    <3> HIDE DEF o
    <3> QED
      BY <1>6, <2>1, <3>1 DEF h
  <2>3. t \in DOMAIN o.th /\ o.th[t] = m.th[t]
    <3> HIDE DEF o, h, y, s
    <3>1. s # t
      BY <1>2
    <3> QED
      BY <1>4, <2>1, <3>1
  <2> HIDE DEF o
  <2>4. Untouched(o, Back(o), t)
    BY <2>2, <2>3, BackUntouched
  <2>5. Untouched(m, Back(o), t)
    BY <2>3, <2>4 DEF Untouched
  <2> QED
    BY <2>5 DEF o
<1> HIDE DEF e, s
<1> QED
  BY <1>1, <1>3, <1>5, <1>7, <1>8

\* A thread that has closed itself is closed once more.
LEMMA CloseFinished ==
  ASSUME NEW m, m.th \in [Threads -> ThreadRecord], m.go \in Seq(Activation), NEW t \in Threads, Finishes(m, t),
         NEW then \in {"close", "wrap", "self"}
  PROVE  Finishes(CloseThread(m, t, then), t)
<1> DEFINE r == m.th[t]
           q == [r EXCEPT !.status = "ok", !.death = FALSE, !.fresh = FALSE, !.ci = <<>>, !.nny = 1]
           d == r.death
           x == [k |-> "closing", t |-> t, ci |-> <<>>, nny |-> 1, level |-> 1, err |-> d, then |-> then]
           n == CloseThread(m, t, then)
<1>1. n.th = [m.th EXCEPT ![t] = q] /\ n.go = Append(m.go, x)
  BY DEF CloseThread
<1>2. d \in BOOLEAN
  BY ThreadParts
<1>3. x \in Activation /\ x.t = t /\ Ends(x)
  <2> HIDE DEF d
  <2>1. <<>> \in Seq(CallInfo)
    OBVIOUS
  <2> QED
    BY <1>2, <2>1 DEF Activation, Ends
<1>4. q.status = "ok" /\ q.death = FALSE /\ q.fresh = FALSE /\ q.ci = <<>> /\ q.tbc = r.tbc
  BY ClosedIs
<1>5. r.tbc = <<>> /\ t # Main
  BY DEF Finishes, Finished
<1> HIDE DEF x, q, n
<1>6. n.th[t] = q /\ Runs(n.go, t) /\ Ends(Last(n.go))
  BY <1>1, <1>3, OneMore DEF Runs
<1> QED
  BY <1>4, <1>5, <1>6 DEF Finishes, Finished, n

\* And by auxResume's caller.
LEMMA ResumeFailedFinished ==
  ASSUME NEW m, NEW F, Body(m, F), NEW t \in Threads, Finishes(m, t), ~On(m.go, t), NEW wrap
  PROVE  Finishes(ResumeFailed(m, t, wrap), t)
<1>1. m.th \in [Threads -> ThreadRecord] /\ m.go \in Seq(Activation)
  BY BodyParts
<1>2. Finishes(Back(m), t)
  BY <1>1, BackUntouched, StaysFinished
<1> QED
  BY <1>1, <1>2, CloseFinished DEF ResumeFailed

-----------------------------------------------------------------------------
(* The end of CloseThread.                                                 *)

\* What the host's protect recovers.
LEMMA FirstCatches ==
  ASSUME NEW g \in Seq(Activation), GoOk(g), g # <<>>, NEW kind, kind # "closed"
  PROVE  1 \in 1 .. Len(g) /\ Catches(g[1], kind)
<1>1. Hosts(g[1])
  BY DEF GoOk
<1> QED
  BY <1>1 DEF Hosts, Protects, Catches

\* All but the last one.
LEMMA ShortFront ==
  ASSUME NEW S, NEW s \in Seq(S), s # <<>>
  PROVE  Len(Front(s)) = Len(s) - 1 /\ Len(s) \in Nat
<1> DEFINE n == Len(s) - 1
<1>1. n \in 0 .. Len(s) /\ Len(s) \in Nat
  OBVIOUS
<1>2. Front(s) = SubSeq(s, 1, n)
  BY DEF Front
<1> HIDE DEF n
<1>3. Len(Front(s)) = n
  BY <1>1, <1>2, FirstOnes
<1> QED
  BY <1>1, <1>3 DEF n

\* A thread that CloseThread has closed has nothing left.
LEMMA EndParts ==
  ASSUME NEW m, NEW F, Body(m, F), m.go # <<>>, NEW t, t = Last(m.go).t, Ends(Last(m.go)), ~HasTBC(m.th[t], Last(m.go).level)
  PROVE  LET r == m.th[t] IN
         /\ r \in ThreadRecord /\ r.ci = <<>> /\ r.tbc = <<>> /\ ~r.fresh /\ ~r.death /\ r.status # "yield"
         /\ t \in Coroutines /\ t \in Threads /\ t # Main
<1> DEFINE g == m.go
           r == m.th[t]
           n == Len(g)
<1>1. g \in Seq(Activation) /\ GoOk(g) /\ F \in Seq(Nat) /\ n \in DOMAIN g /\ Last(g) = g[n] /\ g[n] \in Activation
  BY BodyParts, SMTT(60)
<1>2. r \in ThreadRecord /\ t \in Threads /\ OnGo(r, t, g, F) /\ Floors(r.ci, g, F, t) /\ ~r.fresh /\ ~r.death
      /\ (~Lua(g) => Len(r.ci) = F[Len(g)])
  BY RunningParts
<1>3. ActivationOk(g, n) /\ Ends(g[n]) /\ g[n].t = t
  BY <1>1 DEF GoOk
<1>4. t # Main /\ g[n].level = 1
  BY ONLY <1>3, SMTT(60) DEF ActivationOk
<1>5. F[n] = 0 /\ ~Lua(g)
  BY <1>1, <1>2, <1>3 DEF Floors, Lua, Ends
<1>6. Len(r.ci) = 0
  BY <1>2, <1>5
<1>7. r.ci = <<>>
  <2>1. r.ci \in Seq(CallInfo)
    BY <1>2, ThreadParts
  <2> DEFINE c == r.ci
  <2> HIDE DEF c
  <2>2. c \in Seq(CallInfo) /\ Len(c) = 0 => c = <<>>
    BY SMTT(60)
  <2> QED
    BY <1>6, <2>1, <2>2 DEF c
<1>8. r.tbc = <<>>
  <2>1. ~HasTBC(r, 1)
    BY <1>1, <1>4
  <2> DEFINE s == r.tbc
  <2>2. s \in Seq([level : Nat \ {0}, base : Nat \ {0}, id : Variables])
    BY <1>2, ThreadParts
  <2>3. \A i \in DOMAIN s : s[i].level >= 1
    BY <1>2, LevelsAre
  <2>4. ~(s # <<>> /\ Last(s).level >= 1)
    BY <2>1 DEF HasTBC
  <2> HIDE DEF s
  <2>5. s # <<>> => Len(s) \in DOMAIN s /\ Last(s) = s[Len(s)]
    BY <2>2, LastOne
  <2> QED
    BY <2>3, <2>4, <2>5 DEF s
<1>9. t \in Coroutines
  BY <1>2, <1>4 DEF Threads
<1> QED
  BY <1>2, <1>4, <1>7, <1>8, <1>9 DEF OnGo

\* What coroutine.status says of a thread that is not on Go's stack, by its
\* record.
Rests(r) ==
  CASE r.status = "yield" -> "suspended"
    [] r.status = "error" -> "dead"
    [] r.status = "ok" -> IF r.ci # <<>> THEN "normal" ELSE IF r.fresh THEN "suspended" ELSE "dead"

\* A closed thread leaves Go's stack.
LEMMA ClosedDeparts ==
  ASSUME NEW m, NEW F, Body(m, F), NEW t, NEW i \in 1 .. Len(m.go), Begins(m.go[i]), \A j \in i .. Len(m.go) : m.go[j].t = t,
         NEW q \in ThreadRecord, q.ci = <<>>, q.tbc = <<>>, ~q.fresh, q.status # "yield", q.death => q.status = "error", t # Main
  PROVE  Departs(m, F, t, i, q)
<1>1. FramesOk(q.ci)
  BY DEF FramesOk
<1>2. OffGo(q, t)
  BY DEF OffGo
<1> DEFINE h == SubSeq(m.go, 1, i - 1)
<1>3. Listed(q, t, h)
  BY DEF Listed
<1> QED
  BY <1>1, <1>2, <1>3, DepartsIs

\* How CloseThread ends for coroutine.close, or for wrap.
LEMMA EndsCloseIs ==
  ASSUME NEW m, NEW F, Body(m, F), m.go # <<>>, NEW t, t = Last(m.go).t, Ends(Last(m.go)), ~HasTBC(m.th[t], Last(m.go).level),
         Last(m.go).then # "self"
  PROVE  \E q \in ThreadRecord :
           /\ Len(m.go) \in 1 .. Len(m.go) /\ Departs(m, F, t, Len(m.go), q) /\ Rests(q) = "dead"
           /\ Finishes(Without(m, t, Len(m.go), q), t)
           /\ EndClosing(Last(m.go), m) = (IF Last(m.go).then = "close" THEN Back(Without(m, t, Len(m.go), q))
                                           ELSE Throw("error", Without(m, t, Len(m.go), q)))
<1> DEFINE g == m.go
           r == m.th[t]
           n == Len(g)
           e == Last(g)
           s == IF e.err THEN "error" ELSE r.status
           q == [r EXCEPT !.status = s]
           T == m.th
           o == Without(m, t, n, q)
           z == [th |-> [T EXCEPT ![e.t].status = IF e.err THEN "error" ELSE @], go |-> Front(g)]
<1>1. g \in Seq(Activation) /\ GoOk(g) /\ F \in Seq(Nat) /\ n \in DOMAIN g /\ e = g[n] /\ e \in Activation
      /\ T \in [Threads -> ThreadRecord]
  BY BodyParts
<1>2. /\ r \in ThreadRecord /\ r.ci = <<>> /\ r.tbc = <<>> /\ ~r.fresh /\ ~r.death /\ r.status # "yield"
      /\ t \in Coroutines /\ t \in Threads /\ t # Main
  BY EndParts
<1>3. Begins(e) /\ e.then \in {"close", "wrap"}
  BY <1>1, ActivationParts DEF Begins, Ends
<1>4. s \in {"ok", "yield", "error"} /\ s # "yield"
  BY <1>2, ThreadParts
<1>5. q \in ThreadRecord /\ q.ci = <<>> /\ q.tbc = <<>> /\ ~q.fresh /\ ~q.death /\ q.status = s
  <2> HIDE DEF s, r
  <2> QED
    BY <1>2, <1>4 DEF ThreadRecord
<1>6. z = o
  <2>1. [T EXCEPT ![e.t].status = IF e.err THEN "error" ELSE @] = [T EXCEPT ![t] = q]
    <3> DEFINE b == e.err
    <3> HIDE DEF T, b
    <3>1. [T EXCEPT ![t].status = IF b THEN "error" ELSE @] = [T EXCEPT ![t] = [T[t] EXCEPT !.status = IF b THEN "error" ELSE T[t].status]]
      BY <1>1, <1>2
    <3> QED
      BY <3>1 DEF T, b
  <2>2. Front(g) = SubSeq(g, 1, n - 1)
    BY DEF Front
  <2> HIDE DEF q
  <2> QED
    BY <2>1, <2>2 DEF Without
<1> HIDE DEF q, z
<1>7. n \in 1 .. Len(m.go) /\ Departs(m, F, t, n, q)
  <2>1. n \in 1 .. Len(m.go) /\ \A j \in n .. Len(m.go) : m.go[j].t = t
    <3> HIDE DEF g
    <3>1. n \in 1 .. Len(g) /\ \A j \in n .. Len(g) : j = n
      BY <1>1
    <3>2. g[n].t = t
      BY <1>1 DEF g
    <3> QED
      BY <3>1, <3>2 DEF g
  <2>2. Begins(m.go[n])
    BY <1>1, <1>3
  <2> HIDE DEF n
  <2> QED
    BY <1>2, <1>5, <2>1, <2>2, ClosedDeparts
<1>8. EndClosing(e, m) = (IF e.then = "close" THEN Back(z) ELSE Throw("error", z))
  <2> HIDE DEF e
  <2> QED
    BY <1>3 DEF EndClosing, z
<1> HIDE DEF o
<1>9. EndClosing(e, m) = (IF e.then = "close" THEN Back(o) ELSE Throw("error", o))
  BY <1>6, <1>8
<1>10. Rests(q) = "dead"
  BY <1>4, <1>5 DEF Rests
<1>11. Finishes(o, t)
  <2>1. o.th[t] = q /\ ~On(o.go, t)
    BY <1>7 DEF Departs, o
  <2> QED
    BY <1>2, <1>5, <1>4, <2>1 DEF Finishes, Finished
<1> QED
  BY <1>5, <1>7, <1>9, <1>10, <1>11 DEF o

\* The machine is in order then, and its thread finished.
LEMMA EndsClose ==
  ASSUME NEW m, NEW F, Body(m, F), m.go # <<>>, NEW t, t = Last(m.go).t, Ends(Last(m.go)), ~HasTBC(m.th[t], Last(m.go).level),
         Last(m.go).then # "self"
  PROVE  (\E E : Good(EndClosing(Last(m.go), m), E)) /\ Finishes(EndClosing(Last(m.go), m), t)
<1> DEFINE e == Last(m.go)
<1>1. PICK q \in ThreadRecord :
        /\ Len(m.go) \in 1 .. Len(m.go) /\ Departs(m, F, t, Len(m.go), q) /\ Rests(q) = "dead"
        /\ Finishes(Without(m, t, Len(m.go), q), t)
        /\ EndClosing(e, m) = (IF e.then = "close" THEN Back(Without(m, t, Len(m.go), q))
                              ELSE Throw("error", Without(m, t, Len(m.go), q)))
  BY EndsCloseIs
<1> DEFINE o == Without(m, t, Len(m.go), q)
           D == SubSeq(F, 1, Len(m.go) - 1)
<1> HIDE DEF e
<1>2. Body(o, D) /\ Lua(o.go) /\ Calls(o) /\ ~On(o.go, t) /\ t \in Coroutines /\ t \in Threads /\ Finishes(o, t)
  BY <1>1 DEF Departs, Threads
<1>3. EndClosing(e, m) = IF e.then = "close" THEN Back(o) ELSE Throw("error", o)
  BY <1>1
<1> HIDE DEF o, D
<1>4. o.go # <<>> /\ GoOk(o.go) /\ o = [th |-> o.th, go |-> o.go] /\ o.th \in [Threads -> ThreadRecord] /\ o.go \in Seq(Activation)
  BY <1>2, BodyParts DEF Lua
<1>5. Finishes(Back(o), t)
  BY <1>2, <1>4, BackUntouched, StaysFinished
<1>6. Finishes(Throw("error", o), t)
  <2>1. 1 \in 1 .. Len(o.go) /\ Catches(o.go[1], "error")
    BY <1>4, FirstCatches
  <2>2. Untouched(o, Throw("error", o), t)
    BY <1>2, <1>4, <2>1, ThrowUntouched
  <2> QED
    BY <1>2, <2>2, StaysFinished
<1>7. Top(o).op \in LuaOps /\ (o.go = <<>> \/ Last(o.go).k # "protect")
  BY <1>2 DEF Calls, Lua, LuaOps
<1>8. \E E : Good(Back(o), E)
  BY <1>2, <1>7, BackBody
<1>9. \E E : Good(Throw("error", o), E)
  BY <1>2, <1>7, ErrorBody
<1> QED
  BY <1>3, <1>5, <1>6, <1>8, <1>9 DEF e

\* Where the errClosed of a CloseRunning goes: what its thread began with, or a
\* CloseThread's loop.
LEMMA ClosedCatch ==
  ASSUME NEW g \in Seq(Activation), GoOk(g), g # <<>>, ClosesSelf(Last(g)), NEW t, t = Last(g).t
  PROVE  LET h == Front(g)
             i == Max({j \in 1 .. Len(h) : Catches(h[j], "closed")})
         IN /\ i \in 1 .. Len(g) /\ i \in 1 .. Len(h) /\ h[i] = g[i] /\ g[i] \in Activation /\ SubSeq(h, 1, i - 1) = SubSeq(g, 1, i - 1)
            /\ \A j \in i .. Len(g) : g[j].t = t
            /\ g[i].k = "resume" \/ Ends(g[i])
<1> DEFINE n == Len(g) - 1
           h == Front(g)
           i == Max({j \in 1 .. Len(h) : Catches(h[j], "closed")})
<1>1. Len(g) \in Nat /\ Len(g) \in DOMAIN g /\ Last(g) = g[Len(g)] /\ n \in 0 .. Len(g) /\ Last(g) \in Activation
      /\ n + 1 = Len(g) /\ \A j \in 1 .. n : j \in 1 .. Len(g) /\ j < Len(g)
  BY LastOne
<1>2. h = SubSeq(g, 1, n)
  BY DEF Front
<1> HIDE DEF n, h
<1>3. h \in Seq(Activation) /\ Len(h) = n /\ DOMAIN h = 1 .. n /\ (\A j \in 1 .. n : h[j] = g[j]) /\ (n > 0 => Last(h) = g[n])
  BY <1>1, <1>2, FirstOnes
<1>4. GoOk(h)
  BY <1>1, <1>2, GoCut
<1>5. ActivationOk(g, Len(g)) /\ ClosesSelf(g[Len(g)]) /\ g[Len(g)].t = t
  BY <1>1 DEF GoOk
<1>6. t # Main /\ ~Begins(g[Len(g)])
  BY <1>5 DEF ActivationOk, ClosesSelf, Ends, Begins
<1>7. On(g, t)
  BY <1>1 DEF On
<1>8. PICK b \in 1 .. Len(g) : g[b].t = t /\ Begins(g[b])
  BY <1>6, <1>7, PieceBegins
<1>9. b \in 1 .. n /\ n > 0
  BY <1>1, <1>6, <1>8
<1>10. Catches(h[b], "closed") /\ b \in 1 .. Len(h)
  BY <1>3, <1>8, <1>9 DEF Begins, Catches
<1>11. i \in b .. Len(h) /\ i \in 1 .. Len(h) /\ Catches(h[i], "closed") /\ \A j \in i + 1 .. Len(h) : ~Catches(h[j], "closed")
  BY <1>3, <1>10, CatchIs
<1> HIDE DEF i
<1>12. \A j \in b + 1 .. Len(g) : g[j].t = t
  BY <1>8, PieceOfTop
<1>13. \A j \in i .. Len(g) : g[j].t = t
  <2>1. \A j \in i .. Len(g) : j = b \/ j \in b + 1 .. Len(g)
    BY <1>1, <1>3, <1>8, <1>11
  <2> QED
    BY <1>8, <1>12, <2>1
<1>14. i \in 1 .. n /\ i \in 1 .. Len(g) /\ i \in 1 .. Len(g) - 1 /\ i - 1 \in 0 .. n /\ i \in i .. Len(g)
  BY <1>1, <1>3, <1>11
<1>15. h[i] = g[i] /\ g[i] \in Activation
  BY <1>3, <1>14
<1>16. g[i].k = "resume" \/ Ends(g[i])
  <2>1. g[i].k \in {"closing", "resume"}
    BY <1>11, <1>15 DEF Catches
  <2>2. g[i].t = t
    BY <1>13, <1>14
  <2>3. ~(g[i].k = "closing" /\ g[i].then = "pcall")
    BY <1>5, <1>14, <2>2 DEF ActivationOk
  <2> QED
    BY <2>1, <2>3 DEF Ends
<1>17. SubSeq(h, 1, i - 1) = SubSeq(g, 1, i - 1)
  BY <1>1, <1>2, <1>14, FirstOfFirst
<1> QED
  BY <1>11, <1>13, <1>14, <1>15, <1>16, <1>17 DEF i, h

\* What the end of a closing leaves alone.
LEMMA EndUntouched ==
  ASSUME NEW m, NEW F, Body(m, F), m.go # <<>>, Last(m.go).k = "closing", NEW t \in Threads, ~On(m.go, t)
  PROVE  Untouched(m, EndClosing(Last(m.go), m), t)
<1> DEFINE g == m.go
           e == Last(g)
           s == e.t
           h == Front(g)
           a == [m.th[s] EXCEPT !.status = IF e.err THEN "error" ELSE @]
           n == [th |-> [m.th EXCEPT ![s].status = IF e.err THEN "error" ELSE @], go |-> h]
           o == [m EXCEPT !.go = h]
<1>1. /\ m = [th |-> m.th, go |-> g] /\ m.th \in [Threads -> ThreadRecord] /\ g \in Seq(Activation) /\ GoOk(g)
      /\ e \in Activation /\ e = g[Len(g)] /\ Len(g) \in DOMAIN g
  BY BodyParts
<1>2. s \in Threads /\ s # t /\ e.err \in BOOLEAN /\ e.then \in {"pcall", "close", "wrap", "self"}
  <2>1. e.t # t
    BY <1>1, TopIsOn
  <2> QED
    BY <1>1, <2>1, ActivationParts
<1>3. h \in Seq(Activation) /\ ~On(h, t)
  BY <1>1, TopIsOn
<1>4. a \in ThreadRecord /\ [m.th EXCEPT ![s].status = IF e.err THEN "error" ELSE @] = [m.th EXCEPT ![s] = a]
  <2> DEFINE b == e.err
  <2> HIDE DEF b, s
  <2>1. m.th[s] \in ThreadRecord
    BY <1>1, <1>2
  <2>2. a \in ThreadRecord
    BY <1>2, <2>1 DEF ThreadRecord
  <2> QED
    BY <2>2
<1> HIDE DEF a
<1>5. n.th \in [Threads -> ThreadRecord] /\ n.go = h /\ n.th[t] = m.th[t] /\ n = [th |-> n.th, go |-> n.go]
  <2> HIDE DEF s, e, h
  <2>1. n = [th |-> [m.th EXCEPT ![s] = a], go |-> h]
    BY <1>4
  <2> HIDE DEF n
  <2> QED
    BY <1>1, <1>2, <1>4, <2>1
<1>6. o.th = m.th /\ o.go = h
  <2> DEFINE T == m.th
  <2>1. m = [th |-> T, go |-> g]
    BY <1>1
  <2> HIDE DEF T, g, h
  <2>2. o = [th |-> T, go |-> h]
    BY ONLY <2>1
  <2> QED
    BY <2>2 DEF T
<1>7. e.then = "pcall" => Untouched(m, Back(o), t)
  <2> HIDE DEF o, h
  <2>1. Untouched(o, Back(o), t)
    BY <1>1, <1>3, <1>6, BackUntouched
  <2> QED
    BY <1>6, <2>1 DEF Untouched
<1>8. e.then = "close" => Untouched(m, Back(n), t)
  <2> HIDE DEF n, h
  <2>1. Untouched(n, Back(n), t)
    BY <1>3, <1>5, BackUntouched
  <2> QED
    BY <1>5, <2>1 DEF Untouched
<1>9. e.then = "wrap" => Untouched(m, Throw("error", n), t)
  <2> SUFFICES ASSUME e.then = "wrap" PROVE Untouched(m, Throw("error", n), t)
    OBVIOUS
  <2>1. h # <<>> /\ h[1] = g[1] /\ Len(h) >= 1 /\ 1 \in 1 .. Len(h)
    <3> DEFINE l == Len(g) - 1
    <3>1. g # <<>> => Hosts(g[1])
      BY <1>1 DEF GoOk
    <3>2. ~Hosts(e)
      BY DEF Hosts, Protects
    <3>3. Len(g) # 1
      BY <1>1, <3>1, <3>2
    <3>4. l \in 1 .. Len(g) /\ l \in 0 .. Len(g) /\ 1 \in 1 .. l
      <4> HIDE DEF g
      <4>1. Len(g) \in Nat /\ Len(g) \in 1 .. Len(g)
        BY <1>1
      <4>2. \A z \in Nat : z \in 1 .. z /\ z # 1 => z - 1 \in 1 .. z /\ z - 1 \in 0 .. z /\ 1 \in 1 .. z - 1
        OBVIOUS
      <4> QED
        BY ONLY <3>3, <4>1, <4>2
    <3>5. h = SubSeq(g, 1, l)
      BY DEF Front
    <3> HIDE DEF l, h, g
    <3>6. Len(h) = l /\ h[1] = g[1]
      BY <1>1, <3>4, <3>5, FirstOnes
    <3> QED
      BY <3>4, <3>6
  <2>2. Catches(n.go[1], "error")
    <3>1. Hosts(g[1])
      BY <1>1 DEF GoOk
    <3> QED
      BY <1>5, <2>1, <3>1 DEF Catches, Hosts, Protects
  <2>3. 1 \in 1 .. Len(n.go)
    BY <1>5, <2>1
  <2> HIDE DEF n, h
  <2>4. Untouched(n, Throw("error", n), t)
    BY <1>3, <1>5, <2>2, <2>3, ThrowUntouched
  <2> QED
    BY <1>5, <2>4 DEF Untouched
<1>10. e.then = "self" => Untouched(m, Throw("closed", n), t)
  <2> SUFFICES ASSUME e.then = "self" PROVE Untouched(m, Throw("closed", n), t)
    OBVIOUS
  <2> DEFINE b == Max({j \in 1 .. Len(h) : Catches(h[j], "closed")})
  <2>1. b \in 1 .. Len(h) /\ Catches(h[b], "closed")
    <3>1. ClosesSelf(Last(g))
      BY DEF ClosesSelf
    <3>2. b \in 1 .. Len(h) /\ h[b] = g[b] /\ (g[b].k = "resume" \/ Ends(g[b]))
      <4> HIDE DEF g, e
      <4>1. g # <<>>
        BY DEF g
      <4>2. Front(g) = h
        OBVIOUS
      <4> HIDE DEF h
      <4> QED
        BY <1>1, <3>1, <4>1, <4>2, ClosedCatch
    <3> HIDE DEF b, h
    <3> QED
      BY <3>2 DEF Catches, Ends
  <2> HIDE DEF b
  <2>2. b \in 1 .. Len(n.go) /\ Catches(n.go[b], "closed")
    BY <1>5, <2>1
  <2> HIDE DEF n, h
  <2>3. Untouched(n, Throw("closed", n), t)
    BY <1>3, <1>5, <2>2, ThrowUntouched
  <2> QED
    BY <1>5, <2>3 DEF Untouched
<1>11. EndClosing(e, m) = CASE e.then = "pcall" -> Back(o)
                            [] e.then = "close" -> Back(n)
                            [] e.then = "wrap" -> Throw("error", n)
                            [] e.then = "self" -> Throw("closed", n)
  <2> HIDE DEF e
  <2> QED
    BY DEF EndClosing
<1> HIDE DEF n, o, e
<1> QED
  BY <1>2, <1>7, <1>8, <1>9, <1>10, <1>11 DEF e

\* Machine n is m, where the activation at i took errClosed: a CloseThread's
\* loop, which closes on, or a Resume, which ends.
Taken(m, F, t, i, n) ==
  \/ Ends(m.go[i]) /\ \E y \in Activation : Alike(y, m.go[i]) /\ n.go = Append(SubSeq(m.go, 1, i - 1), y)
  \/ \E q, wrap : Departs(m, F, t, i, q) /\ Rests(q) = "dead" /\ n = ResumeFailed(Without(m, t, i, q), t, wrap)

\* CloseThread ends in CloseRunning, which throws errClosed.
LEMMA EndsSelf ==
  ASSUME NEW m, NEW F, Body(m, F), m.go # <<>>, NEW t, t = Last(m.go).t, ClosesSelf(Last(m.go)), ~HasTBC(m.th[t], Last(m.go).level)
  PROVE  /\ (\E E : Good(EndClosing(Last(m.go), m), E)) /\ Finishes(EndClosing(Last(m.go), m), t)
         /\ Taken(m, F, t, Max({j \in 1 .. Len(Front(m.go)) : Catches(Front(m.go)[j], "closed")}), EndClosing(Last(m.go), m))
<1> DEFINE g == m.go
           h == Front(g)
           i == Max({j \in 1 .. Len(h) : Catches(h[j], "closed")})
           e == Last(g)
           x == g[i]
           l == SubSeq(g, 1, i - 1)
           r == m.th[t]
           s == IF e.err THEN "error" ELSE r.status
           a == [r EXCEPT !.status = s]
           T == m.th
           U == [T EXCEPT ![t] = a]
           z == [th |-> [T EXCEPT ![e.t].status = IF e.err THEN "error" ELSE @], go |-> h]
<1>1. g \in Seq(Activation) /\ GoOk(g) /\ g # <<>> /\ T \in [Threads -> ThreadRecord] /\ e \in Activation
  BY BodyParts
<1>2. /\ r \in ThreadRecord /\ r.ci = <<>> /\ r.tbc = <<>> /\ ~r.fresh /\ ~r.death /\ r.status # "yield"
      /\ t \in Coroutines /\ t \in Threads /\ t # Main
  <2>1. Ends(Last(m.go))
    BY DEF Ends, ClosesSelf
  <2> QED
    BY <2>1, EndParts
<1>3. /\ i \in 1 .. Len(g) /\ i \in 1 .. Len(h) /\ h[i] = x /\ x \in Activation /\ SubSeq(h, 1, i - 1) = l
      /\ (\A j \in i .. Len(g) : g[j].t = t)
      /\ x.k = "resume" \/ Ends(x)
  <2> HIDE DEF g
  <2> QED
    BY <1>1, ClosedCatch, ZenonT(60) DEF g
<1>4. s \in {"ok", "yield", "error"} /\ s # "yield"
  BY <1>2, ThreadParts
<1>5. a \in ThreadRecord /\ a.ci = <<>> /\ a.tbc = <<>> /\ ~a.fresh /\ ~a.death /\ a.status # "yield"
  <2> HIDE DEF s, r
  <2> QED
    BY <1>2, <1>4 DEF ThreadRecord
<1>6. z = [th |-> U, go |-> h]
  <2> DEFINE b == e.err
  <2> HIDE DEF T, b, h
  <2>1. [T EXCEPT ![t].status = IF b THEN "error" ELSE @] = [T EXCEPT ![t] = [T[t] EXCEPT !.status = IF b THEN "error" ELSE T[t].status]]
    BY <1>1, <1>2
  <2> QED
    BY <2>1 DEF T, b
<1> HIDE DEF i
<1>7. EndClosing(e, m) = Throw("closed", z)
  <2> HIDE DEF e
  <2> QED
    BY DEF EndClosing, ClosesSelf, z, e
<1>8. Throw("closed", z) =
        CASE x.k = "resume" -> CaughtByResume("closed", [z EXCEPT !.go = Append(l, x)], x)
          [] x.k = "protect" ->
               [th |-> [U EXCEPT ![x.t].ci = x.ci, ![x.t].nny = x.nny],
                go |-> Append(l, [k |-> "closing", t |-> x.t, ci |-> x.ci, nny |-> x.nny,
                                  level |-> x.level, err |-> TRUE, then |-> "pcall"])]
          [] x.k = "closing" ->
               [th |-> [U EXCEPT ![x.t].ci = x.ci, ![x.t].nny = x.nny], go |-> Append(l, [x EXCEPT !.err = @ \/ ("closed" # "closed")])]
  <2> HIDE DEF z, U, h
  <2>1. z.go = h /\ z.th = U
    BY <1>6
  <2>2. Max({j \in 1 .. Len(z.go) : Catches(z.go[j], "closed")}) = i
    <3>1. {j \in 1 .. Len(z.go) : Catches(z.go[j], "closed")} = {j \in 1 .. Len(h) : Catches(h[j], "closed")}
      BY <2>1
    <3> QED
      BY <3>1 DEF i
  <2> DEFINE J == Max({j \in 1 .. Len(z.go) : Catches(z.go[j], "closed")})
             X == z.go[J]
             L == SubSeq(z.go, 1, J - 1)
  <2>3. Throw("closed", z) =
          CASE X.k = "resume" -> CaughtByResume("closed", [z EXCEPT !.go = Append(L, X)], X)
            [] X.k = "protect" ->
                 [th |-> [z.th EXCEPT ![X.t].ci = X.ci, ![X.t].nny = X.nny],
                  go |-> Append(L, [k |-> "closing", t |-> X.t, ci |-> X.ci, nny |-> X.nny,
                                    level |-> X.level, err |-> TRUE, then |-> "pcall"])]
            [] X.k = "closing" ->
                 [th |-> [z.th EXCEPT ![X.t].ci = X.ci, ![X.t].nny = X.nny], go |-> Append(L, [X EXCEPT !.err = @ \/ ("closed" # "closed")])]
    BY DEF Throw
  <2>4. J = i
    BY <2>2
  <2> HIDE DEF J
  <2>5. X = x /\ L = l
    BY <1>3, <2>1, <2>4
  <2> HIDE DEF X, L, x, l
  <2> QED
    BY <2>1, <2>3, <2>5
<1> HIDE DEF z
<1>9. U \in [Threads -> ThreadRecord] /\ U[t] = a /\ \A q : [U EXCEPT ![t] = q] = [T EXCEPT ![t] = q]
  <2> HIDE DEF T, a
  <2> QED
    BY <1>1, <1>2, <1>5
<1>10. x.t = t /\ i \in DOMAIN g
  <2> HIDE DEF g
  <2>1. i \in i .. Len(g) /\ i \in DOMAIN g
    BY <1>1, <1>3
  <2> QED
    BY <1>3, <2>1
<1> HIDE DEF U, a
<1> DEFINE Settles == (\E E : Good(EndClosing(e, m), E)) /\ Finishes(EndClosing(e, m), t) /\ Taken(m, F, t, i, EndClosing(e, m))
<1>11. ASSUME Ends(x) PROVE Settles
  <2> DEFINE y == [x EXCEPT !.err = @ \/ ("closed" # "closed")]
             c == x.ci
             k == x.nny
             q == [a EXCEPT !.ci = c, !.nny = k]
  <2>1. c = <<>> /\ k = 1 /\ x.k = "closing"
    <3>1. ActivationOk(g, i)
      BY <1>1, <1>10 DEF GoOk
    <3> QED
      BY <1>11, <3>1 DEF ActivationOk, Ends
  <2>2. c \in Seq(CallInfo) /\ k \in Nat
    BY <2>1
  <2>3. /\ q \in ThreadRecord /\ q.ci = c /\ q.nny = k /\ q.status = a.status /\ q.death = a.death
        /\ q.fresh = a.fresh /\ q.tbc = a.tbc /\ [U EXCEPT ![t].ci = c, ![t].nny = k] = [U EXCEPT ![t] = q]
    <3> DEFINE p == Reset(U[t], c, k)
    <3> HIDE DEF c, k, x
    <3>1. /\ p \in ThreadRecord /\ p.ci = c /\ p.nny = k /\ p.status = U[t].status /\ p.death = U[t].death
          /\ p.fresh = U[t].fresh /\ p.tbc = U[t].tbc /\ AllReset(U, t, c, k) = [U EXCEPT ![t] = p]
      <4>1. U \in [Threads -> ThreadRecord] /\ t \in Threads /\ c \in Seq(CallInfo) /\ k \in Nat
        BY <1>2, <1>9, <2>2
      <4> QED
        BY ONLY <4>1, ResetIs
    <3>2. p = q /\ [U EXCEPT ![t].ci = c, ![t].nny = k] = AllReset(U, t, c, k)
      BY <1>9 DEF Reset, AllReset, q
    <3> HIDE DEF p, q
    <3> QED
      BY <1>9, <3>1, <3>2
  <2> HIDE DEF q
  <2>4. y \in Activation /\ Alike(y, x)
    <3>1. x \in [k : {"closing"}, t : Threads, ci : Seq(CallInfo), nny : Nat, level : Nat, err : BOOLEAN,
                  then : {"pcall", "close", "wrap", "self"}]
      <4> HIDE DEF x
      <4> QED
        BY <1>3, <2>1 DEF Activation, x
    <3> HIDE DEF x
    <3>2. y \in [k : {"closing"}, t : Threads, ci : Seq(CallInfo), nny : Nat, level : Nat, err : BOOLEAN,
                  then : {"pcall", "close", "wrap", "self"}]
      BY <3>1
    <3>3. y.k = x.k /\ y.t = x.t /\ y.then = x.then /\ y.ci = x.ci /\ y.nny = x.nny /\ y.level = x.level
      BY <3>1
    <3> HIDE DEF y
    <3> QED
      BY <2>1, <3>2, <3>3 DEF Activation, Alike, Begins, Ends, ClosesSelf, Halts, Protects
  <2>5. EndClosing(e, m) = [th |-> [T EXCEPT ![t] = q], go |-> Append(l, y)]
    <3>1. Throw("closed", z) = [th |-> [U EXCEPT ![x.t].ci = x.ci, ![x.t].nny = x.nny], go |-> Append(l, y)]
      <4> HIDE DEF l, y
      <4> QED
        BY <1>8, <2>1 DEF y
    <3>2. [U EXCEPT ![x.t].ci = x.ci, ![x.t].nny = x.nny] = [T EXCEPT ![t] = q]
      BY <1>9, <1>10, <2>3
    <3> HIDE DEF y, l, T, x, e
    <3> QED
      BY <1>7, <3>1, <3>2
  <2>6. q.tbc = m.th[t].tbc /\ q.ci = <<>> /\ q.nny = 1 /\ q.status # "yield" /\ q.tbc = <<>> /\ ~q.death /\ ~q.fresh
    BY <1>2, <1>5, <2>1, <2>3
  <2> HIDE DEF y
  <2>7. \E E : Good([th |-> [m.th EXCEPT ![t] = q], go |-> Append(SubSeq(m.go, 1, i - 1), y)], E)
    BY <1>3, <1>11, <2>3, <2>4, <2>6, CatchEnds
  <2>8. Finishes([th |-> [m.th EXCEPT ![t] = q], go |-> Append(SubSeq(m.go, 1, i - 1), y)], t)
    <3>1. l \in Seq(Activation)
      BY <1>1, <1>3
    <3>2. y.t = t /\ Ends(y)
      BY <1>10, <1>11, <2>4 DEF Alike
    <3> DEFINE N == [th |-> [m.th EXCEPT ![t] = q], go |-> Append(l, y)]
    <3>3. N.th[t] = q /\ N.go = Append(l, y)
      <4> HIDE DEF l
      <4> QED
        BY <1>1, <1>2
    <3> HIDE DEF l
    <3>4. Last(Append(l, y)) = y /\ Append(l, y) # <<>>
      BY ONLY <2>4, <3>1, OneMore
    <3> HIDE DEF N
    <3>5. Finishes(N, t)
      BY <1>2, <2>6, <3>2, <3>3, <3>4 DEF Finishes, Finished, Runs
    <3> QED
      BY <3>5 DEF N, l
  <2>9. Taken(m, F, t, i, EndClosing(e, m))
    <3> HIDE DEF l, x, e
    <3>1. EndClosing(e, m).go = Append(l, y)
      <4> HIDE DEF T, q
      <4> QED
        BY <2>5
    <3> DEFINE n == EndClosing(e, m)
    <3> HIDE DEF n
    <3>2. Ends(m.go[i]) /\ Alike(y, m.go[i]) /\ n.go = Append(SubSeq(m.go, 1, i - 1), y)
      BY <1>11, <2>4, <3>1 DEF l, x, n
    <3>3. Taken(m, F, t, i, n)
      BY <2>4, <3>2 DEF Taken
    <3> QED
      BY <3>3 DEF n
  <2> QED
    BY <2>5, <2>7, <2>8, <2>9
<1>12. ASSUME x.k = "resume" PROVE Settles
  <2> DEFINE w == [z EXCEPT !.go = Append(l, x)]
             k == x.nny
             b == [a EXCEPT !.nny = k]
             d == [a EXCEPT !.nny = k, !.status = "error", !.death = TRUE]
             ended == [th |-> [U EXCEPT ![t].nny = k], go |-> l]
  <2>1. k \in Nat
    BY <1>3, <1>12, ActivationParts
  <2>2. w.th = U /\ w.go = Append(l, x) /\ Front(Append(l, x)) = l
    <3>1. Front(Append(l, x)) = l
      <4>1. l \in Seq(Activation)
        BY <1>1, <1>3
      <4> HIDE DEF l, x
      <4> QED
        BY <1>3, <4>1, OneMore DEF x
    <3>2. w = [th |-> U, go |-> Append(l, x)]
      <4> HIDE DEF l, x, h
      <4> QED
        BY <1>6
    <3> HIDE DEF w
    <3> QED
      BY <3>1, <3>2
  <2> HIDE DEF w
  <2>3. Recoverable(U[t]) = {}
    BY <1>5, <1>9 DEF Recoverable
  <2>4. CaughtByResume("closed", w, x) =
          IF ~x.loop THEN ResumeFailed(ended, t, x.wrap)
          ELSE ResumeFailed([ended EXCEPT !.th[t].status = "error", !.th[t].death = TRUE], t, x.wrap)
    <3> HIDE DEF ended, x, l
    <3> QED
      BY <1>10, <2>2, <2>3 DEF CaughtByResume, ended
  <2>5. EndClosing(e, m) = CaughtByResume("closed", w, x)
    <3> HIDE DEF x, l, e
    <3> QED
      BY <1>7, <1>8, <1>12 DEF w
  <2>6. ended = Without(m, t, i, b)
    <3>1. [U EXCEPT ![t].nny = k] = [T EXCEPT ![t] = b]
      <4> HIDE DEF T, k
      <4> QED
        BY <1>2, <1>9
    <3> HIDE DEF b
    <3> QED
      BY <3>1 DEF Without
  <2>7. [ended EXCEPT !.th[t].status = "error", !.th[t].death = TRUE] = Without(m, t, i, d)
    <3>1. [ended EXCEPT !.th[t].status = "error", !.th[t].death = TRUE] = [th |-> [U EXCEPT ![t] = d], go |-> l]
      <4> HIDE DEF k, l
      <4>1. [[th |-> [U EXCEPT ![t].nny = k], go |-> l] EXCEPT !.th[t].status = "error", !.th[t].death = TRUE]
            = [th |-> [U EXCEPT ![t] = [U[t] EXCEPT !.nny = k, !.status = "error", !.death = TRUE]], go |-> l]
        <5>1. U \in [Threads -> ThreadRecord] /\ t \in Threads
          BY <1>2, <1>9
        <5>2. Died(U, t, k, l) = [th |-> [U EXCEPT ![t] = Dead(U[t], k)], go |-> l]
          BY <5>1, DeadIs
        <5> QED
          BY <5>2 DEF Died, Dead
      <4> QED
        BY <1>9, <4>1
    <3> HIDE DEF d, ended
    <3> QED
      BY <1>9, <3>1 DEF Without
  <2>8. /\ b \in ThreadRecord /\ b.ci = <<>> /\ b.tbc = <<>> /\ ~b.fresh /\ b.status # "yield" /\ ~b.death
        /\ d \in ThreadRecord /\ d.ci = <<>> /\ d.tbc = <<>> /\ ~d.fresh /\ d.status = "error"
    <3> HIDE DEF k
    <3> QED
      BY <1>5, <2>1 DEF ThreadRecord
  <2>9. Begins(x)
    BY <1>12 DEF Begins
  <2> HIDE DEF b, d, ended
  <2>10. Departs(m, F, t, i, b) /\ Departs(m, F, t, i, d)
    BY <1>2, <1>3, <2>8, <2>9, ClosedDeparts
  <2>11. Rests(b) = "dead" /\ Rests(d) = "dead"
    <3>1. b.status \in {"ok", "error"}
      BY <2>8, ThreadParts
    <3> QED
      BY <2>8, <3>1 DEF Rests
  <2>12. x.loop => "closeRecovered" \in Uses
    <3>1. ActivationOk(g, Len(g)) /\ Len(g) \in DOMAIN g /\ e = g[Len(g)]
      BY <1>1, LastOne DEF GoOk
    <3>2. i \in 1 .. Len(g) - 1
      <4>1. i \in 1 .. Len(h) /\ Len(h) = Len(g) - 1
        BY <1>1, <1>3, ShortFront
      <4> QED
        BY <4>1
    <3>3. ClosesSelf(g[Len(g)]) /\ g[Len(g)].t = t
      BY <3>1
    <3> HIDE DEF g, e
    <3> QED
      BY <1>10, <1>12, <3>1, <3>2, <3>3 DEF ActivationOk
  <2>13. Finishes(Without(m, t, i, b), t) /\ (x.loop => Finishes(Without(m, t, i, d), t))
    <3>1. ~On(Without(m, t, i, b).go, t) /\ ~On(Without(m, t, i, d).go, t)
          /\ Without(m, t, i, b).th[t] = b /\ Without(m, t, i, d).th[t] = d
      BY <2>10 DEF Departs
    <3> QED
      BY <1>2, <2>8, <2>12, <3>1 DEF Finishes, Finished
  <2>14. (\E E : Good(ResumeFailed(Without(m, t, i, b), t, x.wrap), E)) /\ Finishes(ResumeFailed(Without(m, t, i, b), t, x.wrap), t)
    <3> DEFINE o == Without(m, t, i, b)
               D == SubSeq(F, 1, i - 1)
    <3>1. Body(o, D) /\ ~On(o.go, t) /\ Lua(o.go) /\ Calls(o)
      BY <2>10 DEF Departs
    <3> HIDE DEF o, D
    <3>2. \E E : Good(ResumeFailed(o, t, x.wrap), E)
      BY <1>2, <3>1, ResumeFailedBody DEF Calls
    <3>3. Finishes(ResumeFailed(o, t, x.wrap), t)
      BY <1>2, <2>13, <3>1, ResumeFailedFinished DEF o
    <3> QED
      BY <3>2, <3>3 DEF o
  <2>15. (\E E : Good(ResumeFailed(Without(m, t, i, d), t, x.wrap), E))
         /\ (x.loop => Finishes(ResumeFailed(Without(m, t, i, d), t, x.wrap), t))
    <3> DEFINE o == Without(m, t, i, d)
               D == SubSeq(F, 1, i - 1)
    <3>1. Body(o, D) /\ ~On(o.go, t) /\ Lua(o.go) /\ Calls(o)
      BY <2>10 DEF Departs
    <3> HIDE DEF o, D
    <3>2. \E E : Good(ResumeFailed(o, t, x.wrap), E)
      BY <1>2, <3>1, ResumeFailedBody DEF Calls
    <3>3. Finishes(o, t) => Finishes(ResumeFailed(o, t, x.wrap), t)
      BY <1>2, <3>1, ResumeFailedFinished
    <3> QED
      BY <2>13, <3>2, <3>3 DEF o
  <2>16. Taken(m, F, t, i, EndClosing(e, m))
    <3>1. EndClosing(e, m) = ResumeFailed(Without(m, t, i, b), t, x.wrap) \/ EndClosing(e, m) = ResumeFailed(Without(m, t, i, d), t, x.wrap)
      BY <2>4, <2>5, <2>6, <2>7
    <3> HIDE DEF x, e
    <3> QED
      BY <2>10, <2>11, <3>1 DEF Taken
  <2> HIDE DEF x, e, l
  <2>17. EndClosing(e, m) = IF ~x.loop THEN ResumeFailed(Without(m, t, i, b), t, x.wrap) ELSE ResumeFailed(Without(m, t, i, d), t, x.wrap)
    BY <2>4, <2>5, <2>6, <2>7
  <2> QED
    BY <2>14, <2>15, <2>16, <2>17
<1> QED
  BY <1>3, <1>11, <1>12 DEF i
=============================================================================
