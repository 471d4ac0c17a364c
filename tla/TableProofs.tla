----------------------------- MODULE TableProofs -----------------------------
(* A table is a Lua table, with traversals under way, for any keys, values *)
(* and number of traversals.                                               *)
EXTENDS Table, TableLemmas

V == Values \union {Nil}

\* The other keys are those of the program.
Indexed(r) ==
  /\ \A j \in DOMAIN r.arr : r.arr[j] # Nil => j \in Ints
  /\ DOMAIN r.hash \subseteq Ints

\* A snapshot has every key of the hash, each once.
Ordered(r) ==
  r.snapshot # NoSnapshot =>
    /\ r.snapshot \in Seq(Ints)
    /\ \A i, j \in DOMAIN r.snapshot : r.snapshot[i] = r.snapshot[j] => i = j
    /\ \A k \in DOMAIN r.hash : \E i \in DOMAIN r.snapshot : r.snapshot[i] = k

Sound(r) == WellFormed(r, V) /\ r.dead \in Int /\ r.buried \in Nat /\ Indexed(r) /\ Ordered(r)

TableInv == Sound(tab) /\ walk \in [Walkers -> Walk] /\ stored = [k \in Keys |-> At(tab, k)]

\* A string has one slot, live or buried.
Once(r) == \A k \in Strings : \A i, j \in SlotsOf(r.shape, k) \union BuriedSlots(r.shape, k) : i = j

\* Where next takes a traversal up.
Stands(r, k) ==
  \/ k \in DOMAIN r.arr /\ k \in Ints
  \/ k \in Strings /\ SlotAfter(r, k) # {}
  \/ /\ k \in Ints \ DOMAIN r.arr
     /\ r.snapshot # NoSnapshot /\ \E i \in DOMAIN r.snapshot : r.snapshot[i] = k

\* The key p is not after k in the order of a traversal.
Passed(r, k, p) ==
  \/ p \in DOMAIN r.arr /\ (k \in DOMAIN r.arr => p <= k)
  \/ /\ p \in Strings /\ k \notin DOMAIN r.arr
     /\ k \in Strings => \E i \in SlotsOf(r.shape, p), j \in SlotAfter(r, k) : i <= j
  \/ /\ p \in Ints \ DOMAIN r.arr /\ k \in Ints \ DOMAIN r.arr
     /\ \E i, j \in DOMAIN r.snapshot : r.snapshot[i] = p /\ r.snapshot[j] = k /\ i <= j

Has(r) == {k \in Keys : At(r, k) # Nil}

\* A traversal is owed the keys there are, and has seen those it passed.
On(x, r) ==
  /\ x.state = "on" /\ x.owed = Has(r) /\ x.at \in Keys /\ Stands(r, x.at)
  /\ \A p \in Has(r) : p \in x.seen <=> Passed(r, x.at, p)

WalkInv == Once(tab) /\ \A w \in Walkers : walk[w] = Over \/ On(walk[w], tab)

-----------------------------------------------------------------------------
(* Writes.                                                                 *)

\* a is r after a write of v at k, and Same if no key moved in r's order.
Wrote(a, r, k, v) ==
  /\ Sound(a)
  /\ \A l \in Keys : At(a, l) = IF l = k THEN v ELSE At(r, l)
Same(a, r) == DOMAIN a.arr = DOMAIN r.arr /\ a.shape = r.shape /\ a.snapshot = r.snapshot

\* Strings and integers are apart.
LEMMA Kinds ==
  ASSUME NEW k \in Keys
  PROVE  /\ k \in Strings => k \notin Int
         /\ k \notin Strings => k \in Ints /\ k \in Int
         /\ k # Nil
BY KindsAssumption, IntsAssumption, StringsAssumption DEF Keys

\* What a key gives is a value or nil.
LEMMA AtType ==
  ASSUME NEW r, WellFormed(r, V), NEW k \in Keys
  PROVE  At(r, k) \in V
<1>1. Nil \in V /\ Slotted(r, V)
  BY DEF WellFormed
<1>2. CASE k \in Strings
  <2>1. CASE \E i \in DOMAIN r.shape.keys : r.shape.keys[i] = k
    BY <1>1, <1>2, <2>1, AtSlot, ShapeParts
  <2>2. CASE \A i \in DOMAIN r.shape.keys : r.shape.keys[i] # k
    BY <1>1, <1>2, <2>2, AtSlot
  <2> QED
    BY <2>1, <2>2
<1>3. CASE k \notin Strings
  BY <1>1, <1>3, Kinds, AtNumber
<1> QED
  BY <1>2, <1>3

\* A number that has a value is one of the program's.
LEMMA IndexedAfter ==
  ASSUME NEW r, WellFormed(r, V), Indexed(r), NEW a, WellFormed(a, V), NEW k \in Keys,
         DOMAIN a.hash \subseteq Ints, \A l \in Int : l # k => At(a, l) = At(r, l)
  PROVE  Indexed(a)
<1> SUFFICES ASSUME NEW j \in DOMAIN a.arr, a.arr[j] # Nil PROVE j \in Ints
  BY DEF Indexed
<1>1. j \in Int
  BY DEF WellFormed, Numbered
<1>2. At(a, j) # Nil
  BY <1>1, AtNumber
<1>3. CASE j = k
  BY <1>1, <1>3, Kinds
<1>4. CASE j # k
  <2>1. At(r, j) # Nil
    BY <1>1, <1>2, <1>4
  <2>2. (j \in DOMAIN r.arr /\ r.arr[j] # Nil) \/ j \in DOMAIN r.hash
    BY <1>1, <2>1, AtNumber
  <2> QED
    BY <2>2 DEF Indexed
<1> QED
  BY <1>3, <1>4

\* Keys kept in their order are still in order.
LEMMA OrderedAfter ==
  ASSUME NEW r, Ordered(r), NEW a, SameOrder(a, r)
  PROVE  Ordered(a)
BY DEF Ordered, SameOrder

\* PutString writes its key and no other.
LEMMA PutStringWrites ==
  ASSUME NEW r, Sound(r), NEW k \in Strings, NEW v \in V, NEW crowded \in BOOLEAN
  PROVE  LET a == PutString(r, k, v, crowded)
         IN /\ Wrote(a, r, k, v)
            /\ v = Nil \/ At(r, k) # Nil => Same(a, r)
            /\ Once(r) /\ (v # Nil => BuriedSlots(r.shape, k) = {} \/ Compacts(r)) => Once(a)
<1> DEFINE a == PutString(r, k, v, crowded)
<1> HIDE DEF a
<1>1. /\ WellFormed(a, V)
      /\ a.arr = r.arr /\ a.hash = r.hash /\ a.snapshot \in {r.snapshot, NoSnapshot}
      /\ (r.dead \in Int => a.dead \in Int) /\ a.buried \in {0, r.buried}
      /\ At(a, k) = v
      /\ \A l \in Strings \ {k} : At(a, l) = At(r, l)
      /\ (v = Nil \/ SlotsOf(r.shape, k) # {}) => a.shape = r.shape /\ a.snapshot = r.snapshot
      /\ \/ a.shape = r.shape
         \/ a.shape.keys = Append(r.shape.keys, k) /\ SlotsOf(r.shape, k) = {} /\ ~Compacts(r)
         \/ \A i \in DOMAIN a.shape.keys : a.shape.keys[i] \in Strings
  <2>1. WellFormed(r, V)
    BY DEF Sound
  <2>2. a = PutString(r, k, v, crowded)
    BY DEF a
  <2>3. WellFormed(a, V)
    BY <2>1, <2>2, PutStringKeeps
  <2>4. a.arr = r.arr /\ a.hash = r.hash /\ a.snapshot \in {r.snapshot, NoSnapshot}
    BY <2>1, <2>2, PutStringKeeps
  <2>5. (r.dead \in Int => a.dead \in Int) /\ a.buried \in {0, r.buried}
    BY <2>1, <2>2, PutStringKeeps
  <2>6. At(a, k) = v
    BY <2>1, <2>2, PutStringKeeps
  <2>7. \A l \in Strings \ {k} : At(a, l) = At(r, l)
    BY <2>1, <2>2, PutStringKeeps
  <2>8. (v = Nil \/ SlotsOf(r.shape, k) # {}) => a.shape = r.shape /\ a.snapshot = r.snapshot
    BY <2>1, <2>2, PutStringKeeps
  <2>9. Grown(a, r, k)
    BY <2>1, <2>2, PutStringKeeps
  <2> QED
    BY <2>3, <2>4, <2>5, <2>6, <2>7, <2>8, <2>9 DEF Grown
<1>2. \A l \in Int : At(a, l) = At(r, l)
  BY <1>1, NumberAt
<1>3. Wrote(a, r, k, v)
  <2>1. Indexed(a)
    BY <1>1 DEF Indexed, Sound
  <2>2. Ordered(a)
    BY <1>1 DEF Ordered, Sound
  <2>3. \A l \in Keys : At(a, l) = IF l = k THEN v ELSE At(r, l)
    BY <1>1, <1>2, Kinds
  <2> QED
    BY <1>1, <2>1, <2>2, <2>3 DEF Wrote, Sound
<1>4. ASSUME v = Nil \/ At(r, k) # Nil PROVE Same(a, r)
  <2>1. v = Nil \/ SlotsOf(r.shape, k) # {}
    BY <1>4 DEF At
  <2> QED
    BY <1>1, <2>1 DEF Same
<1>5. ASSUME Once(r), v # Nil => BuriedSlots(r.shape, k) = {} \/ Compacts(r) PROVE Once(a)
  <2>1. CASE a.shape = r.shape
    BY <1>5, <2>1 DEF Once
  <2>2. CASE v # Nil /\ a.shape.keys = Append(r.shape.keys, k) /\ SlotsOf(r.shape, k) = {} /\ ~Compacts(r)
    <3> SUFFICES ASSUME NEW l \in Strings,
                        NEW i \in SlotsOf(a.shape, l) \union BuriedSlots(a.shape, l),
                        NEW j \in SlotsOf(a.shape, l) \union BuriedSlots(a.shape, l)
                 PROVE  i = j
      BY DEF Once
    <3> DEFINE keys == r.shape.keys
               m == Len(keys)
               b == a.shape.keys
    <3>1. keys \in Seq(Label) /\ m \in Nat /\ DOMAIN keys = 1 .. m
      BY ShapeParts DEF Sound, WellFormed
    <3>2. /\ DOMAIN b = 1 .. m + 1 /\ b[m + 1] = k
          /\ \A n \in 1 .. m : b[n] = keys[n]
      BY <2>2, <3>1
    <3> HIDE DEF m
    <3>3. ASSUME NEW n \in 1 .. m, NEW x, b[n] = x PROVE n \in SlotsOf(r.shape, x)
      BY <3>1, <3>2, <3>3 DEF SlotsOf
    <3>4. ASSUME NEW n \in SlotsOf(a.shape, l) \union BuriedSlots(a.shape, l)
          PROVE  IF l = k THEN n = m + 1 ELSE n \in SlotsOf(r.shape, l) \union BuriedSlots(r.shape, l)
      <4>1. n \in 1 .. m + 1 /\ b[n] \in {l, Tombstone(l)}
        BY <3>2, <3>4 DEF BuriedSlots, SlotsOf
      <4>2. CASE n \in 1 .. m
        <5>1. n \in SlotsOf(r.shape, l) \union BuriedSlots(r.shape, l)
          BY <3>3, <4>1, <4>2 DEF BuriedSlots
        <5> QED
          BY <1>5, <2>2, <5>1
      <4>3. CASE n = m + 1
        BY <3>2, <4>1, <4>3, KindsAssumption
      <4> QED
        BY <3>1, <4>1, <4>2, <4>3
    <3> QED
      BY <1>5, <3>4 DEF Once
  <2>3. CASE \A i \in DOMAIN a.shape.keys : a.shape.keys[i] \in Strings
    <3>1. \A l \in Strings : BuriedSlots(a.shape, l) = {}
      BY <2>3, KindsAssumption DEF BuriedSlots, SlotsOf
    <3>2. \A l \in Strings : \A i, j \in SlotsOf(a.shape, l) : i = j
      BY <1>1 DEF WellFormed, Slotted, SlotsOf
    <3> QED
      BY <3>1, <3>2 DEF Once
  <2> QED
    BY <1>1, <2>1, <2>2, <2>3
<1> QED
  BY <1>3, <1>4, <1>5 DEF a

\* So does PutAtInt.
LEMMA PutAtIntWrites ==
  ASSUME NEW r, Sound(r), NEW k \in Ints, NEW v \in V
  PROVE  LET a == PutAtInt(r, k, v)
         IN /\ Wrote(a, r, k, v)
            /\ v = Nil \/ k \in DOMAIN r.arr => Same(a, r)
            /\ Once(r) => Once(a)
<1> DEFINE a == PutAtInt(r, k, v)
<1>K. k \in Int /\ k \in Keys
  BY IntsAssumption DEF Keys
<1>1. /\ WellFormed(a, V) /\ SameStrings(a, r) /\ SameOrder(a, r)
      /\ DOMAIN a.hash \subseteq DOMAIN r.hash \union {k}
      /\ At(a, k) = v
      /\ \A l \in (Strings \union Int) \ {k} : At(a, l) = At(r, l)
      /\ (v = Nil \/ k \in DOMAIN r.arr) =>
           DOMAIN a.arr = DOMAIN r.arr /\ a.snapshot = r.snapshot /\ DOMAIN a.hash \subseteq DOMAIN r.hash
  <2>1. WellFormed(r, V)
    BY DEF Sound
  <2> QED
    BY <1>K, <2>1, PutAtIntKeeps DEF a
<1> HIDE DEF a
<1>2. Indexed(a)
  <2>1. DOMAIN a.hash \subseteq Ints
    BY <1>1 DEF Sound, Indexed
  <2>2. WellFormed(r, V) /\ Indexed(r)
    BY DEF Sound
  <2> QED
    BY <1>K, <1>1, <2>1, <2>2, IndexedAfter
<1>3. Ordered(a)
  BY <1>1, OrderedAfter DEF Sound
<1>4. \A l \in Keys : At(a, l) = IF l = k THEN v ELSE At(r, l)
  BY <1>1, Kinds
<1>5. a.dead \in Int /\ a.buried \in Nat /\ (Once(r) => Once(a))
  BY <1>1 DEF SameStrings, Sound, Once
<1>6. v = Nil \/ k \in DOMAIN r.arr => Same(a, r)
  BY <1>1 DEF Same, SameStrings
<1> QED
  BY <1>1, <1>2, <1>3, <1>4, <1>5, <1>6 DEF a, Wrote, Sound

\* So does TryPut.
LEMMA TryPutWrites ==
  ASSUME NEW r, Sound(r), NEW k \in Keys, NEW v \in V, At(r, k) # Nil
  PROVE  LET a == TryPut(r, k, v)
         IN Wrote(a, r, k, v) /\ Same(a, r) /\ (Once(r) => Once(a))
<1> DEFINE a == TryPut(r, k, v)
<1>1. CASE k \in Strings
  <2>1. a = PutString(r, k, v, FALSE)
    BY <1>1 DEF TryPut
  <2> HIDE DEF a
  <2>2. Wrote(a, r, k, v) /\ Same(a, r)
    BY <1>1, <2>1, PutStringWrites
  <2>3. Once(r) => Once(a)
    BY <2>2 DEF Same, Once
  <2> QED
    BY <2>2, <2>3 DEF a
<1>2. CASE k \notin Strings
  <2>K. k \in Ints /\ k \in Int
    BY <1>2, Kinds
  <2>1. /\ WellFormed(a, V) /\ SameStrings(a, r)
        /\ DOMAIN a.arr = DOMAIN r.arr /\ a.snapshot = r.snapshot /\ DOMAIN a.hash \subseteq DOMAIN r.hash
        /\ At(a, k) = v
        /\ \A l \in (Strings \union Int) \ {k} : At(a, l) = At(r, l)
    <3>1. WellFormed(r, V)
      BY DEF Sound
    <3> QED
      BY <2>K, <3>1, TryPutKeeps DEF a
  <2> HIDE DEF a
  <2>2. Indexed(a)
    <3>1. DOMAIN a.hash \subseteq Ints
      BY <2>1 DEF Sound, Indexed
    <3>2. WellFormed(r, V) /\ Indexed(r)
      BY DEF Sound
    <3> QED
      BY <2>1, <3>1, <3>2, IndexedAfter
  <2>3. Ordered(a)
    BY <2>1 DEF Sound, Ordered
  <2>4. \A l \in Keys : At(a, l) = IF l = k THEN v ELSE At(r, l)
    BY <2>1, Kinds
  <2>5. a.dead \in Int /\ a.buried \in Nat /\ Same(a, r) /\ (Once(r) => Once(a))
    BY <2>1 DEF SameStrings, Sound, Once, Same
  <2> QED
    BY <2>1, <2>2, <2>3, <2>4, <2>5 DEF a, Wrote, Sound
<1> QED
  BY <1>1, <1>2

\* The elements up to n are v, the others what they were.
Filled(r, n, v) == [r EXCEPT !.arr = [i \in DOMAIN @ |-> IF i <= n THEN v ELSE @[i]]]

\* A part of a constructor's list writes its elements.
LEMMA FillWrites ==
  ASSUME NEW r, Sound(r), NEW n \in Nat, n <= Len(r.arr), 1 .. n \subseteq Ints, NEW v \in V
  PROVE  LET a == Filled(r, n, v)
         IN /\ Sound(a) /\ (Once(r) => Once(a))
            /\ \A l \in Keys : At(a, l) = IF l \in 1 .. n THEN v ELSE At(r, l)
<1> DEFINE a == Filled(r, n, v)
<1>R. WellFormed(r, V)
  BY DEF Sound
<1>1. /\ a.arr = [i \in DOMAIN r.arr |-> IF i <= n THEN v ELSE r.arr[i]]
      /\ a.hash = r.hash /\ a.shape = r.shape /\ a.slots = r.slots /\ a.snapshot = r.snapshot
      /\ a.dead = r.dead /\ a.buried = r.buried /\ DOMAIN a = DOMAIN r
  BY DEF Filled, Sound, WellFormed, Fields
<1> HIDE DEF a
<1>2. r.arr \in Seq(V) /\ DOMAIN r.arr = 1 .. Len(r.arr) /\ Len(r.arr) \in Nat
  BY <1>R DEF WellFormed, Numbered
<1>3. a.arr \in Seq(V) /\ DOMAIN a.arr = DOMAIN r.arr
  <2>1. \A i \in DOMAIN r.arr : r.arr[i] \in V
    BY <1>2
  <2>2. \A i \in DOMAIN r.arr : (IF i <= n THEN v ELSE r.arr[i]) \in V
    BY <2>1
  <2> QED
    BY <1>1, <1>2, <2>2
<1>4. WellFormed(a, V)
  BY <1>R, <1>1, <1>3 DEF WellFormed, Slotted, Numbered
<1>5. Indexed(a)
  BY <1>1, <1>2, <1>3 DEF Sound, Indexed
<1>6. Ordered(a)
  BY <1>1 DEF Sound, Ordered
<1>7. ASSUME NEW l \in Keys PROVE At(a, l) = IF l \in 1 .. n THEN v ELSE At(r, l)
  <2>1. CASE l \in Strings
    <3>1. l \notin 1 .. n
      BY <2>1, KindsAssumption
    <3> QED
      BY <1>1, <2>1, <3>1, StringAt
  <2>2. CASE l \notin Strings
    <3>1. l \in Int
      BY <2>2, Kinds
    <3>2. At(a, l) = IF l \in DOMAIN r.arr THEN a.arr[l] ELSE IF l \in DOMAIN r.hash THEN r.hash[l] ELSE Nil
      BY <1>1, <1>3, <3>1, NumberAt
    <3>3. At(r, l) = IF l \in DOMAIN r.arr THEN r.arr[l] ELSE IF l \in DOMAIN r.hash THEN r.hash[l] ELSE Nil
      BY <3>1, NumberAt
    <3> QED
      BY <1>1, <1>2, <3>1, <3>2, <3>3
  <2> QED
    BY <2>1, <2>2
<1> QED
  BY <1>1, <1>4, <1>5, <1>6, <1>7 DEF a, Sound, Once

\* An extension writes nothing.
LEMMA ExtendArrayWrites ==
  ASSUME NEW r, Sound(r), NEW last \in Nat, last >= Len(r.arr)
  PROVE  LET a == ExtendArray(r, last)
         IN /\ Sound(a) /\ Len(a.arr) = last /\ (Once(r) => Once(a))
            /\ \A l \in Keys : At(a, l) = At(r, l)
<1> DEFINE a == ExtendArray(r, last)
<1>R. WellFormed(r, V)
  BY DEF Sound
<1>1. /\ WellFormed(a, V)
      /\ Len(a.arr) = last
      /\ a.shape = r.shape /\ a.slots = r.slots /\ a.snapshot = r.snapshot
      /\ a.dead = r.dead /\ a.buried = r.buried
      /\ DOMAIN a.hash \subseteq DOMAIN r.hash
      /\ \A k \in Strings \union Int : At(a, k) = At(r, k)
  BY <1>R, ExtendArrayKeeps DEF a
<1> HIDE DEF a
<1>2. Indexed(a)
  <2>1. \A j \in DOMAIN a.arr : j \in Int /\ At(a, j) = a.arr[j] /\ At(r, j) = a.arr[j]
    BY <1>1, AtNumber DEF WellFormed, Numbered
  <2>2. \A j \in Int : At(r, j) # Nil => (j \in DOMAIN r.arr /\ r.arr[j] # Nil) \/ j \in DOMAIN r.hash
    BY <1>R, AtNumber
  <2> QED
    BY <1>1, <2>1, <2>2 DEF Sound, Indexed
<1>3. Ordered(a)
  BY <1>1 DEF Sound, Ordered
<1>4. \A l \in Keys : At(a, l) = At(r, l)
  BY <1>1, Kinds
<1> QED
  BY <1>1, <1>2, <1>3, <1>4 DEF a, Sound, Once

-----------------------------------------------------------------------------
(* Traversals.                                                             *)

Orders(r) ==
  IF r.snapshot = NoSnapshot
    THEN {p \in [1 .. Cardinality(DOMAIN r.hash) -> DOMAIN r.hash] : IsInjective(p)} ELSE {NoSnapshot}
Snapped(r, order) == IF r.snapshot = NoSnapshot THEN [r EXCEPT !.snapshot = order] ELSE r

\* u is r, perhaps with a snapshot.
Reads(u, r) ==
  /\ Sound(u) /\ (Once(r) => Once(u))
  /\ u.arr = r.arr /\ u.hash = r.hash /\ u.shape = r.shape /\ u.slots = r.slots
  /\ r.snapshot # NoSnapshot => u = r
  /\ \A k \in Keys : At(u, k) = At(r, k)

\* A snapshot, of Go's order of the hash, has each of its keys once.
LEMMA SnappedReads ==
  ASSUME NEW r, Sound(r), NEW order \in Orders(r)
  PROVE  Reads(Snapped(r, order), r) /\ Snapped(r, order).snapshot # NoSnapshot
<1> DEFINE u == Snapped(r, order)
<1>R. WellFormed(r, V) /\ DOMAIN r.hash \subseteq Ints /\ IsFiniteSet(DOMAIN r.hash)
  BY DEF Sound, Indexed, WellFormed, Numbered
<1>1. CASE r.snapshot # NoSnapshot
  <2>1. u = r
    BY <1>1 DEF Snapped
  <2> QED
    BY <1>1, <2>1 DEF Reads
<1>2. CASE r.snapshot = NoSnapshot
  <2> DEFINE S == DOMAIN r.hash
             n == Cardinality(S)
  <2>1. n \in Nat
    BY <1>R, FS_CardinalityType
  <2>2. order \in [1 .. n -> S] /\ \A i, j \in 1 .. n : order[i] = order[j] => i = j
    BY <1>2 DEF Orders, IsInjective
  <2>3. \A k \in S : \E i \in 1 .. n : order[i] = k
    <3>1. order \in Injection(1 .. n, S)
      BY <2>2 DEF Injection, IsInjective
    <3>2. Cardinality(1 .. n) = n
      BY <2>1, FS_Interval
    <3>3. order \in Surjection(1 .. n, S)
      BY <1>R, <3>1, <3>2, FS_Injection
    <3> QED
      BY <2>2, <3>3 DEF Surjection
  <2>4. order \in Seq(Ints) /\ DOMAIN order = 1 .. n
    BY <1>R, <2>1, <2>2
  <2>5. order # NoSnapshot
    <3>1. \A i \in DOMAIN order : order[i] \in Ints
      BY <1>R, <2>2
    <3>2. DOMAIN NoSnapshot = {1} /\ NoSnapshot[1] = Nil
      BY DEF NoSnapshot
    <3> QED
      BY <3>1, <3>2, IntsAssumption
  <2>6. /\ u.arr = r.arr /\ u.hash = r.hash /\ u.shape = r.shape /\ u.slots = r.slots
        /\ u.dead = r.dead /\ u.buried = r.buried /\ u.snapshot = order /\ DOMAIN u = DOMAIN r
    BY <1>R, <1>2 DEF Snapped, WellFormed, Fields
  <2> HIDE DEF u, n, S
  <2>7. WellFormed(u, V)
    BY <1>R, <2>6 DEF WellFormed, Slotted, Numbered
  <2>8. Indexed(u) /\ (Once(r) => Once(u))
    BY <2>6 DEF Sound, Indexed, Once
  <2>9. Ordered(u)
    BY <2>2, <2>3, <2>4, <2>6 DEF Ordered, S
  <2>10. \A k \in Keys : At(u, k) = At(r, k)
    BY <2>6, StringAt, NumberAt, Kinds
  <2> QED
    BY <1>2, <2>5, <2>6, <2>7, <2>8, <2>9, <2>10 DEF Reads, Sound, u
<1> QED
  BY <1>1, <1>2

GoesInHash(step, u, from) ==
  \/ /\ step.is = "end"
     /\ \A p \in DOMAIN u.hash : \E i \in DOMAIN u.snapshot : i < from /\ u.snapshot[i] = p
  \/ /\ step.is = "key" /\ step.key \in DOMAIN u.hash
     /\ \E m \in DOMAIN u.snapshot :
          /\ m >= from /\ u.snapshot[m] = step.key
          /\ \A i \in from .. m - 1 : i \in DOMAIN u.snapshot => u.snapshot[i] \notin DOMAIN u.hash

\* In a snapshot, the keys still in the hash come next, in its order.
LEMMA NextMapKeyGoes ==
  ASSUME NEW u, Sound(u), u.snapshot # NoSnapshot, NEW from \in Nat \ {0}
  PROVE  LET step == NextMapKey(u, from)
         IN step.tab = u /\ GoesInHash(step, u, from)
<1> DEFINE left == {j \in from .. Len(u.snapshot) : u.snapshot[j] \in DOMAIN u.hash}
           step == NextMapKey(u, from)
<1>1. /\ u.snapshot \in Seq(Ints) /\ Len(u.snapshot) \in Nat /\ DOMAIN u.snapshot = 1 .. Len(u.snapshot)
      /\ \A k \in DOMAIN u.hash : \E i \in DOMAIN u.snapshot : u.snapshot[i] = k
  BY DEF Sound, Ordered
<1>2. left \subseteq DOMAIN u.snapshot /\ left \in SUBSET Nat /\ IsFiniteSet(left)
  <2>1. left \subseteq DOMAIN u.snapshot
    BY <1>1
  <2> QED
    BY <1>1, <2>1, PositionsFinite
<1>3. CASE left = {}
  <2>1. step = Ended(u)
    BY <1>3 DEF NextMapKey
  <2>2. ASSUME NEW p \in DOMAIN u.hash PROVE \E i \in DOMAIN u.snapshot : i < from /\ u.snapshot[i] = p
    <3>1. PICK i \in DOMAIN u.snapshot : u.snapshot[i] = p
      BY <1>1
    <3>2. i \notin left
      BY <1>3
    <3>3. i < from
      BY <1>1, <3>1, <3>2
    <3> QED
      BY <3>1, <3>3
  <2> QED
    BY <2>1, <2>2 DEF Ended, GoesInHash
<1>4. CASE left # {}
  <2> DEFINE m == Min(left)
  <2>1. m \in left /\ \A j \in left : m <= j
    BY <1>2, <1>4, LeastOf
  <2>2. step = Found(u.snapshot[m], u)
    BY <1>4 DEF NextMapKey
  <2> HIDE DEF m
  <2>3. m \in DOMAIN u.snapshot /\ m >= from /\ u.snapshot[m] \in DOMAIN u.hash
    BY <1>1, <2>1
  <2>4. \A i \in from .. m - 1 : i \in DOMAIN u.snapshot => u.snapshot[i] \notin DOMAIN u.hash
    BY <1>1, <2>1, <2>3
  <2> QED
    BY <2>2, <2>3, <2>4 DEF Found, GoesInHash
<1> QED
  BY <1>3, <1>4

\* From where the keys of D are passed, a step ends after all keys there are,
\* or comes to one that is not in D, and passes it alone.
Goes(step, r, D) ==
  /\ Reads(step.tab, r)
  /\ \/ step.is = "end" /\ Has(r) \subseteq D
     \/ /\ step.is = "key" /\ step.key \in Has(r) \ D /\ Stands(step.tab, step.key)
        /\ \A p \in Has(r) : Passed(step.tab, step.key, p) <=> p \in D \/ p = step.key

\* The keys up to array position i and slot s.
Gone(r, i, s) ==
  {p \in Keys :
     \/ p \in DOMAIN r.arr /\ p <= i
     \/ p \in Strings /\ \E n \in SlotsOf(r.shape, p) : n <= s}

\* A key that has a value is in one of the three parts.
LEMMA PartOf ==
  ASSUME NEW r, Sound(r), NEW p \in Has(r)
  PROVE  \/ p \in DOMAIN r.arr /\ p \in Ints /\ p \in Int /\ p \notin Strings /\ r.arr[p] # Nil
         \/ /\ p \in Strings /\ p \notin Int /\ p \notin DOMAIN r.arr /\ p \notin Ints
            /\ \E n \in DOMAIN r.slots :
                 SlotsOf(r.shape, p) = {n} /\ r.slots[n] # Nil /\ r.shape.keys[n] = p
         \/ p \in DOMAIN r.hash /\ p \in Ints /\ p \notin Strings /\ p \notin DOMAIN r.arr
<1>1. WellFormed(r, V) /\ Indexed(r)
  BY DEF Sound
<1>2. p \in Keys /\ At(r, p) # Nil
  BY DEF Has
<1>3. CASE p \notin Strings
  <2>1. p \in Ints /\ p \in Int
    BY <1>2, <1>3, Kinds
  <2>2. (p \in DOMAIN r.arr /\ r.arr[p] # Nil) \/ (p \in DOMAIN r.hash /\ p \notin DOMAIN r.arr)
    BY <1>1, <1>2, <2>1, AtNumber DEF WellFormed, Numbered
  <2> QED
    BY <1>3, <2>1, <2>2
<1>4. CASE p \in Strings
  <2>1. p \notin Int /\ p \notin DOMAIN r.arr /\ p \notin Ints
    <3>1. p \notin Int
      BY <1>4, KindsAssumption
    <3>2. \A j \in DOMAIN r.arr : j \in Int
      BY <1>1 DEF WellFormed, Numbered
    <3> QED
      BY <3>1, <3>2, IntsAssumption
  <2>2. PICK n \in DOMAIN r.shape.keys : r.shape.keys[n] = p
    BY <1>1, <1>2, <1>4, AtSlot DEF WellFormed
  <2>3. At(r, p) = r.slots[n] /\ n \in DOMAIN r.slots
    BY <1>1, <1>4, <2>2, AtSlot, ShapeParts DEF WellFormed
  <2>4. SlotsOf(r.shape, p) = {n}
    BY <1>1, <1>4, <2>2 DEF SlotsOf, WellFormed, Slotted
  <2> QED
    BY <1>2, <1>4, <2>1, <2>2, <2>3, <2>4
<1> QED
  BY <1>3, <1>4

\* From a position, the next key is the first behind it with a value.
LEMMA NextFromGoes ==
  ASSUME NEW r, Sound(r), NEW order \in Orders(r),
         NEW i \in 0 .. Len(r.arr), NEW s \in 0 .. Len(r.slots), s # 0 => i = Len(r.arr)
  PROVE  Goes(NextFrom(r, i, s, order), r, Gone(r, i, s))
<1> DEFINE inArray == {j \in DOMAIN r.arr : j > i /\ r.arr[j] # Nil}
           inSlots == {j \in DOMAIN r.slots : j > s /\ r.slots[j] # Nil}
           step == NextFrom(r, i, s, order)
           D == Gone(r, i, s)
<1>R. WellFormed(r, V) /\ Indexed(r)
  BY DEF Sound
<1>1. /\ Len(r.arr) \in Nat /\ DOMAIN r.arr = 1 .. Len(r.arr)
      /\ Len(r.slots) \in Nat /\ DOMAIN r.slots = 1 .. Len(r.slots) /\ DOMAIN r.shape.keys = DOMAIN r.slots
      /\ \A j \in DOMAIN r.arr : j \in Int
  BY <1>R, ShapeParts DEF WellFormed, Numbered
<1>2. /\ inArray \in SUBSET Nat /\ IsFiniteSet(inArray)
      /\ inSlots \in SUBSET Nat /\ IsFiniteSet(inSlots)
  <2>1. r.arr \in Seq(V) /\ r.slots \in Seq(V) /\ inArray \subseteq DOMAIN r.arr /\ inSlots \subseteq DOMAIN r.slots
    BY <1>R DEF WellFormed, Numbered, Slotted
  <2> QED
    BY <2>1, PositionsFinite
<1>3. Reads(r, r)
  BY DEF Reads
<1>4. ASSUME NEW p
      PROVE  p \in D <=> /\ p \in Keys
                         /\ \/ p \in DOMAIN r.arr /\ p <= i
                            \/ p \in Strings /\ \E n \in SlotsOf(r.shape, p) : n <= s
  BY DEF Gone
<1>A. ASSUME inArray # {}
      PROVE  Goes(step, r, D)
  <2> DEFINE k == Min(inArray)
  <2>1. k \in inArray /\ \A j \in inArray : k <= j
    BY <1>2, <1>A, LeastOf
  <2>2. step = Found(k, r)
    BY <1>A DEF NextFrom
  <2> HIDE DEF k
  <2>3. k \in DOMAIN r.arr /\ k \in Ints /\ k \in Int /\ k > i /\ r.arr[k] # Nil
    BY <1>1, <1>R, <2>1 DEF Indexed
  <2>4. k \in Keys /\ At(r, k) # Nil /\ k \notin Strings
    BY <1>R, <2>3, AtNumber, KindsAssumption DEF Keys
  <2>5. s = 0
    BY <1>1, <2>3
  <2>6. k \notin D
    BY <1>4, <2>3, <2>4
  <2>7. ASSUME NEW p \in Has(r) PROVE Passed(r, k, p) <=> p \in D \/ p = k
    <3>1. Passed(r, k, p) <=> p \in DOMAIN r.arr /\ p <= k
      BY <2>3 DEF Passed
    <3>2. \A n \in SlotsOf(r.shape, p) : ~(n <= s)
      BY <1>1, <2>5 DEF SlotsOf
    <3>3. p \in D <=> p \in DOMAIN r.arr /\ p <= i
      BY <1>4, <3>2 DEF Has
    <3>4. ASSUME p \in DOMAIN r.arr PROVE p <= k <=> p <= i \/ p = k
      <4>1. r.arr[p] # Nil /\ p \in Int
        BY <1>1, <3>4, PartOf, <1>R, AtNumber DEF Has
      <4>2. p > i => p \in inArray
        BY <3>4, <4>1
      <4>3. p > i => k <= p
        BY <2>1, <4>2
      <4> QED
        BY <2>3, <4>1, <4>3
    <3> QED
      BY <2>3, <3>1, <3>3, <3>4
  <2>8. k \in Has(r)
    BY <2>4 DEF Has
  <2>9. Stands(r, k)
    BY <2>3 DEF Stands
  <2> HIDE DEF step, D
  <2> QED
    BY <1>3, <2>2, <2>6, <2>7, <2>8, <2>9 DEF Goes, Found
<1>B. ASSUME inArray = {}, inSlots # {}
      PROVE  Goes(step, r, D)
  <2> DEFINE m == Min(inSlots)
             k == r.shape.keys[m]
  <2>1. m \in inSlots /\ \A j \in inSlots : m <= j
    BY <1>2, <1>B, LeastOf
  <2>2. step = Found(k, r)
    BY <1>B DEF NextFrom
  <2>D. k = r.shape.keys[m]
    OBVIOUS
  <2> HIDE DEF m, k
  <2>3. m \in DOMAIN r.shape.keys /\ k \in Strings /\ m > s /\ r.slots[m] # Nil
    BY <1>1, <1>R, <2>1, <2>D DEF WellFormed, Slotted
  <2>4. At(r, k) # Nil /\ k \in Keys /\ k \notin Int /\ k \notin Ints /\ k \notin DOMAIN r.arr
    <3>1. At(r, k) = r.slots[m]
      BY <1>R, <2>3, <2>D, AtSlot DEF WellFormed
    <3>2. k \notin Int /\ k \in Keys
      BY <2>3, KindsAssumption DEF Keys
    <3> QED
      BY <1>1, <2>3, <3>1, <3>2, IntsAssumption
  <2>5. SlotsOf(r.shape, k) = {m}
    BY <1>R, <2>3, <2>D DEF SlotsOf, WellFormed, Slotted
  <2>6. SlotAfter(r, k) = {m}
    BY <2>5 DEF SlotAfter
  <2>7. k \notin D
    BY <1>1, <1>4, <2>3, <2>4, <2>5
  <2>8. ASSUME NEW p \in Has(r) PROVE Passed(r, k, p) <=> p \in D \/ p = k
    <3>1. CASE p \in DOMAIN r.arr
      <4>1. r.arr[p] # Nil /\ p \in Int
        BY <1>1, <3>1, <1>R, AtNumber DEF Has
      <4>2. p <= i
        BY <1>1, <1>B, <3>1, <4>1
      <4> QED
        BY <1>4, <2>4, <3>1, <4>2 DEF Passed, Has
    <3>2. CASE p \in Strings /\ p \notin DOMAIN r.arr
      <4>1. PICK n \in DOMAIN r.slots : SlotsOf(r.shape, p) = {n} /\ r.slots[n] # Nil /\ r.shape.keys[n] = p
        BY <3>2, PartOf
      <4>2. Passed(r, k, p) <=> n <= m
        BY <2>3, <2>4, <2>6, <3>2, <4>1 DEF Passed
      <4>3. p \in D <=> n <= s
        BY <1>4, <3>2, <4>1 DEF Has
      <4>4. n > s => m <= n
        BY <2>1, <4>1
      <4>5. p = k <=> n = m
        BY <2>3, <2>5, <2>D, <4>1
      <4> QED
        BY <1>1, <2>3, <4>1, <4>2, <4>3, <4>4, <4>5
    <3>3. CASE p \notin DOMAIN r.arr /\ p \notin Strings
      BY <1>4, <2>3, <2>4, <3>3 DEF Passed, Keys
    <3> QED
      BY <3>1, <3>2, <3>3
  <2>9. k \in Has(r)
    BY <2>4 DEF Has
  <2>10. Stands(r, k)
    BY <2>3, <2>6 DEF Stands
  <2> HIDE DEF step, D
  <2> QED
    BY <1>3, <2>2, <2>7, <2>8, <2>9, <2>10 DEF Goes, Found
\* The arrays and slots are done: so all but the hash's keys are in D.
<1>5. ASSUME inArray = {}, inSlots = {}, NEW p \in Has(r)
      PROVE  p \in D <=> p \notin DOMAIN r.hash
  <2>1. CASE p \in DOMAIN r.arr
    <3>1. r.arr[p] # Nil /\ p \in Int
      BY <1>1, <1>R, <2>1, AtNumber DEF Has
    <3>2. p <= i
      BY <1>1, <1>5, <2>1, <3>1
    <3>3. p \notin DOMAIN r.hash
      BY <1>R, <2>1 DEF WellFormed, Numbered
    <3> QED
      BY <1>4, <2>1, <3>2, <3>3 DEF Has
  <2>2. CASE p \in Strings /\ p \notin DOMAIN r.arr
    <3>1. PICK n \in DOMAIN r.slots : SlotsOf(r.shape, p) = {n} /\ r.slots[n] # Nil /\ r.shape.keys[n] = p
      BY <2>2, PartOf
    <3>2. n <= s
      BY <1>1, <1>5, <3>1
    <3>3. p \notin DOMAIN r.hash
      BY <1>R, <2>2, KindsAssumption DEF WellFormed, Numbered
    <3> QED
      BY <1>4, <2>2, <3>1, <3>2, <3>3 DEF Has
  <2>3. CASE p \notin Strings /\ p \notin DOMAIN r.arr
    BY <1>4, <2>3, PartOf
  <2> QED
    BY <2>1, <2>2, <2>3
<1>C. ASSUME inArray = {}, inSlots = {}, DOMAIN r.hash = {}
      PROVE  Goes(step, r, D)
  <2>1. step = Ended(r)
    BY <1>C DEF NextFrom
  <2>2. Has(r) \subseteq D
    BY <1>5, <1>C
  <2> HIDE DEF D, step
  <2> QED
    BY <1>3, <2>1, <2>2 DEF Goes, Ended
<1>D. ASSUME inArray = {}, inSlots = {}, DOMAIN r.hash # {}
      PROVE  Goes(step, r, D)
  <2> DEFINE u == Snapped(r, order)
  <2>1. step = NextMapKey(u, 1)
    BY <1>D DEF NextFrom, Snapped
  <2>2. Reads(u, r) /\ u.snapshot # NoSnapshot
    BY SnappedReads
  <2> HIDE DEF u, step, D
  <2>A. 1 \in Nat \ {0}
    OBVIOUS
  <2>3. Sound(u) /\ u.hash = r.hash /\ u.arr = r.arr
    BY <2>2 DEF Reads
  <2>4. step.tab = u
    BY <2>1, <2>2, <2>3, <2>A, NextMapKeyGoes
  <2>5. /\ step.is = "key" /\ step.key \in DOMAIN u.hash
        /\ \E m \in DOMAIN u.snapshot :
             /\ u.snapshot[m] = step.key
             /\ \A l \in 1 .. m - 1 : l \in DOMAIN u.snapshot => u.snapshot[l] \notin DOMAIN u.hash
    <3>1. /\ u.snapshot \in Seq(Ints) /\ \A l \in DOMAIN u.snapshot : l \in Nat /\ ~(l < 1)
      BY <2>2, <2>3 DEF Sound, Ordered
    <3>2. GoesInHash(step, u, 1)
      BY <2>1, <2>2, <2>3, <2>A, NextMapKeyGoes
    <3> QED
      BY <1>D, <2>3, <3>1, <3>2 DEF GoesInHash
  <2> DEFINE k == step.key
  <2>6. PICK m \in DOMAIN u.snapshot :
           /\ u.snapshot[m] = k
           /\ \A l \in 1 .. m - 1 : l \in DOMAIN u.snapshot => u.snapshot[l] \notin DOMAIN u.hash
    BY <2>5
  <2>7. k \in Ints /\ k \in Keys /\ k \in Int /\ k \notin Strings /\ k \notin DOMAIN r.arr /\ k \in DOMAIN r.hash
    BY <1>R, <2>3, <2>5, IntsAssumption, KindsAssumption DEF Indexed, Keys, WellFormed, Numbered
  <2>8. k \in Has(r)
    BY <1>R, <2>7, AtNumber DEF Has
  <2>9. k \notin D
    BY <1>5, <1>D, <2>7, <2>8
  <2>10. Stands(u, k)
    BY <2>2, <2>3, <2>6, <2>7 DEF Stands
  <2>11. ASSUME NEW p \in Has(r) PROVE Passed(u, k, p) <=> p \in D \/ p = k
    <3>1. CASE p \in DOMAIN r.arr \/ p \in Strings
      <4>1. p \notin DOMAIN r.hash
        BY <1>R, <3>1, KindsAssumption DEF WellFormed, Numbered
      <4>2. p \in D
        BY <1>5, <1>D, <4>1
      <4>3. Passed(u, k, p)
        BY <2>3, <2>7, <3>1 DEF Passed
      <4> QED
        BY <4>2, <4>3
    <3>2. CASE p \notin DOMAIN r.arr /\ p \notin Strings
      <4>1. p \in DOMAIN r.hash /\ p \in Ints
        BY <3>2, PartOf
      <4>2. p \notin D
        BY <1>5, <1>D, <4>1
      <4>3. Passed(u, k, p) <=> \E l, j \in DOMAIN u.snapshot : u.snapshot[l] = p /\ u.snapshot[j] = k /\ l <= j
        BY <2>3, <2>7, <3>2, <4>1 DEF Passed
      <4>4. u.snapshot \in Seq(Ints) /\ \A l, j \in DOMAIN u.snapshot : u.snapshot[l] = u.snapshot[j] => l = j
        BY <2>2, <2>3 DEF Sound, Ordered
      <4>5. \A l \in DOMAIN u.snapshot : l \in 1 .. Len(u.snapshot) /\ Len(u.snapshot) \in Nat
        BY <4>4
      <4>6. ASSUME NEW l \in DOMAIN u.snapshot, u.snapshot[l] = p, l <= m PROVE p = k
        BY <2>3, <2>6, <4>1, <4>5, <4>6
      <4>7. Passed(u, k, p) <=> p = k
        BY <2>6, <4>3, <4>4, <4>5, <4>6
      <4> QED
        BY <4>2, <4>7
    <3> QED
      BY <3>1, <3>2
  <2> QED
    BY <2>2, <2>4, <2>5, <2>8, <2>9, <2>10, <2>11 DEF Goes
<1> HIDE DEF step, D, inArray, inSlots
<1>6. Goes(step, r, D)
  BY <1>A, <1>B, <1>C, <1>D
<1> QED
  BY <1>6 DEF step, D

\* What a step of next can be, from any key.
Typed(step, r) ==
  /\ Reads(step.tab, r)
  /\ step.is \in {"key", "end", "invalid"} /\ (step.is = "key" => step.key \in Keys)

\* NextHashKey gives a key of the hash, or its end.
LEMMA NextHashKeyTyped ==
  ASSUME NEW r, Sound(r), NEW k, NEW order \in Orders(r)
  PROVE  Typed(NextHashKey(r, k, order), r)
<1> DEFINE u == Snapped(r, order)
           found == {j \in DOMAIN u.snapshot : u.snapshot[j] = k}
           step == NextHashKey(r, k, order)
           next == NextMapKey(u, Min(found) + 1)
<1>1. step = IF (r.snapshot = NoSnapshot /\ k \notin DOMAIN r.hash) \/ found = {} THEN Invalid(r) ELSE next
  BY DEF NextHashKey, Snapped
<1>2. Reads(u, r) /\ u.snapshot # NoSnapshot
  BY SnappedReads
<1>3. Sound(u) /\ u.hash = r.hash
  BY <1>2 DEF Reads
<1> HIDE DEF u, step
<1>4. Typed(Invalid(r), r)
  BY DEF Typed, Invalid, Reads
<1>5. ASSUME found # {} PROVE Typed(next, r)
  <2>1. Min(found) + 1 \in Nat \ {0}
    <3>1. u.snapshot \in Seq(Ints) /\ found \subseteq DOMAIN u.snapshot
      BY <1>2, <1>3 DEF Sound, Ordered
    <3>2. found \in SUBSET Nat /\ IsFiniteSet(found)
      BY <3>1, PositionsFinite
    <3>3. Min(found) \in Nat
      BY <1>5, <3>2, LeastOf
    <3> QED
      BY <3>3
  <2> HIDE DEF found
  <2>2. next.tab = u /\ GoesInHash(next, u, Min(found) + 1)
    BY <1>2, <1>3, <2>1, NextMapKeyGoes
  <2> HIDE DEF next
  <2>3. (next.is = "key" /\ next.key \in DOMAIN u.hash) \/ next.is = "end"
    BY <2>2 DEF GoesInHash
  <2>4. DOMAIN u.hash \subseteq Keys
    BY <1>3 DEF Sound, Indexed, Keys
  <2> QED
    BY <1>2, <2>2, <2>3, <2>4 DEF Typed
<1> HIDE DEF found, next
<1>6. Typed(step, r)
  BY <1>1, <1>4, <1>5
<1> QED
  BY <1>6 DEF step

\* What a traversal goes on to is a key.
LEMMA GoesTyped ==
  ASSUME NEW r, NEW step, NEW D, Goes(step, r, D)
  PROVE  Typed(step, r)
BY DEF Goes, Typed, Has

\* The slots of a string, whose first next goes on from.
LEMMA SlotAfterType ==
  ASSUME NEW r, Sound(r), NEW k \in Strings, SlotAfter(r, k) # {}
  PROVE  /\ SlotAfter(r, k) \subseteq SlotsOf(r.shape, k) \union BuriedSlots(r.shape, k)
         /\ Min(SlotAfter(r, k)) \in SlotAfter(r, k)
         /\ Min(SlotAfter(r, k)) \in 0 .. Len(r.slots) /\ Min(SlotAfter(r, k)) # 0
         /\ Len(r.arr) \in 0 .. Len(r.arr)
<1> DEFINE A == SlotAfter(r, k)
<1>R. WellFormed(r, V)
  BY DEF Sound
<1>1. A \subseteq SlotsOf(r.shape, k) \union BuriedSlots(r.shape, k)
  BY DEF SlotAfter
<1>2. A \subseteq DOMAIN r.slots
  <2>1. DOMAIN r.shape.keys = DOMAIN r.slots
    BY <1>R, ShapeParts DEF WellFormed
  <2> QED
    BY <1>1, <2>1 DEF SlotsOf, BuriedSlots
<1>3. r.slots \in Seq(V) /\ r.arr \in Seq(V)
  BY <1>R DEF WellFormed, Slotted, Numbered
<1>4. A \in SUBSET Nat /\ IsFiniteSet(A)
  BY <1>2, <1>3, PositionsFinite
<1> HIDE DEF A
<1>5. A # {}
  BY DEF A
<1>6. Min(A) \in A
  BY <1>4, <1>5, LeastOf
<1>7. Min(A) \in 0 .. Len(r.slots) /\ Min(A) # 0 /\ Len(r.arr) \in 0 .. Len(r.arr)
  BY <1>2, <1>3, <1>6
<1> QED
  BY <1>1, <1>6, <1>7 DEF A

\* So is what NextOf gives.
LEMMA NextOfTyped ==
  ASSUME NEW r, Sound(r), NEW k \in Keys \union {Nil}, NEW order \in Orders(r)
  PROVE  Typed(NextOf(r, k, order), r)
<1>R. WellFormed(r, V)
  BY DEF Sound
<1>1. DOMAIN r.arr = 1 .. Len(r.arr) /\ Len(r.arr) \in Nat /\ Len(r.slots) \in Nat
  BY <1>R, ShapeParts DEF WellFormed, Numbered
<1>2. CASE k = Nil
  <2>1. 0 \in 0 .. Len(r.arr) /\ 0 \in 0 .. Len(r.slots) /\ (0 # 0 => 0 = Len(r.arr))
    BY <1>1
  <2>2. Goes(NextFrom(r, 0, 0, order), r, Gone(r, 0, 0))
    BY <2>1, NextFromGoes
  <2> QED
    BY <1>2, <2>2, GoesTyped DEF NextOf
<1>3. CASE k # Nil /\ k \in DOMAIN r.arr
  <2>1. k \in 0 .. Len(r.arr) /\ 0 \in 0 .. Len(r.slots) /\ (0 # 0 => k = Len(r.arr))
    BY <1>1, <1>3
  <2>2. Goes(NextFrom(r, k, 0, order), r, Gone(r, k, 0))
    BY <2>1, NextFromGoes
  <2> QED
    BY <1>3, <2>2, GoesTyped DEF NextOf
<1>4. CASE k # Nil /\ k \notin DOMAIN r.arr /\ k \in Ints
  BY <1>4, NextHashKeyTyped DEF NextOf
<1>5. CASE k # Nil /\ k \notin DOMAIN r.arr /\ k \notin Ints /\ SlotAfter(r, k) = {}
  <2>1. NextOf(r, k, order) = Invalid(r)
    BY <1>5 DEF NextOf
  <2>2. Typed(Invalid(r), r)
    BY DEF Typed, Invalid, Reads
  <2> QED
    BY <2>1, <2>2
<1>6. CASE k # Nil /\ k \notin DOMAIN r.arr /\ k \notin Ints /\ SlotAfter(r, k) # {}
  <2>1. k \in Strings
    BY <1>6 DEF Keys
  <2> DEFINE s == Min(SlotAfter(r, k))
             i == Len(r.arr)
  <2>2. s \in 0 .. Len(r.slots) /\ i \in 0 .. Len(r.arr) /\ (s # 0 => i = Len(r.arr))
    BY <1>6, <2>1, SlotAfterType
  <2>3. NextOf(r, k, order) = NextFrom(r, i, s, order)
    BY <1>6 DEF NextOf
  <2> HIDE DEF s, i
  <2>4. s # 0 => i = Len(r.arr)
    BY <2>2
  <2>5. Goes(NextFrom(r, i, s, order), r, Gone(r, i, s))
    BY <2>2, <2>4, NextFromGoes
  <2> QED
    BY <2>3, <2>5, GoesTyped
<1> QED
  BY <1>2, <1>3, <1>4, <1>5, <1>6

Behind(r, k) == {p \in Keys : Passed(r, k, p)}

\* In the hash, the next key is the first of the snapshot that is still there.
LEMMA NextHashKeyGoes ==
  ASSUME NEW r, Sound(r), NEW k \in Ints \ DOMAIN r.arr, Stands(r, k), NEW order \in Orders(r)
  PROVE  Goes(NextHashKey(r, k, order), r, Behind(r, k))
<1> DEFINE found == {j \in DOMAIN r.snapshot : r.snapshot[j] = k}
           step == NextHashKey(r, k, order)
           D == Behind(r, k)
<1>R. WellFormed(r, V) /\ Indexed(r)
  BY DEF Sound
<1>K. k \in Int /\ k \in Keys /\ k \notin Strings
  BY IntsAssumption, KindsAssumption DEF Keys
<1>1. r.snapshot # NoSnapshot /\ \E i \in DOMAIN r.snapshot : r.snapshot[i] = k
  BY <1>K DEF Stands
<1>2. /\ r.snapshot \in Seq(Ints) /\ DOMAIN r.snapshot = 1 .. Len(r.snapshot) /\ Len(r.snapshot) \in Nat
      /\ \A i, j \in DOMAIN r.snapshot : r.snapshot[i] = r.snapshot[j] => i = j
      /\ \A l \in DOMAIN r.hash : \E i \in DOMAIN r.snapshot : r.snapshot[i] = l
  BY <1>1 DEF Sound, Ordered
<1>3. PICK q \in DOMAIN r.snapshot : r.snapshot[q] = k
  BY <1>1
<1>4. found = {q}
  BY <1>2, <1>3
<1>5. Min(found) = q
  <2>1. found \in SUBSET Nat /\ IsFiniteSet(found) /\ found # {}
    <3>1. q \in Nat
      BY <1>2
    <3>2. IsFiniteSet({q})
      BY FS_Singleton
    <3> HIDE DEF found
    <3> QED
      BY <1>4, <3>1, <3>2
  <2>2. Min(found) \in found
    BY <2>1, LeastOf
  <2> QED
    BY <1>4, <2>2
<1>6. step = NextMapKey(r, q + 1)
  <2>1. step = NextMapKey(r, Min(found) + 1)
    BY <1>1, <1>4 DEF NextHashKey
  <2> QED
    BY <1>5, <2>1
<1>7. step.tab = r /\ GoesInHash(step, r, q + 1)
  <2>1. q + 1 \in Nat \ {0}
    BY <1>2
  <2> HIDE DEF step
  <2> QED
    BY <1>1, <1>6, <2>1, NextMapKeyGoes
<1> HIDE DEF step, found
<1>8. Reads(r, r)
  BY DEF Reads
\* Only the hash's keys after k are not behind it.
<1>9. ASSUME NEW p \in Has(r), NEW l \in Ints \ DOMAIN r.arr, NEW m \in DOMAIN r.snapshot, r.snapshot[m] = l
      PROVE  Passed(r, l, p) <=> (p \in DOMAIN r.hash => \E i \in DOMAIN r.snapshot : i <= m /\ r.snapshot[i] = p)
  <2>L. l \notin Strings
    BY IntsAssumption, KindsAssumption
  <2>1. CASE p \in DOMAIN r.arr \/ p \in Strings
    <3>1. p \notin DOMAIN r.hash
      BY <1>R, <2>1, KindsAssumption DEF WellFormed, Numbered
    <3> QED
      BY <2>1, <2>L, <3>1 DEF Passed
  <2>2. CASE p \notin DOMAIN r.arr /\ p \notin Strings
    <3>1. p \in DOMAIN r.hash /\ p \in Ints
      BY <2>2, PartOf
    <3>2. Passed(r, l, p) <=> \E i, j \in DOMAIN r.snapshot : r.snapshot[i] = p /\ r.snapshot[j] = l /\ i <= j
      BY <2>2, <3>1 DEF Passed
    <3>3. \A j \in DOMAIN r.snapshot : r.snapshot[j] = l => j = m
      BY <1>2, <1>9
    <3> QED
      BY <1>9, <3>1, <3>2, <3>3
  <2> QED
    BY <2>1, <2>2
<1>10. \A p \in Has(r) : p \in D <=>
         (p \in DOMAIN r.hash => \E i \in DOMAIN r.snapshot : i <= q /\ r.snapshot[i] = p)
  <2> SUFFICES ASSUME NEW p \in Has(r)
               PROVE  p \in D <=> (p \in DOMAIN r.hash => \E i \in DOMAIN r.snapshot : i <= q /\ r.snapshot[i] = p)
    OBVIOUS
  <2>1. p \in D <=> Passed(r, k, p)
    BY DEF Behind, Has
  <2>2. k \in Ints \ DOMAIN r.arr
    OBVIOUS
  <2>3. Passed(r, k, p) <=> (p \in DOMAIN r.hash => \E i \in DOMAIN r.snapshot : i <= q /\ r.snapshot[i] = p)
    BY <1>3, <1>9, <2>2
  <2> QED
    BY <2>1, <2>3
<1> HIDE DEF D
<1>11. CASE step.is = "end"
  <2>1. \A p \in DOMAIN r.hash : \E i \in DOMAIN r.snapshot : i < q + 1 /\ r.snapshot[i] = p
    BY <1>7, <1>11 DEF GoesInHash
  <2>2. \A p \in DOMAIN r.hash : \E i \in DOMAIN r.snapshot : i <= q /\ r.snapshot[i] = p
    BY <1>2, <2>1
  <2>3. Has(r) \subseteq D
    BY <1>10, <2>2
  <2> QED
    BY <1>7, <1>8, <1>11, <2>3 DEF Goes, step, D
<1>12. CASE step.is # "end"
  <2> DEFINE n == step.key
  <2>1. /\ step.is = "key" /\ n \in DOMAIN r.hash
        /\ \E m \in DOMAIN r.snapshot :
             /\ m >= q + 1 /\ r.snapshot[m] = n
             /\ \A i \in q + 1 .. m - 1 : i \in DOMAIN r.snapshot => r.snapshot[i] \notin DOMAIN r.hash
    BY <1>7, <1>12 DEF GoesInHash
  <2>2. PICK m \in DOMAIN r.snapshot :
           /\ m >= q + 1 /\ r.snapshot[m] = n
           /\ \A i \in q + 1 .. m - 1 : i \in DOMAIN r.snapshot => r.snapshot[i] \notin DOMAIN r.hash
    BY <2>1
  <2>3. n \in Ints \ DOMAIN r.arr /\ n \in Has(r)
    <3>1. n \in Ints /\ n \notin DOMAIN r.arr /\ n \in Int
      BY <1>R, <2>1, IntsAssumption DEF Indexed, WellFormed, Numbered
    <3>2. At(r, n) # Nil
      BY <1>R, <2>1, <3>1, AtNumber
    <3> QED
      BY <3>1, <3>2 DEF Has, Keys
  <2>4. n \notin D
    BY <1>2, <1>10, <2>1, <2>2, <2>3, SMTT(60)
  <2>5. Stands(r, n)
    BY <1>1, <2>2, <2>3 DEF Stands
  <2>6. ASSUME NEW p \in Has(r) PROVE Passed(r, n, p) <=> p \in D \/ p = n
    <3>1. Passed(r, n, p) <=> (p \in DOMAIN r.hash => \E i \in DOMAIN r.snapshot : i <= m /\ r.snapshot[i] = p)
      BY <1>9, <2>2, <2>3
    <3>2. ASSUME NEW i \in DOMAIN r.snapshot, r.snapshot[i] = p, p \in DOMAIN r.hash
          PROVE  i <= m <=> i <= q \/ i = m
      BY <1>2, <2>2, <3>2, SMTT(60)
    <3>3. \A i \in DOMAIN r.snapshot : r.snapshot[i] = p => (i = m <=> p = n)
      BY <1>2, <2>2
    <3> QED
      BY <1>10, <2>1, <3>1, <3>2, <3>3
  <2> QED
    BY <1>7, <1>8, <2>1, <2>3, <2>4, <2>5, <2>6 DEF Goes, step, D
<1> QED
  BY <1>11, <1>12

\* A traversal that has begun goes on from behind its key.
LEMMA NextOfGoes ==
  ASSUME NEW r, Sound(r), Once(r), NEW k \in Keys, Stands(r, k), NEW order \in Orders(r)
  PROVE  Goes(NextOf(r, k, order), r, Behind(r, k))
<1>R. WellFormed(r, V)
  BY DEF Sound
<1>1. /\ DOMAIN r.arr = 1 .. Len(r.arr) /\ Len(r.arr) \in Nat
      /\ DOMAIN r.slots = 1 .. Len(r.slots) /\ Len(r.slots) \in Nat /\ DOMAIN r.shape.keys = DOMAIN r.slots
  BY <1>R, ShapeParts DEF WellFormed, Numbered
<1>2. k # Nil
  BY Kinds
<1>3. CASE k \in DOMAIN r.arr
  <2>1. k \in 0 .. Len(r.arr) /\ 0 \in 0 .. Len(r.slots) /\ (0 # 0 => k = Len(r.arr))
    BY <1>1, <1>3
  <2>2. Goes(NextFrom(r, k, 0, order), r, Gone(r, k, 0))
    BY <2>1, NextFromGoes
  <2>3. ASSUME NEW p \in Keys PROVE p \in Gone(r, k, 0) <=> p \in Behind(r, k)
    <3>1. \A n \in SlotsOf(r.shape, p) : ~(n <= 0)
      BY <1>1 DEF SlotsOf
    <3>2. p \in Gone(r, k, 0) <=> p \in DOMAIN r.arr /\ p <= k
      BY <3>1 DEF Gone
    <3>3. p \in Behind(r, k) <=> p \in DOMAIN r.arr /\ p <= k
      BY <1>3 DEF Behind, Passed
    <3> QED
      BY <3>2, <3>3
  <2>4. Gone(r, k, 0) = Behind(r, k)
    BY <2>3 DEF Gone, Behind
  <2> QED
    BY <1>2, <1>3, <2>2, <2>4 DEF NextOf
<1>4. CASE k \notin DOMAIN r.arr /\ k \in Ints
  BY <1>2, <1>4, NextHashKeyGoes DEF NextOf
<1>5. CASE k \notin DOMAIN r.arr /\ k \notin Ints
  <2>1. k \in Strings /\ SlotAfter(r, k) # {}
    BY <1>5 DEF Keys, Stands
  <2> DEFINE s == Min(SlotAfter(r, k))
             i == Len(r.arr)
  <2>2. /\ s \in 0 .. Len(r.slots) /\ i \in 0 .. Len(r.arr) /\ s \in SlotAfter(r, k)
        /\ SlotAfter(r, k) \subseteq SlotsOf(r.shape, k) \union BuriedSlots(r.shape, k)
    BY <2>1, SlotAfterType
  <2>3. NextOf(r, k, order) = NextFrom(r, i, s, order)
    BY <1>2, <1>5, <2>1 DEF NextOf
  <2>4. s # 0 => i = Len(r.arr)
    OBVIOUS
  <2>L. i = Len(r.arr)
    OBVIOUS
  <2> HIDE DEF s, i
  <2>5. Goes(NextFrom(r, i, s, order), r, Gone(r, i, s))
    BY <2>2, <2>4, NextFromGoes
  <2>6. SlotAfter(r, k) = {s}
    BY <2>1, <2>2 DEF Once
  <2>7. ASSUME NEW p \in Keys PROVE p \in Gone(r, i, s) <=> p \in Behind(r, k)
    <3>1. p \in DOMAIN r.arr => p <= i
      BY <1>1, <2>L
    <3>2. k \notin Ints
      BY <1>5
    <3>3. Passed(r, k, p) <=> p \in DOMAIN r.arr \/ (p \in Strings /\ \E n \in SlotsOf(r.shape, p) : n <= s)
      BY <1>5, <2>1, <2>6, <3>2 DEF Passed
    <3> QED
      BY <3>1, <3>3 DEF Gone, Behind
  <2>8. Gone(r, i, s) = Behind(r, k)
    BY <2>7 DEF Gone, Behind
  <2> QED
    BY <2>3, <2>5, <2>8
<1> QED
  BY <1>3, <1>4, <1>5

\* A traversal begins with the first key.
LEMMA NextOfBegins ==
  ASSUME NEW r, Sound(r), NEW order \in Orders(r)
  PROVE  Goes(NextOf(r, Nil, order), r, {})
<1>R. WellFormed(r, V)
  BY DEF Sound
<1>1. /\ DOMAIN r.arr = 1 .. Len(r.arr) /\ Len(r.arr) \in Nat
      /\ DOMAIN r.slots = 1 .. Len(r.slots) /\ Len(r.slots) \in Nat /\ DOMAIN r.shape.keys = DOMAIN r.slots
  BY <1>R, ShapeParts DEF WellFormed, Numbered
<1>2. 0 \in 0 .. Len(r.arr) /\ 0 \in 0 .. Len(r.slots) /\ (0 # 0 => 0 = Len(r.arr))
  BY <1>1
<1>3. Goes(NextFrom(r, 0, 0, order), r, Gone(r, 0, 0))
  BY <1>2, NextFromGoes
<1>4. Gone(r, 0, 0) = {}
  BY <1>1 DEF Gone, SlotsOf
<1> QED
  BY <1>3, <1>4 DEF NextOf

-----------------------------------------------------------------------------
(* The table in use.                                                       *)

\* The invariants hold at first.
LEMMA InitSound == Init => TableInv /\ WalkInv /\ Has(tab) = {}
<1> SUFFICES ASSUME Init PROVE TableInv /\ WalkInv /\ Has(tab) = {}
  OBVIOUS
<1>0. PICK n \in 0 .. MaxArray, m \in 0 .. MaxShared : \E keys \in [1 .. m -> Strings] :
        /\ IsInjective(keys)
        /\ tab = [EmptyTable EXCEPT !.arr = [i \in 1 .. n |-> Nil], !.shape.keys = keys,
                                    !.slots = [i \in 1 .. m |-> Nil]]
  BY DEF Init
<1>1. PICK keys \in [1 .. m -> Strings] :
        /\ IsInjective(keys)
        /\ tab = [EmptyTable EXCEPT !.arr = [i \in 1 .. n |-> Nil], !.shape.keys = keys,
                                    !.slots = [i \in 1 .. m |-> Nil]]
  BY <1>0
<1>2. n \in Nat /\ m \in Nat
  BY ArrayBound, SharedAssumption
<1>3. /\ tab.arr = [i \in 1 .. n |-> Nil] /\ tab.slots = [i \in 1 .. m |-> Nil]
      /\ tab.shape = [dict |-> FALSE, keys |-> keys]
      /\ tab.dead = 0 /\ tab.buried = 0 /\ tab.hash = <<>> /\ tab.snapshot = NoSnapshot
      /\ Fields \subseteq DOMAIN tab
  BY <1>1 DEF EmptyTable, RootShape, Fields
<1>4. Nil \in V
  BY DEF V
<1>5. keys \in Seq(Label) /\ DOMAIN keys = 1 .. m /\ Len(keys) = m
  BY <1>2 DEF Label
<1>6. Slotted(tab, V)
  <2>1. tab.shape \in Shape
    BY <1>3, <1>5 DEF Shape, Label
  <2>2. tab.slots \in Seq(V) /\ Len(tab.slots) = m
    BY <1>2, <1>3, <1>4
  <2>3. \A i, j \in DOMAIN keys : keys[i] = keys[j] => i = j
    BY <1>1 DEF IsInjective
  <2>4. \A i \in DOMAIN keys : keys[i] \in Strings
    BY <1>5
  <2> QED
    BY <1>3, <1>5, <2>1, <2>2, <2>3, <2>4 DEF Slotted
<1>7. Numbered(tab, V)
  <2>1. tab.arr \in Seq(V)
    BY <1>2, <1>3, <1>4
  <2>2. DOMAIN <<>> = {} /\ <<>> = [k \in DOMAIN <<>> |-> <<>>[k]]
    OBVIOUS
  <2> QED
    BY <1>3, <2>1, <2>2, FS_EmptySet DEF Numbered
<1>8. Sound(tab)
  <2>1. WellFormed(tab, V)
    BY <1>3, <1>4, <1>6, <1>7 DEF WellFormed
  <2>2. Indexed(tab)
    BY <1>3 DEF Indexed
  <2>3. Ordered(tab)
    BY <1>3 DEF Ordered
  <2> QED
    BY <1>3, <2>1, <2>2, <2>3 DEF Sound
<1>9. walk \in [Walkers -> Walk] /\ \A w \in Walkers : walk[w] = Over
  BY DEF Init, Walk, Over
<1>10. Once(tab)
  <2>1. \A i, j \in DOMAIN keys : keys[i] = keys[j] => i = j
    BY <1>1 DEF IsInjective
  <2>2. \A i \in DOMAIN keys : keys[i] \in Strings
    BY <1>5
  <2>3. \A k \in Strings : BuriedSlots(tab.shape, k) = {}
    BY <1>3, <2>2, KindsAssumption DEF BuriedSlots, SlotsOf
  <2>4. \A k \in Strings : \A i, j \in SlotsOf(tab.shape, k) : i = j
    BY <1>3, <2>1 DEF SlotsOf
  <2> QED
    BY <2>3, <2>4 DEF Once
<1>11. Has(tab) = {}
  <2> SUFFICES ASSUME NEW p \in Has(tab) PROVE FALSE
    OBVIOUS
  <2>1. \A i \in DOMAIN tab.arr : tab.arr[i] = Nil
    BY <1>3
  <2>2. \A i \in DOMAIN tab.slots : tab.slots[i] = Nil
    BY <1>3
  <2>3. DOMAIN tab.hash = {}
    BY <1>3
  <2> QED
    BY <1>8, <2>1, <2>2, <2>3, PartOf
<1>12. stored = [k \in Keys |-> At(tab, k)]
  <2>1. \A k \in Keys : At(tab, k) = Nil
    BY <1>11 DEF Has
  <2> QED
    BY <2>1 DEF Init
<1> QED
  BY <1>8, <1>9, <1>10, <1>11, <1>12 DEF TableInv, WalkInv

\* A step that gives the keys of K the value v.  Unless it adds one, or no
\* traversal is under way, it moves no key.
Writes(K, v) ==
  /\ K \in Together /\ K \subseteq Keys /\ v \in V
  /\ Sound(tab') /\ \A l \in Keys : At(tab', l) = IF l \in K THEN v ELSE At(tab, l)
  /\ Assigned(K, v)
  /\ Uses = {} /\ Once(tab) => Once(tab')
  /\ Uses = {} /\ Walking /\ (v = Nil \/ K \subseteq Present) => Same(tab', tab)

\* An assignment is a write of its key.
LEMMA AssignWrites ==
  ASSUME TableInv, NEW k \in Keys, NEW v \in V, NEW crowded \in BOOLEAN, Assign(k, v, crowded)
  PROVE  Writes({k}, v)
<1>R. Sound(tab)
  BY DEF TableInv
<1>A. Assigned({k}, v) /\ (v # Nil => MayAdd(k)) /\ {k} \in Together
  BY DEF Assign, Together
<1>1. CASE At(tab, k) # Nil
  <2>1. tab' = TryPut(tab, k, v)
    BY <1>1 DEF Assign
  <2>2. Wrote(tab', tab, k, v) /\ Same(tab', tab) /\ (Once(tab) => Once(tab'))
    BY <1>R, <1>1, <2>1, TryPutWrites
  <2> QED
    BY <1>A, <2>2 DEF Writes, Wrote
<1>2. CASE At(tab, k) = Nil /\ k \in Strings
  <2>1. tab' = PutString(tab, k, v, crowded)
    BY <1>2 DEF Assign, Put
  <2>2. /\ Wrote(tab', tab, k, v) /\ (v = Nil => Same(tab', tab))
        /\ Once(tab) /\ (v # Nil => BuriedSlots(tab.shape, k) = {} \/ Compacts(tab)) => Once(tab')
    BY <1>R, <1>2, <2>1, PutStringWrites
  <2>3. Uses = {} => (v # Nil => BuriedSlots(tab.shape, k) = {} \/ Compacts(tab))
    BY <1>A, <1>2 DEF MayAdd
  <2>4. {k} \subseteq Present => FALSE
    BY <1>2 DEF Present
  <2> QED
    BY <1>A, <2>2, <2>3, <2>4 DEF Writes, Wrote
<1>3. CASE At(tab, k) = Nil /\ k \notin Strings
  <2>1. tab' = PutAtInt(tab, k, v) /\ k \in Ints
    BY <1>3, Kinds DEF Assign, Put
  <2>2. Wrote(tab', tab, k, v) /\ (v = Nil => Same(tab', tab)) /\ (Once(tab) => Once(tab'))
    BY <1>R, <2>1, PutAtIntWrites
  <2>3. {k} \subseteq Present => FALSE
    BY <1>3 DEF Present
  <2> QED
    BY <1>A, <2>2, <2>3 DEF Writes, Wrote
<1> QED
  BY <1>1, <1>2, <1>3

\* So is a raw one.
LEMMA RawSetWrites ==
  ASSUME TableInv, NEW k \in Keys, NEW v \in V, NEW crowded \in BOOLEAN, RawSet(k, v, crowded)
  PROVE  Writes({k}, v)
<1>R. Sound(tab)
  BY DEF TableInv
<1>A. /\ Assigned({k}, v) /\ At(tab, k) # Nil /\ {k} \in Together
      /\ Uses = {} /\ Walking => k \notin DOMAIN tab.hash
  BY DEF RawSet, Together
<1>P. {k} \subseteq Present => At(tab, k) # Nil /\ k \in Has(tab)
  BY DEF Present, Has
<1>1. CASE k \in Strings
  <2>1. tab' = PutString(tab, k, v, crowded)
    BY <1>1 DEF RawSet, Put
  <2>2. Wrote(tab', tab, k, v) /\ Same(tab', tab)
    BY <1>A, <1>R, <1>1, <2>1, PutStringWrites
  <2>3. Once(tab) => Once(tab')
    BY <2>2 DEF Same, Once
  <2> QED
    BY <1>A, <2>2, <2>3 DEF Writes, Wrote
<1>2. CASE k \notin Strings
  <2>1. tab' = PutAtInt(tab, k, v) /\ k \in Ints
    BY <1>2, Kinds DEF RawSet, Put
  <2>2. Wrote(tab', tab, k, v) /\ (v = Nil \/ k \in DOMAIN tab.arr => Same(tab', tab)) /\ (Once(tab) => Once(tab'))
    BY <1>R, <2>1, PutAtIntWrites
  <2>3. {k} \subseteq Present => k \in DOMAIN tab.arr \/ k \in DOMAIN tab.hash
    BY <1>R, <1>P, <1>2, PartOf
  <2> QED
    BY <1>A, <2>2, <2>3 DEF Writes, Wrote
<1> QED
  BY <1>1, <1>2

\* A constructor's list is a write of its elements.
LEMMA SetListWrites ==
  ASSUME TableInv, NEW n \in 1 .. MaxArray, NEW v \in Values, SetList(n, v)
  PROVE  Writes(1 .. n, v)
<1>R. Sound(tab) /\ v \in V
  BY DEF TableInv, V
<1>N. n \in Nat /\ 1 .. n \subseteq Ints /\ 1 .. n \subseteq Keys /\ 1 .. n \in Together
  BY ArrayBound DEF Keys, Together
<1> DEFINE r == IF n > Len(tab.arr) THEN ExtendArray(tab, n) ELSE tab
<1>1. tab' = Filled(r, n, v) /\ Assigned(1 .. n, v) /\ ~Walking
  BY DEF SetList, Filled
<1>2. Sound(r) /\ n <= Len(r.arr) /\ (Once(tab) => Once(r)) /\ \A l \in Keys : At(r, l) = At(tab, l)
  <2>1. Len(tab.arr) \in Nat
    BY <1>R DEF Sound, WellFormed, Numbered
  <2>2. CASE n > Len(tab.arr)
    <3>1. r = ExtendArray(tab, n)
      BY <2>2
    <3> HIDE DEF r
    <3>2. /\ Sound(r) /\ Len(r.arr) = n /\ (Once(tab) => Once(r))
          /\ \A l \in Keys : At(r, l) = At(tab, l)
      BY <1>R, <1>N, <2>1, <2>2, <3>1, ExtendArrayWrites
    <3> QED
      BY <1>N, <3>2
  <2>3. CASE ~(n > Len(tab.arr))
    BY <1>R, <1>N, <2>1, <2>3
  <2> QED
    BY <2>2, <2>3
<1> HIDE DEF r
<1>3. /\ Sound(tab') /\ (Once(r) => Once(tab'))
      /\ \A l \in Keys : At(tab', l) = IF l \in 1 .. n THEN v ELSE At(r, l)
  BY <1>R, <1>N, <1>1, <1>2, FillWrites
<1> QED
  BY <1>R, <1>N, <1>1, <1>2, <1>3 DEF Writes

\* A write keeps the table in order.
LEMMA WritesSound ==
  ASSUME TableInv, NEW K, NEW v, Writes(K, v)
  PROVE  TableInv'
<1>1. walk' \in [Walkers -> Walk]
  <2> SUFFICES ASSUME NEW w \in Walkers
               PROVE  /\ Over \in Walk /\ walk[w] \in Walk
                      /\ [walk[w] EXCEPT !.owed = @ \ K] \in Walk
    BY DEF Writes, Assigned
  <2> QED
    BY DEF TableInv, Walk, Over
<1>2. stored' = [k \in Keys |-> At(tab', k)]
  <2>1. stored' = [k \in Keys |-> IF k \in K THEN v ELSE stored[k]]
    BY DEF Writes, Assigned
  <2>2. \A k \in Keys : At(tab', k) = IF k \in K THEN v ELSE stored[k]
    BY DEF Writes, TableInv
  <2> QED
    BY <2>1, <2>2
<1> QED
  BY <1>1, <1>2 DEF Writes, TableInv

\* So does a collection.
LEMMA CollectSound == ASSUME TableInv, Collect PROVE TableInv'
<1>1. WellFormed(tab, V)
  BY DEF TableInv, Sound
<1> DEFINE a == BuryDeadKeys(tab)
<1>2. /\ WellFormed(a, V)
      /\ a.arr = tab.arr /\ a.hash = tab.hash /\ a.snapshot = tab.snapshot
      /\ a.dead = tab.dead /\ (tab.dead \in Int /\ tab.buried \in Nat => a.buried \in Nat)
      /\ \A k \in Strings \union Int : At(a, k) = At(tab, k)
  BY <1>1, BuryKeeps
<1>3. tab' = a
  BY DEF Collect
<1> HIDE DEF a
<1>4. Sound(a)
  BY <1>2 DEF TableInv, Sound, Indexed, Ordered
<1>5. \A k \in Keys : At(a, k) = At(tab, k)
  BY <1>2, IntsAssumption DEF Keys
<1>6. stored' = [k \in Keys |-> At(a, k)]
  BY <1>5 DEF Collect, TableInv
<1> QED
  BY <1>3, <1>4, <1>6 DEF Collect, TableInv

\* The snapshots considered are the orders of the hash.
LEMMA SnapshotsOrders == Snapshots = Orders(tab)
BY DEF Snapshots, Orders

\* What a traversal has begun with.
LEMMA BegunType ==
  ASSUME TableInv, NEW w \in Walkers
  PROVE  Begun(w) \in Walk
<1>1. walk[w] \in Walk
  BY DEF TableInv
<1>2. Present \subseteq Keys
  BY DEF Present
<1> QED
  BY <1>1, <1>2 DEF Begun, Walk, Over

\* A step of a traversal keeps the table in order.
LEMMA WalkOnSound ==
  ASSUME TableInv, NEW w \in Walkers, NEW order \in Snapshots, WalkOn(w, order)
  PROVE  TableInv'
<1> DEFINE step == NextOf(tab, Begun(w).at, order)
<1>1. Begun(w) \in Walk /\ Begun(w).at \in Keys \union {Nil}
  BY BegunType DEF Walk
<1>2. Typed(step, tab)
  BY <1>1, SnapshotsOrders, NextOfTyped DEF TableInv
<1>3. tab' = step.tab
  BY DEF WalkOn
<1>4. walk' = [walk EXCEPT ![w] =
                 CASE step.is = "end" -> Over
                   [] step.is = "invalid" -> [Begun(w) EXCEPT !.state = "invalid"]
                   [] step.is = "key" -> [Begun(w) EXCEPT !.at = step.key, !.seen = @ \union {step.key}]]
  BY DEF WalkOn
<1> HIDE DEF step
<1>5. walk' \in [Walkers -> Walk]
  <2>1. Over \in Walk
    BY DEF Over, Walk
  <2>2. [Begun(w) EXCEPT !.state = "invalid"] \in Walk
    BY <1>1 DEF Walk
  <2>3. step.key \in Keys => [Begun(w) EXCEPT !.at = step.key, !.seen = @ \union {step.key}] \in Walk
    BY <1>1 DEF Walk
  <2>4. step.is \in {"key", "end", "invalid"} /\ (step.is = "key" => step.key \in Keys)
    BY <1>2 DEF Typed
  <2>5. walk \in [Walkers -> Walk]
    BY DEF TableInv
  <2>6. CASE step.is = "end"
    BY <1>4, <2>1, <2>5, <2>6
  <2>7. CASE step.is = "invalid"
    BY <1>4, <2>2, <2>5, <2>7
  <2>8. CASE step.is = "key"
    BY <1>4, <2>3, <2>4, <2>5, <2>8
  <2> QED
    BY <2>4, <2>6, <2>7, <2>8
<1>6. Reads(tab', tab) /\ stored' = stored
  BY <1>2, <1>3 DEF Typed, WalkOn
<1>7. stored' = [k \in Keys |-> At(tab', k)]
  BY <1>6 DEF TableInv, Reads
<1> QED
  BY <1>5, <1>6, <1>7 DEF TableInv, Reads

\* A step of the program is a write, a collection or a step of a traversal.
LEMMA NextCases ==
  ASSUME TableInv, Next
  PROVE  \/ \E K, v : Writes(K, v)
         \/ Collect
         \/ \E w \in Walkers : \E order \in Snapshots : WalkOn(w, order)
<1>1. CASE \E k \in Strings, v \in Values \union {Nil}, crowded \in Crowding :
             Assign(k, v, crowded) \/ RawSet(k, v, crowded)
  <2>1. Crowding \subseteq BOOLEAN
    BY DEF Crowding
  <2> QED
    BY <1>1, <2>1, AssignWrites, RawSetWrites DEF Keys, V
<1>2. CASE \E k \in Ints, v \in Values \union {Nil} : Assign(k, v, FALSE) \/ RawSet(k, v, FALSE)
  BY <1>2, AssignWrites, RawSetWrites DEF Keys, V
<1>3. CASE \E n \in 1 .. MaxArray, v \in Values : SetList(n, v)
  BY <1>3, SetListWrites
<1> QED
  BY <1>1, <1>2, <1>3 DEF Next

\* Every step does.
LEMMA TableInvKept == TableInv /\ [Next]_vars => TableInv'
<1> SUFFICES ASSUME TableInv, [Next]_vars PROVE TableInv'
  OBVIOUS
<1>1. CASE Next
  BY <1>1, NextCases, WritesSound, CollectSound, WalkOnSound
<1>2. CASE UNCHANGED vars
  BY <1>2 DEF vars, TableInv
<1> QED
  BY <1>1, <1>2

\* The parts of a table and its traversals have their types: no key is both in
\* the array and in the hash, a shape has as many keys as there are slots, and a
\* snapshot has keys only, whatever the program does (tables.go, shape.go).
THEOREM TypeCorrect == Spec => []TypeOK
<1>1. TableInv => TypeOK
  <2> SUFFICES ASSUME TableInv PROVE TypeOK
    OBVIOUS
  <2>1. WellFormed(tab, V) /\ Indexed(tab) /\ Ordered(tab)
    BY DEF TableInv, Sound
  <2>2. tab.arr \in Seq(V) /\ tab.slots \in Seq(V) /\ tab.shape \in Shape /\ Len(tab.slots) = Len(tab.shape.keys)
    BY <2>1 DEF WellFormed, Slotted, Numbered
  <2>3. DOMAIN tab.hash \subseteq Ints \ DOMAIN tab.arr /\ \A k \in DOMAIN tab.hash : tab.hash[k] \in Values
    BY <2>1 DEF WellFormed, Numbered, Indexed, V
  <2>4. tab.snapshot = NoSnapshot \/ tab.snapshot \in Seq(Ints)
    BY <2>1 DEF Ordered
  <2>5. stored \in [Keys -> V]
    BY <2>1, AtType DEF TableInv
  <2> QED
    BY <2>2, <2>3, <2>4, <2>5 DEF TypeOK, TableInv, Sound, V
<1>2. Init => TableInv
  BY InitSound
<1> QED
  BY <1>1, <1>2, TableInvKept, PTL DEF Spec

\* The length is a border, for every content of array and hash: the binary search
\* ends at one, and unboundSearch does not end before it has found an interval
\* that has one (length).
THEOREM LengthsAreBorders == Spec => []LengthIsBorder
<1>1. TableInv => LengthIsBorder
  <2> SUFFICES ASSUME TableInv PROVE LengthIsBorder
    OBVIOUS
  <2>1. Borders(tab, Length(tab))
    BY LengthIs DEF TableInv, Sound
  <2> QED
    BY <2>1 DEF Borders, LengthIsBorder
<1>2. Init => TableInv
  BY InitSound
<1> QED
  BY <1>1, <1>2, TableInvKept, PTL DEF Spec

-----------------------------------------------------------------------------
(* Traversals while the table is used.                                     *)

\* Where no key moves, a traversal is where it was.
LEMMA SamePlaces ==
  ASSUME NEW r, NEW a, Same(a, r), NEW k
  PROVE  (Stands(r, k) <=> Stands(a, k)) /\ \A p : Passed(r, k, p) <=> Passed(a, k, p)
<1>1. SlotAfter(a, k) = SlotAfter(r, k)
  BY DEF Same, SlotAfter
<1> QED
  BY <1>1 DEF Same, Stands, Passed

\* A snapshot taken moves no traversal: none is in the hash before it.
LEMMA ReadsOn ==
  ASSUME NEW r, NEW u, Reads(u, r), NEW x, On(x, r)
  PROVE  On(x, u)
<1>1. Has(u) = Has(r)
  BY DEF Reads, Has
<1>2. CASE r.snapshot # NoSnapshot
  BY <1>2 DEF Reads
<1>3. CASE r.snapshot = NoSnapshot
  <2>1. x.at \in DOMAIN r.arr \/ x.at \in Strings
    BY <1>3 DEF On, Stands
  <2>2. x.at \notin Ints \ DOMAIN r.arr
    BY <2>1, KindsAssumption, IntsAssumption
  <2>3. u.arr = r.arr /\ u.shape = r.shape /\ SlotAfter(u, x.at) = SlotAfter(r, x.at)
    BY DEF Reads, SlotAfter
  <2>4. Stands(u, x.at)
    BY <2>2, <2>3 DEF On, Stands
  <2>5. \A p : Passed(u, x.at, p) <=> Passed(r, x.at, p)
    BY <2>2, <2>3 DEF Passed
  <2> QED
    BY <1>1, <2>4, <2>5 DEF On
<1> QED
  BY <1>2, <1>3

\* A burial only renames the slot of a cleared key.
LEMMA BuryOn ==
  ASSUME NEW r, Sound(r), Once(r)
  PROVE  LET a == BuryDeadKeys(r)
         IN Once(a) /\ Has(a) = Has(r) /\ \A x : On(x, r) => On(x, a)
<1> DEFINE a == BuryDeadKeys(r)
<1>R. WellFormed(r, V)
  BY DEF Sound
<1>1. /\ WellFormed(a, V)
      /\ a.arr = r.arr /\ a.hash = r.hash /\ a.snapshot = r.snapshot /\ a.slots = r.slots
      /\ \A l \in Strings \union Int : At(a, l) = At(r, l)
  BY <1>R, BuryKeeps
<1>2. \/ a = r
      \/ /\ a.shape.dict /\ r.shape.dict
         /\ DOMAIN a.shape.keys = DOMAIN r.shape.keys
         /\ \A i \in DOMAIN r.shape.keys :
              a.shape.keys[i] = IF r.slots[i] = Nil /\ r.shape.keys[i] \in Strings
                                  THEN Tombstone(r.shape.keys[i]) ELSE r.shape.keys[i]
  <2>1. Interred(a, r)
    BY <1>R, BuryKeeps
  <2> HIDE DEF a
  <2> QED
    BY <2>1 DEF Interred
<1>3. Has(a) = Has(r)
  BY <1>1, IntsAssumption DEF Has, Keys
<1> HIDE DEF a
<1>4. CASE a = r
  BY <1>4 DEF a
<1>5. CASE a # r
  <2> DEFINE All(q, k) == SlotsOf(q.shape, k) \union BuriedSlots(q.shape, k)
  <2>1. ASSUME NEW k \in Strings, NEW i PROVE i \in All(a, k) <=> i \in All(r, k)
    <3>1. i \in All(a, k) <=> i \in DOMAIN r.shape.keys /\ a.shape.keys[i] \in {k, Tombstone(k)}
      BY <1>2, <1>5 DEF SlotsOf, BuriedSlots
    <3>2. i \in All(r, k) <=> i \in DOMAIN r.shape.keys /\ r.shape.keys[i] \in {k, Tombstone(k)}
      BY DEF SlotsOf, BuriedSlots
    <3>3. ASSUME i \in DOMAIN r.shape.keys
          PROVE  a.shape.keys[i] \in {k, Tombstone(k)} <=> r.shape.keys[i] \in {k, Tombstone(k)}
      <4>1. CASE r.slots[i] = Nil /\ r.shape.keys[i] \in Strings
        <5>1. a.shape.keys[i] = Tombstone(r.shape.keys[i])
          BY <1>2, <1>5, <3>3, <4>1
        <5>2. \A l \in Strings : Tombstone(l) \notin Strings /\ (Tombstone(l) = Tombstone(k) => l = k)
          BY KindsAssumption DEF Tombstone
        <5> QED
          BY <4>1, <5>1, <5>2
      <4>2. CASE ~(r.slots[i] = Nil /\ r.shape.keys[i] \in Strings)
        BY <1>2, <1>5, <3>3, <4>2
      <4> QED
        BY <4>1, <4>2
    <3> QED
      BY <3>1, <3>2, <3>3
  <2>2. \A k \in Strings : All(a, k) = All(r, k)
    BY <2>1
  <2>3. Once(a)
    BY <2>2 DEF Once
  \* In a dictionary, next finds a key's one slot, live or buried.
  <2>4. ASSUME NEW q, q.shape.dict, Once(q), NEW k \in Strings
        PROVE  SlotAfter(q, k) = All(q, k)
    BY <2>4 DEF SlotAfter, Once
  <2>5. \A k \in Strings : SlotAfter(a, k) = SlotAfter(r, k)
    BY <1>2, <1>5, <2>2, <2>3, <2>4
  <2>6. ASSUME NEW p \in Has(r), p \in Strings PROVE SlotsOf(a.shape, p) = SlotsOf(r.shape, p)
    <3>1. PICK n \in DOMAIN r.slots : SlotsOf(r.shape, p) = {n} /\ r.slots[n] # Nil /\ r.shape.keys[n] = p
      BY <2>6, PartOf
    <3>2. n \in DOMAIN r.shape.keys
      BY <3>1 DEF SlotsOf
    <3>3. a.shape.keys[n] = p /\ n \in DOMAIN a.shape.keys
      BY <1>2, <1>5, <3>1, <3>2
    <3>4. n \in SlotsOf(a.shape, p)
      BY <3>3 DEF SlotsOf
    <3>5. SlotsOf(a.shape, p) = {n}
      BY <2>3, <2>6, <3>4 DEF Once
    <3> QED
      BY <3>1, <3>5
  <2>7. ASSUME NEW x, On(x, r) PROVE On(x, a)
    <3>1. x.at \in Keys /\ Stands(r, x.at)
      BY <2>7 DEF On
    <3>2. Stands(a, x.at)
      BY <1>1, <2>5, <3>1 DEF Stands
    <3>3. ASSUME NEW p \in Has(r) PROVE Passed(a, x.at, p) <=> Passed(r, x.at, p)
      <4>1. p \in Strings => SlotsOf(a.shape, p) = SlotsOf(r.shape, p)
        BY <2>6
      <4> QED
        BY <1>1, <2>5, <3>1, <4>1 DEF Passed
    <3> QED
      BY <1>3, <2>7, <3>2, <3>3 DEF On
  <2> QED
    BY <1>3, <2>3, <2>7 DEF a
<1> QED
  BY <1>4, <1>5

\* A write keeps what is known of the traversals.
LEMMA WritesKeepWalks ==
  ASSUME Uses = {}, TableInv, WalkInv, NEW K, NEW v, Writes(K, v)
  PROVE  WalkInv'
<1>1. Once(tab')
  BY DEF WalkInv, Writes
<1>2. Has(tab') = IF v = Nil THEN Has(tab) \ K ELSE Has(tab) \union K
  <2>1. \A l \in Keys : At(tab', l) = IF l \in K THEN v ELSE At(tab, l)
    BY DEF Writes
  <2>2. K \subseteq Keys
    BY DEF Writes
  <2>3. CASE v = Nil
    BY <2>1, <2>3 DEF Has
  <2>4. CASE v # Nil
    BY <2>1, <2>2, <2>4 DEF Has
  <2> QED
    BY <2>3, <2>4
<1>P. Present = Has(tab)
  BY DEF Present, Has
<1>3. ASSUME NEW w \in Walkers PROVE walk'[w] = Over \/ On(walk'[w], tab')
  <2>1. walk'[w] = IF v # Nil /\ ~(K \subseteq Present) THEN Over
                   ELSE IF v = Nil THEN [walk[w] EXCEPT !.owed = @ \ K] ELSE walk[w]
    BY DEF Writes, Assigned
  <2>2. CASE v # Nil /\ ~(K \subseteq Present)
    BY <2>1, <2>2
  <2>3. CASE v = Nil \/ K \subseteq Present
    <3>1. CASE walk[w] = Over
      BY <2>1, <2>3, <3>1 DEF Over
    <3>2. CASE On(walk[w], tab)
      <4>1. Same(tab', tab)
        BY <2>3, <3>2 DEF Writes, Walking, On
      <4> DEFINE x == walk[w]
                 y == walk'[w]
      <4>2. x \in Walk
        BY DEF TableInv
      <4>3. y.state = x.state /\ y.at = x.at /\ y.seen = x.seen /\ y.owed = Has(tab')
        <5>1. CASE v = Nil
          <6>1. y = [x EXCEPT !.owed = @ \ K]
            BY <2>1, <5>1
          <6>2. x.owed \ K = Has(tab')
            BY <1>2, <3>2, <5>1 DEF On
          <6> QED
            BY <4>2, <6>1, <6>2 DEF Walk
        <5>2. CASE v # Nil
          <6>1. y = x /\ K \subseteq Has(tab)
            BY <1>P, <2>1, <2>3, <5>2
          <6>2. Has(tab') = Has(tab)
            BY <1>2, <5>2, <6>1
          <6> QED
            BY <3>2, <6>1, <6>2 DEF On
        <5> QED
          BY <5>1, <5>2
      <4>4. Has(tab') \subseteq Has(tab)
        BY <1>2, <1>P, <2>3
      <4>5. /\ Stands(tab', x.at) <=> Stands(tab, x.at)
            /\ \A p : Passed(tab', x.at, p) <=> Passed(tab, x.at, p)
        BY <4>1, SamePlaces
      <4> QED
        BY <3>2, <4>3, <4>4, <4>5 DEF On
    <3> QED
      BY <3>1, <3>2 DEF WalkInv
  <2> QED
    BY <2>2, <2>3
<1> QED
  BY <1>1, <1>3 DEF WalkInv

\* So does a collection.
LEMMA CollectKeepsWalks ==
  ASSUME TableInv, WalkInv, Collect
  PROVE  WalkInv' /\ Has(tab') = Has(tab)
<1>1. /\ Once(tab') /\ Has(tab') = Has(tab)
      /\ \A x : On(x, tab) => On(x, tab')
  BY BuryOn DEF Collect, TableInv, WalkInv
<1> QED
  BY <1>1 DEF Collect, WalkInv

\* Where a traversal is, or what it begins with.
LEMMA WalkGoes ==
  ASSUME TableInv, WalkInv, NEW w \in Walkers, NEW order \in Snapshots
  PROVE  \E D : /\ Goes(NextOf(tab, Begun(w).at, order), tab, D)
                /\ \A p \in Has(tab) : p \in Begun(w).seen <=> p \in D
                /\ Begun(w).owed = Has(tab) /\ Begun(w).state = "on" /\ Begun(w) \in Walk
<1>R. Sound(tab) /\ order \in Orders(tab) /\ Begun(w) \in Walk
  BY SnapshotsOrders, BegunType DEF TableInv
<1>1. CASE walk[w] = Over
  <2>1. Begun(w) = [Over EXCEPT !.state = "on", !.owed = Present]
    BY <1>1 DEF Begun, Over
  <2>2. Begun(w).at = Nil /\ Begun(w).seen = {} /\ Begun(w).owed = Has(tab) /\ Begun(w).state = "on"
    BY <2>1 DEF Over, Present, Has
  <2>3. Goes(NextOf(tab, Nil, order), tab, {})
    BY <1>R, NextOfBegins
  <2> QED
    BY <1>R, <2>2, <2>3
<1>2. CASE On(walk[w], tab)
  <2>1. Begun(w) = walk[w]
    BY <1>2 DEF Begun, On
  <2>2. Goes(NextOf(tab, walk[w].at, order), tab, Behind(tab, walk[w].at))
    BY <1>R, <1>2, NextOfGoes DEF On, WalkInv
  <2>3. \A p \in Has(tab) : p \in walk[w].seen <=> p \in Behind(tab, walk[w].at)
    BY <1>2 DEF On, Behind, Has
  <2> QED
    BY <1>R, <1>2, <2>1, <2>2, <2>3 DEF On
<1> QED
  BY <1>1, <1>2 DEF WalkInv

\* So does a step of one of them.
LEMMA WalkOnKeepsWalks ==
  ASSUME TableInv, WalkInv, NEW w \in Walkers, NEW order \in Snapshots, WalkOn(w, order)
  PROVE  /\ WalkInv' /\ \A k \in Keys : At(tab', k) = At(tab, k)
         /\ \/ Begun(w).owed \subseteq Begun(w).seen /\ walk' = [walk EXCEPT ![w] = Over]
            \/ \E k \in Has(tab) \ Begun(w).seen :
                 walk' = [walk EXCEPT ![w] = [Begun(w) EXCEPT !.at = k, !.seen = @ \union {k}]]
<1> DEFINE step == NextOf(tab, Begun(w).at, order)
           b == Begun(w)
<1>1. PICK D : /\ Goes(step, tab, D) /\ \A p \in Has(tab) : p \in b.seen <=> p \in D
               /\ b.owed = Has(tab) /\ b.state = "on" /\ b \in Walk
  BY WalkGoes
<1>2. tab' = step.tab
  BY DEF WalkOn
<1>3. walk' = [walk EXCEPT ![w] =
                 CASE step.is = "end" -> Over
                   [] step.is = "invalid" -> [b EXCEPT !.state = "invalid"]
                   [] step.is = "key" -> [b EXCEPT !.at = step.key, !.seen = @ \union {step.key}]]
  BY DEF WalkOn
<1> HIDE DEF step, b
<1>4. Reads(tab', tab)
  BY <1>1, <1>2 DEF Goes
<1>5. /\ Once(tab') /\ (\A k \in Keys : At(tab', k) = At(tab, k)) /\ Has(tab') = Has(tab)
      /\ \A x : On(x, tab) => On(x, tab')
  BY <1>4, ReadsOn DEF Reads, WalkInv, Has
<1>W. walk \in [Walkers -> Walk]
  BY DEF TableInv
<1>6. ASSUME walk'[w] = Over \/ On(walk'[w], tab') PROVE WalkInv'
  <2>1. \A z \in Walkers \ {w} : walk'[z] = walk[z]
    BY <1>3, <1>W
  <2> QED
    BY <1>5, <1>6, <2>1 DEF WalkInv
<1>7. CASE step.is = "end"
  <2>1. walk' = [walk EXCEPT ![w] = Over]
    BY <1>3, <1>7
  <2>2. walk'[w] = Over
    BY <1>W, <2>1
  <2>3. b.owed \subseteq b.seen
    BY <1>1, <1>7 DEF Goes
  <2> QED
    BY <1>5, <1>6, <2>1, <2>2, <2>3 DEF b
<1>8. CASE step.is # "end"
  <2> DEFINE k == step.key
             y == [b EXCEPT !.at = k, !.seen = @ \union {k}]
  <2>1. /\ step.is = "key" /\ k \in Has(tab) \ D /\ Stands(tab', k)
        /\ \A p \in Has(tab) : Passed(tab', k, p) <=> p \in D \/ p = k
    BY <1>1, <1>2, <1>8 DEF Goes
  <2>2. walk' = [walk EXCEPT ![w] = y]
    BY <1>3, <2>1
  <2> HIDE DEF k
  <2>3. y.state = "on" /\ y.at = k /\ y.seen = b.seen \union {k} /\ y.owed = Has(tab)
    BY <1>1 DEF Walk
  <2>4. k \in Keys
    BY <2>1 DEF Has
  <2> HIDE DEF y
  <2>5. On(y, tab')
    BY <1>1, <1>5, <2>1, <2>3, <2>4 DEF On
  <2>6. walk'[w] = y
    BY <1>W, <2>2
  <2>7. k \in Has(tab) \ b.seen
    BY <1>1, <2>1
  <2> QED
    BY <1>5, <1>6, <2>2, <2>5, <2>6, <2>7 DEF b, y
<1> QED
  BY <1>7, <1>8

\* So does every step of a program that uses none of Uses.
LEMMA WalkInvKept == Uses = {} => (TableInv /\ WalkInv /\ [Next]_vars => WalkInv')
<1> SUFFICES ASSUME Uses = {}, TableInv, WalkInv, [Next]_vars PROVE WalkInv'
  OBVIOUS
<1>1. CASE Next
  BY <1>1, NextCases, WritesKeepWalks, CollectKeepsWalks, WalkOnKeepsWalks
<1>2. CASE UNCHANGED vars
  BY <1>2 DEF vars, WalkInv
<1> QED
  BY <1>1, <1>2

-----------------------------------------------------------------------------
(* The refinement.                                                         *)

\* The parts of the map that a table stands for.
LEMMA MapParts ==
  ASSUME TableInv
  PROVE  /\ Map!Present = Has(tab) /\ Map!Over = Over
         /\ \A w : Map!Begun(w) = Begun(w)
<1>1. Map!Present = Has(tab) /\ Map!Over = Over /\ Present = Has(tab)
  BY DEF Map!Present, TableInv, Has, Map!Over, Over, Present
<1> QED
  BY <1>1 DEF Map!Begun, Begun

\* A write sets the fields it assigns, and no other.
LEMMA WritesSet ==
  ASSUME Uses = {}, TableInv, WalkInv, NEW K, NEW v, Writes(K, v)
  PROVE  Map!Set(K, v)
<1> DEFINE new == stored'
<1>1. /\ new = [k \in Keys |-> IF k \in K THEN v ELSE stored[k]]
      /\ \A k \in Keys : new[k] = IF k \in K THEN v ELSE At(tab, k)
  BY DEF Writes, Assigned, TableInv
<1> HIDE DEF new
<1>2. ASSUME NEW w \in Walkers
      PROVE  walk'[w] = IF v # Nil /\ ~(K \subseteq Has(tab)) THEN Over
                        ELSE [walk[w] EXCEPT !.owed = {k \in @ : new[k] # Nil}]
  <2>1. walk'[w] = IF v # Nil /\ ~(K \subseteq Present) THEN Over
                   ELSE IF v = Nil THEN [walk[w] EXCEPT !.owed = @ \ K] ELSE walk[w]
    BY DEF Writes, Assigned
  <2>2. Present = Has(tab) /\ K \subseteq Keys
    BY DEF Present, Has, Writes
  <2>3. walk[w].owed \subseteq Has(tab) /\ walk[w] \in Walk
    BY DEF WalkInv, TableInv, On, Over
  <2>4. \A k \in Keys : k \in Has(tab) <=> At(tab, k) # Nil
    BY DEF Has
  <2>6. CASE v # Nil /\ ~(K \subseteq Present)
    BY <2>1, <2>2, <2>6
  <2>7. CASE v = Nil
    <3>1. walk[w].owed \ K = {k \in walk[w].owed : new[k] # Nil}
      <4>1. \A k \in walk[w].owed : k \notin K <=> new[k] # Nil
        BY <1>1, <2>3, <2>4, <2>7 DEF Has
      <4> QED
        BY <4>1
    <3> QED
      BY <2>1, <2>7, <3>1
  <2>8. CASE v # Nil /\ K \subseteq Present
    <3>1. walk[w].owed = {k \in walk[w].owed : new[k] # Nil}
      <4>1. \A k \in walk[w].owed : new[k] # Nil
        BY <1>1, <2>3, <2>4, <2>8 DEF Has
      <4> QED
        BY <4>1
    <3>2. [walk[w] EXCEPT !.owed = {k \in @ : new[k] # Nil}] = walk[w]
      BY <2>3, <3>1 DEF Walk
    <3> QED
      BY <2>1, <2>2, <2>8, <3>2
  <2> QED
    BY <2>6, <2>7, <2>8
<1>3. walk' = [w \in Walkers |-> IF v # Nil /\ ~(K \subseteq Has(tab)) THEN Over
                                  ELSE [walk[w] EXCEPT !.owed = {k \in @ : new[k] # Nil}]]
  <2>1. \E f : walk' = [w \in Walkers |-> f[w]]
    <3> DEFINE f == [w \in Walkers |-> IF v # Nil /\ ~(K \subseteq Present) THEN Over
                                       ELSE IF v = Nil THEN [walk[w] EXCEPT !.owed = @ \ K] ELSE walk[w]]
    <3>1. walk' = f
      BY DEF Writes, Assigned
    <3>2. f = [w \in Walkers |-> f[w]]
      OBVIOUS
    <3> QED
      BY <3>1, <3>2
  <2> QED
    BY <1>2, <2>1
<1> QED
  BY <1>1, <1>3, MapParts DEF Map!Set, new

\* A collection changes no field; a step of next visits a key or ends.
LEMMA StepsRefine ==
  ASSUME Uses = {}, TableInv, WalkInv, [Next]_vars
  PROVE  [Map!Next]_(Map!vars)
<1>1. CASE \E K, v : Writes(K, v)
  <2>1. PICK K, v : Writes(K, v)
    BY <1>1
  <2>2. Map!Set(K, v) /\ K \in Together /\ v \in Values \union {Nil}
    BY <2>1, WritesSet DEF Writes, V
  <2> QED
    BY <2>2 DEF Map!Next
<1>2. CASE Collect
  BY <1>2 DEF Collect, Map!vars
<1>3. CASE \E w \in Walkers : \E order \in Snapshots : WalkOn(w, order)
  <2>1. PICK w \in Walkers, order \in Snapshots : WalkOn(w, order)
    BY <1>3
  <2>2. \/ Begun(w).owed \subseteq Begun(w).seen /\ walk' = [walk EXCEPT ![w] = Over]
        \/ \E k \in Has(tab) \ Begun(w).seen :
             walk' = [walk EXCEPT ![w] = [Begun(w) EXCEPT !.at = k, !.seen = @ \union {k}]]
    BY <2>1, WalkOnKeepsWalks
  <2>3. stored' = stored
    BY <2>1 DEF WalkOn
  <2>4. CASE Begun(w).owed \subseteq Begun(w).seen /\ walk' = [walk EXCEPT ![w] = Over]
    <3>1. Map!End(w)
      BY <2>3, <2>4, MapParts DEF Map!End
    <3> QED
      BY <3>1 DEF Map!Next
  <2>5. CASE \E k \in Has(tab) \ Begun(w).seen :
                walk' = [walk EXCEPT ![w] = [Begun(w) EXCEPT !.at = k, !.seen = @ \union {k}]]
    <3>1. PICK k \in Has(tab) \ Begun(w).seen :
                walk' = [walk EXCEPT ![w] = [Begun(w) EXCEPT !.at = k, !.seen = @ \union {k}]]
      BY <2>5
    <3>2. Map!Visit(w, k) /\ k \in Keys
      BY <2>3, <3>1, MapParts DEF Map!Visit, Has
    <3> QED
      BY <3>2 DEF Map!Next
  <2> QED
    BY <2>2, <2>4, <2>5
<1>4. CASE UNCHANGED vars
  BY <1>4 DEF vars, Map!vars
<1> QED
  BY <1>1, <1>2, <1>3, <1>4, NextCases

\* A table is a Lua table, of a program that neither stores raw a key of the
\* hash while it traverses nor adds a buried key again before a compaction: each
\* key gives what was last assigned to it, and no other assignment, move between
\* array, slots and hash, compaction or burial changes what it gives; and next,
\* in any number of traversals at once, visits each key once, none twice and
\* none that is cleared (tables.go, shape.go).
THEOREM RefinesMap == ASSUME Uses = {} PROVE Spec => IsLuaMap
<1>1. Init => TableInv /\ WalkInv /\ Map!Init
  BY InitSound DEF Init, Map!Init, Map!Over, Over
<1>2. TableInv /\ WalkInv /\ [Next]_vars => TableInv' /\ WalkInv' /\ [Map!Next]_(Map!vars)
  BY TableInvKept, WalkInvKept, StepsRefine
<1>3. TableInv => Content = stored
  BY DEF TableInv, Content
<1> QED
  BY <1>1, <1>2, <1>3, PTL DEF Spec, IsLuaMap, Map!Spec
===============================================================================
