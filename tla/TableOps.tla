------------------------------ MODULE TableOps ------------------------------
(***************************************************************************)
(* The operations of a table: integer keys from one on in an array, string *)
(* keys in slots laid out by a shape, and all else in a hash map.  A table *)
(* is a record, and each operation that writes returns the table after it. *)
(***************************************************************************)
EXTENDS Shapes, Selections

CONSTANT
  MinCompact  \* minCompactSlots, 8 in the code

ASSUME MinCompactAssumption == MinCompact \in Nat

\* A string is neither a number nor a tombstone.
ASSUME KindsAssumption == \A k \in Strings : k \notin Int /\ Tombstone(k) \notin Strings

NoSnapshot == <<Nil>>
EmptyTable ==
  [arr |-> <<>>, shape |-> RootShape, slots |-> <<>>, dead |-> 0, buried |-> 0,
   hash |-> <<>>, snapshot |-> NoSnapshot]

-----------------------------------------------------------------------------
(* Reading.                                                                *)
At(r, k) ==
  IF k \in Strings THEN IF SlotsOf(r.shape, k) = {} THEN Nil
                        ELSE r.slots[CHOOSE i \in SlotsOf(r.shape, k) : TRUE]
  ELSE IF k \in DOMAIN r.arr THEN r.arr[k]
  ELSE IF k \in DOMAIN r.hash THEN r.hash[k] ELSE Nil

\* The binary search: n steps halve the interval as long as there is one.
Halved(r, x) ==
  LET m == (x[1] + x[2]) \div 2
  IN IF x[2] - x[1] <= 1 THEN x ELSE IF At(r, m) = Nil THEN <<x[1], m>> ELSE <<m, x[2]>>
Border(r, low, high) ==
  LET search[n \in 0 .. high - low] == IF n = 0 THEN <<low, high>> ELSE Halved(r, search[n - 1])
  IN search[high - low][1]

\* unboundSearch finds its interval by doubling, within as many steps as the
\* greatest key of the hash.  An end past the greatest integer is left out.
Doubled(r, x) == IF At(r, x[2]) = Nil THEN x ELSE <<x[2], 2 * x[2]>>
Greatest(r) == Max({0} \union (DOMAIN r.hash \intersect Nat))
Unbound(r, n) ==
  LET double[k \in 0 .. Greatest(r)] == IF k = 0 THEN <<n, n + 1>> ELSE Doubled(r, double[k - 1])
      found == double[Greatest(r)]
  IN Border(r, found[1], found[2])

\* Mutant: integers the hash holds after the array are not looked for.
MutantLength(r) ==
  IF r.arr # <<>> /\ Last(r.arr) = Nil THEN Border(r, 0, Len(r.arr)) ELSE Len(r.arr)

\* length: a search of the array if it ends in nil, else of integers beyond it.
Length(r) ==
  IF r.arr # <<>> /\ Last(r.arr) = Nil THEN Border(r, 0, Len(r.arr)) ELSE Unbound(r, Len(r.arr))

-----------------------------------------------------------------------------
(* Writing: each operator returns the table after it.                      *)
ForgetSnapshot(r) == [r EXCEPT !.snapshot = NoSnapshot]

\* Mutant: the keys of dropped slots stay.
MutantCompact(r) == [r EXCEPT !.slots = SelectSeq(@, LAMBDA v : v # Nil), !.dead = 0, !.buried = 0]

\* Mutant: the values do not move with their keys.
MutantStays(r) ==
  LET live == Among([i \in DOMAIN r.slots |-> i], {i \in DOMAIN r.slots : r.slots[i] # Nil})
  IN [r EXCEPT !.shape.keys = [n \in DOMAIN live |-> r.shape.keys[live[n]]],
               !.slots = SubSeq(r.slots, 1, Len(live)), !.dead = 0, !.buried = 0]

\* compact drops nil slots.
Compact(r) ==
  LET live == Among([i \in DOMAIN r.slots |-> i], {i \in DOMAIN r.slots : r.slots[i] # Nil})
  IN [r EXCEPT !.shape.keys = [n \in DOMAIN live |-> r.shape.keys[live[n]]],
               !.slots = [n \in DOMAIN live |-> r.slots[live[n]]],
               !.dead = 0, !.buried = 0]

\* Whether a dictionary is compacted before it gets another key.
Compacts(r) == r.shape.dict /\ r.dead > MinCompact /\ r.dead > Len(r.slots) \div 2

AddString(r, k, v, crowded) ==
  LET compacted == IF Compacts(r) THEN Compact(r) ELSE r
  IN ForgetSnapshot([compacted EXCEPT !.shape = With(compacted.shape, k, crowded), !.slots = Append(@, v)])

SetSlot(r, i, v) ==
  [r EXCEPT !.slots[i] = v,
            !.dead = IF ~r.shape.dict \/ (v = Nil <=> r.slots[i] = Nil) THEN @
                     ELSE IF v = Nil THEN @ + 1 ELSE @ - 1]

PutString(r, k, v, crowded) ==
  IF SlotsOf(r.shape, k) # {} THEN SetSlot(r, CHOOSE i \in SlotsOf(r.shape, k) : TRUE, v)
  ELSE IF v = Nil THEN r ELSE AddString(r, k, v, crowded)

\* Mutant: what moves to the array stays in the hash.
MutantExtendArray(r, last) == [r EXCEPT !.arr = [i \in 1 .. last |-> At(r, i)]]

\* extendArray also moves what the hash has for the new part.
ExtendArray(r, last) ==
  [r EXCEPT !.arr = [i \in 1 .. last |-> At(r, i)],
            !.hash = [k \in DOMAIN r.hash \ (1 .. last) |-> r.hash[k]]]

Occupancy(r, key) ==
  Cardinality({i \in DOMAIN r.arr : r.arr[i] # Nil}) + Cardinality({k \in DOMAIN r.hash : k <= key})
Resized(r, key) == ExtendArray(r, Max({2 * Occupancy(r, key), key}))

AddOrInsertHash(r, k, v) ==
  LET h == [i \in DOMAIN r.hash \union {k} |-> IF i = k THEN v ELSE r.hash[i]]
  IN IF k \in DOMAIN r.hash THEN [r EXCEPT !.hash = h] ELSE ForgetSnapshot([r EXCEPT !.hash = h])

PutAtInt(r, k, v) ==
  IF k \in DOMAIN r.arr THEN [r EXCEPT !.arr[k] = v]
  ELSE IF v = Nil THEN [r EXCEPT !.hash = [i \in DOMAIN @ \ {k} |-> @[i]]]
  ELSE IF k > 0 /\ Occupancy(r, k) >= k \div 2 THEN [Resized(r, k) EXCEPT !.arr[k] = v]
  ELSE AddOrInsertHash(r, k, v)

Put(r, k, v, crowded) == IF k \in Strings THEN PutString(r, k, v, crowded) ELSE PutAtInt(r, k, v)

\* tryPut, of a key present.
TryPut(r, k, v) ==
  IF k \in Strings THEN PutString(r, k, v, FALSE)
  ELSE IF k \in DOMAIN r.arr THEN [r EXCEPT !.arr[k] = v]
  ELSE IF v = Nil THEN [r EXCEPT !.hash = [i \in DOMAIN @ \ {k} |-> @[i]]]
  ELSE [r EXCEPT !.hash[k] = v]

\* buryDeadKeys, in a collection that reaches the table.
BuryDeadKeys(r) ==
  IF r.shape.dict /\ r.dead > r.buried
    THEN [r EXCEPT !.shape = Buried(@, r.slots), !.buried = r.dead] ELSE r
=============================================================================
