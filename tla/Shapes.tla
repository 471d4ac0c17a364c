-------------------------------- MODULE Shapes --------------------------------
(***************************************************************************)
(* Shapes: the layouts of tables' string keys.  A shared shape never       *)
(* changes, and is reached from the empty one by adding keys in order, so  *)
(* the sequence of its keys is its identity.  A dictionary is private to a *)
(* table, and also holds tombstones where a collection buried a dead key.  *)
(***************************************************************************)
EXTENDS Integers, SequencesExt

CONSTANTS
  Strings,   \* string keys
  Nil,
  MaxShared  \* maxSharedShapeKeys, 32 in the code

ASSUME StringsAssumption == Nil \notin Strings
ASSUME SharedAssumption == MaxShared \in Nat

Tombstone(k) == <<"buried", k>>
IsTombstone(x) == x \in {Tombstone(k) : k \in Strings}

Shape == [dict : BOOLEAN, keys : Seq(Strings \union {Tombstone(k) : k \in Strings})]
RootShape == [dict |-> FALSE, keys |-> <<>>]

\* The slots a key has: none or one.
SlotsOf(s, k) == {i \in DOMAIN s.keys : s.keys[i] = k}
BuriedSlots(s, k) == SlotsOf(s, Tombstone(k))

\* The shape with one more key.  A shared one that has too many keys, or is
\* crowded, has too many children, becomes a dictionary.
With(s, k, crowded) ==
  [dict |-> s.dict \/ crowded \/ Len(s.keys) >= MaxShared, keys |-> Append(s.keys, k)]

\* Without the keys of nil slots, which leave their tombstones.
Buried(s, slots) ==
  [s EXCEPT !.keys = [i \in DOMAIN s.keys |->
     IF slots[i] = Nil /\ ~IsTombstone(s.keys[i]) THEN Tombstone(s.keys[i]) ELSE s.keys[i]]]
=============================================================================
