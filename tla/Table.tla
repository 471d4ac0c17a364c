-------------------------------- MODULE Table --------------------------------
(***************************************************************************)
(* A table: integer keys from one on in an array, string keys in slots     *)
(* laid out by a shape, and all else in a hash map, with next over the     *)
(* three.  Keys move between the parts as the table is used, and a         *)
(* collection buries the dead keys of a dictionary, while traversals are   *)
(* under way.                                                              *)
(***************************************************************************)
EXTENDS TableOps

CONSTANTS
  Ints,        \* integer keys
  Values,
  Walkers,     \* traversals
  Uses,        \* which of "rawset" and "readd" occur
  MaxArray     \* bound: array size a constructor asks for

ASSUME IntsAssumption == Ints \subseteq Int /\ Nil \notin Ints
ASSUME ValuesAssumption == Nil \notin Values
ASSUME ArrayBound == MaxArray \in Nat /\ 1 .. MaxArray \subseteq Ints

Keys == Strings \union Ints

VARIABLES
  tab,     \* the table
  walk,    \* the traversals, and what their keys are to be: see LuaMap
  stored   \* history: what was last assigned to each key

vars == <<tab, walk, stored>>

Walk == [state : {"on", "over", "invalid"}, at : Keys \union {Nil}, seen : SUBSET Keys, owed : SUBSET Keys]
Over == [state |-> "over", at |-> Nil, seen |-> {}, owed |-> {}]

TypeOK ==
  /\ tab.arr \in Seq(Values \union {Nil})
  /\ tab.shape \in Shape
  /\ tab.slots \in Seq(Values \union {Nil}) /\ Len(tab.slots) = Len(tab.shape.keys)
  /\ tab.dead \in Int /\ tab.buried \in Nat
  /\ DOMAIN tab.hash \subseteq Ints \ DOMAIN tab.arr
  /\ \A k \in DOMAIN tab.hash : tab.hash[k] \in Values
  /\ tab.snapshot = NoSnapshot \/ tab.snapshot \in Seq(Ints)
  /\ walk \in [Walkers -> Walk]
  /\ stored \in [Keys -> Values \union {Nil}]

Present == {k \in Keys : At(tab, k) # Nil}

-----------------------------------------------------------------------------
(* next: the array, then the slots, then a snapshot of the hash's keys.    *)
\* snapshotKeys, in the order of Go's map, where one would be taken.
Snapshots ==
  LET S == DOMAIN tab.hash
  IN IF tab.snapshot = NoSnapshot THEN {p \in [1 .. Cardinality(S) -> S] : IsInjective(p)} ELSE {NoSnapshot}

Found(k, r) == [is |-> "key", key |-> k, tab |-> r]
Ended(r) == [is |-> "end", key |-> Nil, tab |-> r]
Invalid(r) == [is |-> "invalid", key |-> Nil, tab |-> r]

\* The first key of the snapshot from position j on that is still present.
NextMapKey(r, from) ==
  LET left == {j \in from .. Len(r.snapshot) : r.snapshot[j] \in DOMAIN r.hash}
  IN IF left = {} THEN Ended(r) ELSE Found(r.snapshot[Min(left)], r)

NextHashKey(r, k, order) ==
  LET snapped == IF r.snapshot = NoSnapshot THEN [r EXCEPT !.snapshot = order] ELSE r
      found == {j \in DOMAIN snapped.snapshot : snapped.snapshot[j] = k}
  IN IF (r.snapshot = NoSnapshot /\ k \notin DOMAIN r.hash) \/ found = {} THEN Invalid(r)
     ELSE NextMapKey(snapped, Min(found) + 1)

\* From array position i and slot s on.
NextFrom(r, i, s, order) ==
  LET inArray == {j \in DOMAIN r.arr : j > i /\ r.arr[j] # Nil}
      inSlots == {j \in DOMAIN r.slots : j > s /\ r.slots[j] # Nil}
  IN IF inArray # {} THEN Found(Min(inArray), r)
     ELSE IF inSlots # {} THEN Found(r.shape.keys[Min(inSlots)], r)
     ELSE IF DOMAIN r.hash = {} THEN Ended(r)
     ELSE NextMapKey(IF r.snapshot = NoSnapshot THEN [r EXCEPT !.snapshot = order] ELSE r, 1)

SlotAfter(r, k) ==
  IF SlotsOf(r.shape, k) # {} THEN SlotsOf(r.shape, k)
  ELSE IF r.shape.dict THEN BuriedSlots(r.shape, k) ELSE {}

NextOf(r, k, order) ==
  IF k = Nil THEN NextFrom(r, 0, 0, order)
  ELSE IF k \in DOMAIN r.arr THEN NextFrom(r, k, 0, order)
  ELSE IF k \in Ints THEN NextHashKey(r, k, order)
  ELSE IF SlotAfter(r, k) = {} THEN Invalid(r)
  ELSE NextFrom(r, Len(r.arr), Min(SlotAfter(r, k)), order)

-----------------------------------------------------------------------------
(* NEWTABLE: room for an array, and the shape the last table made here     *)
(* reached, its slots nil.                                                 *)
Init ==
  /\ \E n \in 0 .. MaxArray, m \in 0 .. MaxShared : \E keys \in [1 .. m -> Strings] :
       /\ IsInjective(keys)
       /\ tab = [EmptyTable EXCEPT !.arr = [i \in 1 .. n |-> Nil], !.shape.keys = keys,
                                    !.slots = [i \in 1 .. m |-> Nil]]
  /\ walk = [w \in Walkers |-> Over]
  /\ stored = [k \in Keys |-> Nil]

Walking == \E w \in Walkers : walk[w].state = "on"

\* What an assignment of v to the keys of K means for the traversals.
Assigned(K, v) ==
  /\ walk' = [w \in Walkers |->
                IF v # Nil /\ ~(K \subseteq Present) THEN Over
                ELSE IF v = Nil THEN [walk[w] EXCEPT !.owed = @ \ K] ELSE walk[w]]
  /\ stored' = [k \in Keys |-> IF k \in K THEN v ELSE stored[k]]

\* A buried key that is added again has two slots, dead and live, unless a
\* compaction drops the dead one.
MayAdd(k) == k \in Strings /\ BuriedSlots(tab.shape, k) # {} => Compacts(tab) \/ "readd" \in Uses

\* An assignment: setTableAt without metamethods.
Assign(k, v, crowded) ==
  /\ v # Nil => MayAdd(k)
  /\ tab' = IF At(tab, k) # Nil THEN TryPut(tab, k, v) ELSE Put(tab, k, v, crowded)
  /\ Assigned({k}, v)

\* rawset, of a key present: of another it does what Assign does.
RawSet(k, v, crowded) ==
  /\ At(tab, k) # Nil
  /\ Walking /\ k \in DOMAIN tab.hash => "rawset" \in Uses
  /\ tab' = Put(tab, k, v, crowded)
  /\ Assigned({k}, v)

\* SETLIST, in the constructor.
SetList(n, v) ==
  /\ ~Walking
  /\ LET r == IF n > Len(tab.arr) THEN ExtendArray(tab, n) ELSE tab
     IN tab' = [r EXCEPT !.arr = [i \in DOMAIN @ |-> IF i <= n THEN v ELSE @[i]]]
  /\ Assigned(1 .. n, v)

Collect ==
  /\ tab' = BuryDeadKeys(tab)
  /\ UNCHANGED <<walk, stored>>

Begun(w) ==
  IF walk[w].state = "on" THEN walk[w] ELSE [Over EXCEPT !.state = "on", !.owed = Present]

WalkOn(w, order) ==
  /\ walk[w].state # "invalid"
  /\ LET step == NextOf(tab, Begun(w).at, order) IN
       /\ tab' = step.tab
       /\ walk' = [walk EXCEPT ![w] =
                     CASE step.is = "end" -> Over
                       [] step.is = "invalid" -> [Begun(w) EXCEPT !.state = "invalid"]
                       [] step.is = "key" -> [Begun(w) EXCEPT !.at = step.key, !.seen = @ \union {step.key}]]
  /\ UNCHANGED stored

\* With's new shape is crowded out, or not; a dictionary's is not.
Crowding == IF tab.shape.dict THEN {FALSE} ELSE BOOLEAN

Next ==
  \/ \E k \in Strings, v \in Values \union {Nil}, crowded \in Crowding :
       Assign(k, v, crowded) \/ RawSet(k, v, crowded)
  \/ \E k \in Ints, v \in Values \union {Nil} : Assign(k, v, FALSE) \/ RawSet(k, v, FALSE)
  \/ \E n \in 1 .. MaxArray, v \in Values : SetList(n, v)
  \/ Collect
  \/ \E w \in Walkers : \E order \in Snapshots : WalkOn(w, order)

Spec == Init /\ [][Next]_vars

-----------------------------------------------------------------------------
(* Properties.                                                             *)

\* The table is a Lua table.  Each key gives what was last assigned to it, and
\* an assignment changes what no other key gives, while keys move between
\* array, slots and hash and slots are compacted and buried; and next, in any
\* number of traversals at once, visits each key once, none twice and none that
\* is cleared, and accepts the key it gave (tables.go, shape.go).
Content == [k \in Keys |-> At(tab, k)]
Together == {{k} : k \in Keys} \union {1 .. n : n \in 1 .. MaxArray}
Map == INSTANCE LuaMap WITH content <- stored
IsLuaMap == Map!Spec /\ [](Content = stored)

\* The length is a border: the last of a run of integer keys (length).
LengthIsBorder ==
  LET n == Length(tab) IN (n = 0 \/ At(tab, n) # Nil) /\ At(tab, n + 1) = Nil
=============================================================================
