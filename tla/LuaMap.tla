-------------------------------- MODULE LuaMap --------------------------------
(***************************************************************************)
(* What Lua promises of a table: a map from keys to values, and traversals *)
(* with next that visit each of its keys once, in any order, while fields  *)
(* are assigned to or cleared.  A traversal that is not over when a field  *)
(* is added has no meaning any more, and is given up.                      *)
(***************************************************************************)
CONSTANTS
  Keys, Values, Nil, Walkers,
  Together  \* sets of keys assigned at once

VARIABLES
  content,  \* value of each key, or Nil
  walk      \* of each traversal: whether on, its key, and the keys seen and owed

vars == <<content, walk>>

Over == [state |-> "over", at |-> Nil, seen |-> {}, owed |-> {}]
Present == {k \in Keys : content[k] # Nil}

Init == content = [k \in Keys |-> Nil] /\ walk = [w \in Walkers |-> Over]

\* The fields of K are set to v, or cleared, and no other changes.
Set(K, v) ==
  /\ content' = [k \in Keys |-> IF k \in K THEN v ELSE content[k]]
  /\ walk' = [w \in Walkers |->
                IF v # Nil /\ ~(K \subseteq Present) THEN Over
                ELSE [walk[w] EXCEPT !.owed = {k \in @ : content'[k] # Nil}]]

Begun(w) == IF walk[w].state = "on" THEN walk[w] ELSE [Over EXCEPT !.state = "on", !.owed = Present]

Visit(w, k) ==
  /\ k \in Present \ Begun(w).seen
  /\ walk' = [walk EXCEPT ![w] = [Begun(w) EXCEPT !.at = k, !.seen = @ \union {k}]]
  /\ UNCHANGED content

End(w) ==
  /\ Begun(w).owed \subseteq Begun(w).seen
  /\ walk' = [walk EXCEPT ![w] = Over]
  /\ UNCHANGED content

Next ==
  \/ \E K \in Together, v \in Values \union {Nil} : Set(K, v)
  \/ \E w \in Walkers : (\E k \in Keys : Visit(w, k)) \/ End(w)

Spec == Init /\ [][Next]_vars
=============================================================================
