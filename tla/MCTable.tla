------------------------------- MODULE MCTable -------------------------------
(* Strings, values and traversals are interchangeable. *)
EXTENDS Table
\* Bound: no more than three keys are present at once.
FewPresent == Cardinality(Present) <= 3

Symmetry == Permutations(Strings) \union Permutations(Values) \union Permutations(Walkers)
=============================================================================
