----------------------------- MODULE MCCoroutine -----------------------------
(* Coroutine for TLC: variables and coroutines are interchangeable. *)
EXTENDS Coroutine

Interchangeable == Permutations(Variables) \union Permutations(Coroutines)
=============================================================================
