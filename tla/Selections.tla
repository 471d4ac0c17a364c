------------------------------ MODULE Selections ------------------------------
(* The elements of a sequence that are in a set, and how often one occurs. *)
(* Sequences' SelectSeq takes an operator, and proofs have no rule for it.  *)
EXTENDS SequencesExt

\* Where s has an element of S.
Positions(s, S) == {i \in DOMAIN s : s[i] \in S}

\* How many positions of K are not after i.
Rank(K, i) == Cardinality({j \in K : j <= i})

\* The elements of s that are in S, in their order.
Among(s, S) ==
  LET K == Positions(s, S)
  IN [n \in 1 .. Cardinality(K) |-> s[CHOOSE i \in K : Rank(K, i) = n]]

Occurrences(s, o) == Cardinality({i \in DOMAIN s : s[i] = o})
===============================================================================
