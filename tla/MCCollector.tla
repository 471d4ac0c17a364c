----------------------------- MODULE MCCollector -----------------------------
(***************************************************************************)
(* Collector for TLC: a program of three tables that may be weak or have   *)
(* finalizers, with one entry, and, for the cases it reaches too slowly by *)
(* building heaps, one collection of every heap of three entries under an  *)
(* ephemeron table: convergence that takes more than one pass, and tables  *)
(* resurrected through it.                                                 *)
(***************************************************************************)
EXTENDS Collector

CONSTANTS Root, \* the ephemeron table, no object of the program
          Due   \* the object with a finalizer in its heap

ASSUME RootAssumption == {Root, Due} \subseteq Objects

Triples == Objects \X (Objects \union {Scalar}) \X Objects
OneValue(E) == \A e, f \in E : e[1] = f[1] /\ e[2] = f[2] => e = f

Heap ==
  /\ \E m \in Modes : mode = [o \in Objects |-> IF o = Root THEN "k" ELSE IF o = Due THEN m ELSE ""]
  /\ gc = {Due} /\ roots = {Root}
  /\ \E e \in {t \in Triples : t[1] = Root}, f, g \in Triples : entries = {e, f, g}
  /\ OneValue(entries)
  /\ finalizable = <<Due>> /\ flagged = {Due} /\ toFinalize = <<>>
  /\ gcBusy = FALSE /\ gcWatch = TRUE /\ closed = FALSE
  /\ phase = "lua" /\ hand = {}
  /\ marked = {} /\ gray = {} /\ ephemerons = <<>> /\ weakTables = {}
  /\ at = 0 /\ changed = FALSE /\ dying = <<>>
  /\ before = Nothing
  /\ called = [o \in Objects |-> 0]

MCSpec == (Init \/ Heap) /\ [][Next]_vars

\* A heap is collected once; the program's collections come at any time.
OnceInHeap == IF Root \in Existing THEN "mark" \in {phase, phase'} ELSE Root \notin Existing'

\* Heap is not symmetric, but what Next makes of a heap is.
Interchangeable == Permutations(Objects \ {Root})
=============================================================================
