------------------------------ MODULE Collector ------------------------------
(***************************************************************************)
(* The Lua collection: Go frees memory, and this marks what Lua can reach, *)
(* clears the entries of weak tables, and calls the finalizers of what it  *)
(* did not reach.  The objects are tables with or without __mode and __gc; *)
(* an entry is a triple of a table, a key and a value.  Other kinds of     *)
(* object only hold references, as a strong table does.                    *)
(*                                                                         *)
(* Marking goes object by object, in any order, as Go's maps and the gray  *)
(* stack may order it; the Lua code that runs between collections, and     *)
(* inside finalizers, builds and drops any structure.                      *)
(***************************************************************************)
EXTENDS Integers, Selections

CONSTANTS
  Objects,     \* collectable objects
  Scalar,      \* a key that is no object
  Modes,       \* the values of __mode: subset of {"", "k", "v", "kv"}
  Uses,        \* whether "abort" occurs
  MaxEntries,  \* bound: entries of all tables
  MaxWeak,     \* bound: weak tables
  MaxGC        \* bound: objects with a finalizer

ASSUME ObjectsAssumption == Scalar \notin Objects /\ Modes \subseteq {"", "k", "v", "kv"}
ASSUME BoundsAssumption == MaxEntries \in Nat /\ MaxWeak \in Nat /\ MaxGC \in Nat

VARIABLES
  mode,         \* __mode of the objects that exist
  gc,           \* objects whose metatable has __gc
  entries,      \* <<table, key, value>>
  roots,        \* what the registry and the stacks hold
  finalizable,  \* globalState.finalizable, oldest first
  flagged,      \* the finalizable flag of each object
  toFinalize,   \* globalState.toFinalize
  gcBusy, gcWatch, closed,
  phase,        \* what the collector does
  marked, gray, \* collector.marked and gray
  ephemerons,   \* collector.ephemerons
  weakTables,   \* collector.weakValues and allWeak
  at, changed,  \* convergeEphemerons' loops
  dying,        \* collect's dying, or none in its first half
  hand,         \* the object on the finalizer thread
  \* history
  before,       \* entries, roots and finalizable objects when the collection began
  called        \* calls of each object's __gc

heapVars == <<mode, gc, entries, roots>>
queues == <<finalizable, flagged, toFinalize>>
flags == <<gcBusy, gcWatch, closed>>
marking == <<marked, gray, ephemerons, weakTables, at, changed, dying>>
history == <<before, called>>
vars == <<heapVars, queues, flags, phase, marking, hand, history>>

Existing == DOMAIN mode

TypeOK ==
  /\ Existing \subseteq Objects /\ mode \in [Existing -> Modes]
  /\ gc \subseteq Existing /\ roots \subseteq Existing /\ hand \subseteq Existing
  /\ \A e \in entries : e \in Existing \X (Existing \union {Scalar}) \X Existing
  /\ finalizable \in Seq(gc) /\ toFinalize \in Seq(gc) /\ flagged \subseteq gc
  /\ gcBusy \in BOOLEAN /\ gcWatch \in BOOLEAN /\ closed \in BOOLEAN
  /\ phase \in {"lua", "mark", "finalize", "finalizer"}
  /\ marked \subseteq Existing /\ gray \subseteq marked
  /\ ephemerons \in Seq(marked) /\ weakTables \subseteq marked
  /\ at \in Nat /\ changed \in BOOLEAN
  /\ dying \in Seq(gc) /\ called \in [Objects -> Nat]

Nothing == [entries |-> {}, reached |-> {}, finalizable |-> <<>>]

Init ==
  /\ mode = <<>> /\ gc = {} /\ entries = {} /\ roots = {}
  /\ finalizable = <<>> /\ flagged = {} /\ toFinalize = <<>>
  /\ gcBusy = FALSE /\ gcWatch = FALSE /\ closed = FALSE
  /\ phase = "lua" /\ hand = {}
  /\ marked = {} /\ gray = {} /\ ephemerons = <<>> /\ weakTables = {}
  /\ at = 0 /\ changed = FALSE /\ dying = <<>>
  /\ before = Nothing
  /\ called = [o \in Objects |-> 0]

-----------------------------------------------------------------------------
(* Lua code, in a finalizer or not.  What it holds, in variables of any     *)
(* kind, is in roots, but for the object a finalizer is given; no          *)
(* collection can tell the locals of a finalizer from globals it resets.   *)
LuaRuns == phase = "finalizer" \/ (phase = "lua" /\ ~closed)
Held == roots \union hand

\* Mutant: the flag is not set.
MutantNoteFinalizer(o) ==
  IF closed \/ o \in flagged
    THEN UNCHANGED <<finalizable, flagged>>
    ELSE /\ finalizable' = Append(finalizable, o)
         /\ UNCHANGED flagged

\* noteMetaTable, of an object given a metatable with __gc.
NoteFinalizer(o) ==
  IF closed \/ o \in flagged
    THEN UNCHANGED <<finalizable, flagged>>
    ELSE /\ flagged' = flagged \union {o}
         /\ finalizable' = Append(finalizable, o)

\* A table, with its metatable.
New(o, m, fin) ==
  /\ LuaRuns /\ o \notin Existing
  /\ m # "" => Cardinality({p \in Existing : mode[p] # ""}) < MaxWeak
  /\ fin => Cardinality(gc) < MaxGC
  /\ mode' = [p \in Existing \union {o} |-> IF p = o THEN m ELSE mode[p]]
  /\ roots' = roots \union {o}
  /\ IF fin THEN gc' = gc \union {o} /\ NoteFinalizer(o)
     ELSE UNCHANGED <<gc, finalizable, flagged>>
  /\ gcWatch' = (gcWatch \/ m # "" \/ (fin /\ ~closed))
  /\ UNCHANGED <<entries, toFinalize, gcBusy, closed, phase, marking, hand, before, called>>

Store(t, k, v) ==
  /\ LuaRuns /\ t \in Held /\ k \in Held \union {Scalar} /\ v \in Held
  /\ \A w \in Objects : <<t, k, w>> \notin entries
  /\ Cardinality(entries) < MaxEntries
  /\ entries' = entries \union {<<t, k, v>>}
  /\ UNCHANGED <<mode, gc, roots, queues, flags, phase, marking, hand, history>>

\* A read of an entry of a table, with next or by its key.
Load(e) ==
  /\ LuaRuns /\ e \in entries /\ e[1] \in Held
  /\ \E o \in {e[2], e[3]} \ ({Scalar} \union roots) : roots' = roots \union {o}
  /\ UNCHANGED <<mode, gc, entries, queues, flags, phase, marking, hand, history>>

Drop(o) ==
  /\ LuaRuns /\ o \in roots
  /\ roots' = roots \ {o}
  /\ UNCHANGED <<mode, gc, entries, queues, flags, phase, marking, hand, history>>

\* A finalizer keeps an object, in a global variable.
Keep(o) ==
  /\ phase = "finalizer" /\ o \in hand \ roots
  /\ roots' = roots \union {o}
  /\ UNCHANGED <<mode, gc, entries, queues, flags, phase, marking, hand, history>>

-----------------------------------------------------------------------------
(* The collection.                                                         *)
IsMarked(x) == x = Scalar \/ x \in marked
EntriesOf(t) == {e \in entries : e[1] = t}

\* Mutant: what is found is traversed, not marked.
MutantMark(S) == gray' = gray \union (S \ marked) /\ UNCHANGED marked

Mark(S) == marked' = marked \union S /\ gray' = gray \union (S \ marked)

\* checkGC when one is due, which needs gcWatch, or collectgarbage; none while
\* a collection or a finalizer runs.
Collect(automatic) ==
  /\ LuaRuns /\ ~gcBusy
  /\ automatic => gcWatch
  /\ gcBusy' = TRUE
  /\ phase' = "mark"
  /\ marked' = roots \union ToSet(toFinalize) /\ gray' = marked'
  /\ ephemerons' = <<>> /\ weakTables' = {} /\ at' = 1 /\ changed' = FALSE /\ dying' = <<>>
  /\ before' = [entries |-> entries, reached |-> marked', finalizable |-> finalizable]
  /\ UNCHANGED <<heapVars, queues, gcWatch, closed, hand, called>>

\* What traverseTable marks of a table's entries.
Kept(t) ==
  CASE mode[t] = ""   -> (UNION {{e[2], e[3]} : e \in EntriesOf(t)}) \ {Scalar}
    [] mode[t] = "v"  -> {e[2] : e \in EntriesOf(t)} \ {Scalar}
    [] mode[t] = "k"  -> {e[3] : e \in {f \in EntriesOf(t) : IsMarked(f[2])}}
    [] mode[t] = "kv" -> {}

\* One object of propagate's loop.
Propagate(t) ==
  /\ phase = "mark" /\ t \in gray
  /\ marked' = marked \union Kept(t)
  /\ gray' = (gray \ {t}) \union (Kept(t) \ marked)
  /\ ephemerons' = IF mode[t] = "k" THEN Append(ephemerons, t) ELSE ephemerons
  /\ weakTables' = IF mode[t] \in {"v", "kv"} THEN weakTables \union {t} ELSE weakTables
  /\ UNCHANGED <<heapVars, queues, flags, phase, at, changed, dying, hand, history>>

\* Mutant: the values of keys reached late are not marked.
MutantConvergeTable ==
  /\ phase = "mark" /\ gray = {} /\ at <= Len(ephemerons)
  /\ at' = at + 1
  /\ UNCHANGED <<heapVars, queues, flags, phase, marked, gray, changed, ephemerons, weakTables, dying, hand, history>>

\* convergeEphemerons: one table, and the propagate that follows it; and after
\* the last, another pass if one marked anything.
ConvergeTable ==
  /\ phase = "mark" /\ gray = {} /\ at <= Len(ephemerons)
  /\ LET new == {e[3] : e \in {f \in EntriesOf(ephemerons[at]) : IsMarked(f[2])}} \ marked
     IN Mark(new) /\ changed' = (changed \/ new # {})
  /\ at' = at + 1
  /\ UNCHANGED <<heapVars, queues, flags, phase, ephemerons, weakTables, dying, hand, history>>

ConvergeAgain ==
  /\ phase = "mark" /\ gray = {} /\ at > Len(ephemerons) /\ changed
  /\ at' = 1 /\ changed' = FALSE
  /\ UNCHANGED <<heapVars, queues, flags, phase, marked, gray, ephemerons, weakTables, dying, hand, history>>

\* Mutant: one pass over the ephemeron tables.
MutantConverged == phase = "mark" /\ gray = {} /\ at > Len(ephemerons)

Converged == phase = "mark" /\ gray = {} /\ at > Len(ephemerons) /\ ~changed

\* clearValues and clearKeys.
DeadValues(E) == {e \in E : e[1] \in weakTables /\ e[3] \notin marked}
DeadKeys(E) ==
  {e \in E : (e[1] \in ToSet(ephemerons) \/ (e[1] \in weakTables /\ mode[e[1]] = "kv")) /\ ~IsMarked(e[2])}

\* Values are cleared before anything is resurrected; then what has a
\* finalizer and was not reached is marked, with what it reaches.
Resurrect ==
  /\ Converged /\ dying = <<>>
  /\ \E i \in DOMAIN finalizable : finalizable[i] \notin marked
  /\ entries' = entries \ DeadValues(entries)
  /\ dying' = Among(finalizable, Existing \ marked)
  /\ finalizable' = Among(finalizable, marked)
  /\ Mark(ToSet(dying'))
  /\ at' = 1
  /\ UNCHANGED <<mode, gc, roots, flagged, toFinalize, flags, phase, ephemerons, weakTables, changed, hand, history>>

\* The end of the collection; its finalizers follow, newest first.
Finish ==
  /\ Converged
  /\ dying # <<>> \/ \A i \in DOMAIN finalizable : finalizable[i] \in marked
  /\ entries' = entries \ (DeadValues(entries) \union DeadKeys(entries))
  /\ toFinalize' = toFinalize \o Reverse(dying)
  /\ gcBusy' = FALSE
  /\ phase' = "finalize"
  /\ marked' = {} /\ gray' = {} /\ ephemerons' = <<>> /\ weakTables' = {}
  /\ at' = 0 /\ changed' = FALSE /\ dying' = <<>> /\ before' = Nothing
  /\ UNCHANGED <<mode, gc, roots, finalizable, flagged, gcWatch, closed, hand, called>>

-----------------------------------------------------------------------------
(* Finalizers.                                                             *)

\* Mutant: a finalizer may collect.
MutantCallFinalizer ==
  /\ phase = "finalize" /\ toFinalize # <<>>
  /\ toFinalize' = Tail(toFinalize)
  /\ hand' = {Head(toFinalize)}
  /\ called' = [called EXCEPT ![Head(toFinalize)] = @ + 1]
  /\ phase' = "finalizer"
  /\ UNCHANGED <<heapVars, finalizable, flagged, flags, marking, before>>

\* runFinalizers and callFinalizer: the object leaves the queue first.
CallFinalizer ==
  /\ phase = "finalize" /\ toFinalize # <<>>
  /\ toFinalize' = Tail(toFinalize)
  /\ hand' = {Head(toFinalize)}
  /\ called' = [called EXCEPT ![Head(toFinalize)] = @ + 1]
  /\ gcBusy' = TRUE
  /\ phase' = "finalizer"
  /\ UNCHANGED <<heapVars, finalizable, flagged, gcWatch, closed, marking, before>>

\* It returns, or fails, which is a warning.
EndFinalizer ==
  /\ phase = "finalizer"
  /\ phase' = "finalize" /\ gcBusy' = FALSE /\ hand' = {}
  /\ UNCHANGED <<heapVars, queues, gcWatch, closed, marking, history>>

\* A panic that is no Lua error ends runFinalizers; collect's deferred function
\* resets gcBusy, and what is due waits for the next collection.  Close has no
\* such function, and nothing may use the state after it.
AbortFinalizers ==
  /\ "abort" \in Uses
  /\ phase = "finalizer" /\ ~closed
  /\ phase' = "lua" /\ gcBusy' = FALSE /\ hand' = {}
  /\ UNCHANGED <<heapVars, queues, gcWatch, closed, marking, history>>

EndFinalizers ==
  /\ phase = "finalize" /\ toFinalize = <<>>
  /\ phase' = "lua"
  /\ UNCHANGED <<heapVars, queues, flags, marking, hand, history>>

\* Mutant: only what was due already is finalized.
MutantClose ==
  /\ phase = "lua" /\ ~closed
  /\ closed' = TRUE
  /\ phase' = "finalize"
  /\ UNCHANGED <<heapVars, queues, gcBusy, gcWatch, marking, hand, history>>

\* Close: every object still to be finalized is, reachable or not.
Close ==
  /\ phase = "lua" /\ ~closed
  /\ closed' = TRUE
  /\ toFinalize' = toFinalize \o Reverse(finalizable)
  /\ finalizable' = <<>>
  /\ phase' = "finalize"
  /\ UNCHANGED <<heapVars, flagged, gcBusy, gcWatch, marking, hand, history>>

-----------------------------------------------------------------------------
Next ==
  \/ \E o \in Objects, m \in Modes, fin \in BOOLEAN : New(o, m, fin)
  \/ \E t, v \in Objects, k \in Objects \union {Scalar} : Store(t, k, v)
  \/ \E e \in entries : Load(e)
  \/ \E o \in Objects : Drop(o)
  \/ \E o \in Objects : Keep(o)
  \/ \E automatic \in BOOLEAN : Collect(automatic)
  \/ \E t \in Objects : Propagate(t)
  \/ ConvergeTable
  \/ ConvergeAgain
  \/ Resurrect
  \/ Finish
  \/ CallFinalizer
  \/ EndFinalizer
  \/ AbortFinalizers
  \/ EndFinalizers
  \/ Close

Spec == Init /\ [][Next]_vars

-----------------------------------------------------------------------------
(* Properties.                                                             *)

\* What is reachable, by definition: the least set that holds R, what a strong
\* table in it holds, the keys of its weak-valued tables, and the value of each
\* entry of its ephemeron tables whose key it holds.
Holds(S, e) ==
  CASE mode[e[1]] = ""   -> {e[2], e[3]} \subseteq S
    [] mode[e[1]] = "v"  -> e[2] \in S
    [] mode[e[1]] = "k"  -> e[2] \in S => e[3] \in S
    [] mode[e[1]] = "kv" -> TRUE
Reach(R, E) ==
  {o \in Existing : \A S \in SUBSET Existing :
     R \subseteq S /\ (\A e \in E : e[1] \in S => Holds(S \union {Scalar}, e)) => o \in S}
Reached == Reach(before.reached, before.entries)
Resurrected == Reach(before.reached \union ToSet(dying), before.entries)

\* A collection removes exactly the weak entries Lua says it does: those whose
\* value was not reachable before finalizers resurrected anything, or, in a
\* table itself resurrected, is not even then; and those whose key is not
\* reachable even so.  Everything else stays, in whatever order objects were
\* marked (clearValues, clearKeys, convergeEphemerons).
Cleared(e) ==
  \/ mode[e[1]] \in {"v", "kv"} /\ e[1] \in Reached /\ e[3] \notin Reached
  \/ mode[e[1]] \in {"v", "kv"} /\ e[1] \in Resurrected /\ e[3] \notin Resurrected
  \/ mode[e[1]] \in {"k", "kv"} /\ e[1] \in Resurrected /\ e[2] \notin Resurrected \union {Scalar}
WeakEntriesExact == [][Finish => entries' = {e \in before.entries : ~Cleared(e)}]_vars

\* What a collection finalizes is exactly what had a finalizer and was not
\* reachable, the newest first, after what was due already (collect).
FinalizesUnreachable ==
  [][Finish => toFinalize' = toFinalize \o
                 Reverse(Among(before.finalizable, Existing \ Reached))]_vars

\* An object given a finalizer waits in exactly one queue until it is called,
\* and is called once, whatever collections, errors in finalizers,
\* resurrections and Close come between (finalizable, toFinalize).
QueuedOrCalledOnce ==
  \A o \in Objects :
    Occurrences(finalizable, o) + Occurrences(toFinalize, o) + Occurrences(dying, o) + called[o]
      = IF o \in flagged THEN 1 ELSE 0

\* No collection runs while the finalizer thread, which is not a root, holds
\* anything (gcBusy in callFinalizer).
FinalizerThreadEmpty == phase = "mark" => hand = {}

\* After Close every object ever queued for finalization has had its finalizer
\* called, reachable or not, resurrected or not (Close, runFinalizers).
CloseFinalizesAll == closed /\ phase = "lua" => \A o \in flagged : called[o] > 0
=============================================================================
