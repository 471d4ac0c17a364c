--------------------------- MODULE InterruptProofs ---------------------------
(***************************************************************************)
(* Proofs about Interrupt, for every set of coroutines, every period and   *)
(* every bound.  The invariant has three parts: the types, with a call in  *)
(* progress whenever Lua code runs; the count of errors against requests;  *)
(* and that a set flag survives the end of an outermost call only until    *)
(* the store that drops it.                                                *)
(***************************************************************************)
EXTENDS Interrupt, TLAPS

\* Lua code runs only inside a call.
InCall == where \in {"interp", "compiled"} => stack # <<>>

\* The count of a thread while stack[i] is its innermost call.
CountAt(i) == IF stack[i].kind = "resume" THEN stack[i].saved ELSE stack[i].saved + 1

\* stack[i] is the innermost call of its thread.
Innermost(i) == i = Len(stack) \/ stack[i + 1].thread # stack[i].thread

\* What the counts mean: only the outermost call saved zero, a thread's calls
\* are next to each other, each one saved the count of the one around it, and
\* the innermost one has the thread's count.
Counts ==
  /\ \A i \in 1 .. Len(stack) :
       /\ IF i = 1 THEN stack[i].kind = "pcall" /\ stack[i].saved = 0
                   ELSE stack[i].saved \in Nat \ {0}
       /\ Innermost(i) => nested[stack[i].thread] = CountAt(i)
       /\ (i > 1 /\ stack[i - 1].thread = stack[i].thread) =>
            stack[i].kind # "resume" /\ stack[i].saved = CountAt(i - 1)
       /\ \A j \in i + 1 .. Len(stack) :
            stack[j].thread = stack[i].thread => stack[i + 1].thread = stack[i].thread
       /\ stack[i].thread = Main => stack[1].thread = Main
  /\ ~Active(Main) => nested[Main] = 0

\* The store that drops an interrupt follows the end of an outermost call.
StoreOutside == where = "store" => stack = <<>>

\* A flag older than the last outermost call that ended is about to be cleared.
StaleDropped == interrupt /\ stale => where = "store"

Inv == TypeOK /\ InCall /\ EachRaiseWasAsked

\* The host runs only between calls.
HostEmpty == where = "host" => stack = <<>>

DropInv == Counts /\ HostEmpty /\ StoreOutside /\ StaleDropped

LEMMA TopEntry == ASSUME stack \in Seq(Entry), stack # <<>>
                  PROVE  /\ Top \in Entry /\ Running \in Threads
                         /\ Pop \in Seq(Entry)
<1>1. Len(stack) \in 1 .. Len(stack)
  OBVIOUS
<1>2. Top \in Entry
  BY <1>1 DEF Top
<1>3. Running \in Threads
  BY <1>2 DEF Running, Entry
<1>4. Pop \in Seq(Entry)
  BY DEF Pop
<1> QED
  BY <1>2, <1>3, <1>4

LEMMA PrefixOfStack == ASSUME stack \in Seq(Entry), NEW k \in 0 .. Len(stack)
                       PROVE  SubSeq(stack, 1, k) \in Seq(Entry)
OBVIOUS

LEMMA InitInv == Init => Inv
<1> SUFFICES ASSUME Init PROVE Inv
  OBVIOUS
<1>1. /\ poll \in [Threads -> 0 .. PollPeriod] /\ runs \in [Threads -> 0 .. EntryPeriod - 1]
      /\ budget \in 0 .. JitBudget /\ nested \in [Threads -> Int] /\ line \in 0 .. MaxLine
  BY PeriodAssumption, BoundAssumption DEF Init
<1>2. stack \in Seq(Entry) /\ asked \in Nat /\ raised \in Nat /\ where = "host"
  BY DEF Init
<1>3. TypeOK
  BY <1>1, <1>2 DEF Init, TypeOK
<1>4. EachRaiseWasAsked
  BY DEF Init, EachRaiseWasAsked
<1> QED
  BY <1>2, <1>3, <1>4 DEF Init, Inv, InCall

\* What Unwind leaves behind, whoever calls it.
LEMMA UnwindType ==
  ASSUME TypeOK, NEW flag \in BOOLEAN, NEW recovers \in BOOLEAN, Unwind(flag, recovers)
  PROVE  /\ stack' \in Seq(Entry)
         /\ nested' \in [Threads -> Int]
         /\ where' \in {"host", "interp", "store"}
         /\ where' = "interp" => stack' # <<>>
         /\ stale' \in BOOLEAN
<1>1. PICK i \in 1 .. Len(stack) :
        LET e    == stack[i]
            rest == SubSeq(stack, 1, IF recovers THEN i ELSE i - 1)
            n    == IF e.kind = "resume" /\ ~recovers THEN e.saved - 1 ELSE e.saved
        IN /\ stack' = rest
           /\ nested' = [nested EXCEPT ![e.thread] = n]
           /\ where' = IF e.saved = 0 /\ flag THEN "store"
                       ELSE IF rest = <<>> THEN "host" ELSE "interp"
           /\ stale' = (stale \/ rest = <<>>)
  BY DEF Unwind
<1>2. stack \in Seq(Entry) /\ nested \in [Threads -> Int] /\ stale \in BOOLEAN
  BY DEF TypeOK
<1>3. stack[i] \in Entry
  BY <1>2
<1>4. stack[i].thread \in Threads /\ stack[i].saved \in Int
  BY <1>3 DEF Entry
<1>5. stack' \in Seq(Entry)
  BY <1>1, <1>2, PrefixOfStack
<1>6. nested' \in [Threads -> Int]
  BY <1>1, <1>2, <1>4
<1> QED
  BY <1>1, <1>2, <1>5, <1>6


\* The goroutines that interrupt.
LEMMA RequestKeeps == ASSUME Inv, RequestInterrupt PROVE Inv'
<1>1. UNCHANGED <<poll, runs, budget, nested, stack, where, line, raised>>
  BY DEF RequestInterrupt, counters
<1>2. interrupt' = TRUE /\ stale' = FALSE /\ asked' = asked + 1
  BY DEF RequestInterrupt
<1>3. asked' \in Nat /\ asked \in Nat /\ raised \in Nat /\ raised <= asked
  BY <1>2 DEF Inv, TypeOK, EachRaiseWasAsked
<1>4. TypeOK'
  BY <1>1, <1>2, <1>3 DEF Inv, TypeOK
<1>5. EachRaiseWasAsked'
  BY <1>1, <1>2, <1>3 DEF EachRaiseWasAsked
<1> QED
  BY <1>1, <1>2, <1>4, <1>5 DEF Inv, InCall

\* A new call.
LEMMA EnterKeeps ==
  ASSUME Inv, NEW e \in Entry, NEW n \in Int, Enter(e, n), line' \in 0 .. MaxLine,
         where # "store"
  PROVE  Inv'
<1>1. stack' \in Seq(Entry) /\ stack' # <<>>
  BY DEF Enter, Inv, TypeOK
<1>2. nested' \in [Threads -> Int]
  BY DEF Enter, Inv, TypeOK, Entry
<1>3. where' = "interp"
  BY DEF Enter
<1>4. UNCHANGED <<interrupt, poll, runs, budget, asked, raised, stale>>
  BY DEF Enter, counters, history
<1>5. TypeOK'
  BY <1>1, <1>2, <1>3, <1>4 DEF Inv, TypeOK
<1> QED
  BY <1>1, <1>3, <1>4, <1>5 DEF Inv, InCall, EachRaiseWasAsked

LEMMA StepLine == ASSUME TypeOK, Step PROVE line' \in 0 .. MaxLine
BY BoundAssumption DEF TypeOK, Step

LEMMA ZeroLine == 0 \in 0 .. MaxLine
BY BoundAssumption

LEMMA HostCallKeeps == ASSUME Inv, HostCall PROVE Inv'
<1>1. nested[Main] \in Int /\ Main \in Threads
  BY DEF Inv, TypeOK, Threads
<1>2. [kind |-> "pcall", thread |-> Main, saved |-> nested[Main]] \in Entry
  BY <1>1 DEF Entry
<1> QED
  BY <1>1, <1>2, ZeroLine, EnterKeeps DEF HostCall

LEMMA HostResumeKeeps == ASSUME Inv, NEW co \in Coroutines, HostResume(co) PROVE Inv'
<1>1. [kind |-> "resume", thread |-> co, saved |-> 1] \in Entry
  BY DEF Entry, Threads
<1> QED
  BY <1>1, ZeroLine, EnterKeeps DEF HostResume

\* The running thread, when there is one.
LEMMA RunningType ==
  ASSUME Inv, where \in {"interp", "compiled"}
  PROVE  /\ Running \in Threads /\ nested[Running] \in Int
         /\ Top \in Entry /\ Pop \in Seq(Entry)
BY TopEntry DEF Inv, TypeOK, InCall

LEMMA NestedCallKeeps ==
  ASSUME Inv, NEW kind \in {"pcall", "call"}, NestedCall(kind) PROVE Inv'
<1>1. Running \in Threads /\ nested[Running] \in Int
  BY RunningType DEF NestedCall
<1>2. [kind |-> kind, thread |-> Running, saved |-> nested[Running]] \in Entry
  BY <1>1 DEF Entry
<1>3. line' \in 0 .. MaxLine
  BY StepLine DEF NestedCall, Inv
<1> QED
  BY <1>1, <1>2, <1>3, EnterKeeps DEF NestedCall

LEMMA ScriptResumeKeeps ==
  ASSUME Inv, NEW co \in Coroutines, ScriptResume(co) PROVE Inv'
<1>1. Running \in Threads /\ ResumeCount(Running) \in Int
  BY RunningType DEF ScriptResume, ResumeCount
<1>2. [kind |-> "resume", thread |-> co, saved |-> ResumeCount(Running)] \in Entry
  BY <1>1 DEF Entry, Threads
<1>3. line' \in 0 .. MaxLine
  BY StepLine DEF ScriptResume, Inv
<1> QED
  BY <1>1, <1>2, <1>3, EnterKeeps DEF ScriptResume

LEMMA CallFinalizerKeeps ==
  ASSUME Inv, NEW t \in Threads, CallFinalizer(t), line' \in 0 .. MaxLine, where # "store"
  PROVE  Inv'
<1>1. nested[t] \in Int /\ Finalizer \in Threads
  BY DEF Inv, TypeOK, Threads
<1>2. [kind |-> "pcall", thread |-> Finalizer, saved |-> nested[t]] \in Entry
  BY <1>1 DEF Entry
<1> QED
  BY <1>1, <1>2, EnterKeeps DEF CallFinalizer

LEMMA CollectKeeps == ASSUME Inv, Collect PROVE Inv'
BY RunningType, StepLine, CallFinalizerKeeps DEF Collect, Inv

LEMMA HostCollectKeeps == ASSUME Inv, HostCollect PROVE Inv'
BY ZeroLine, CallFinalizerKeeps DEF HostCollect, Threads

LEMMA ResumeCollectKeeps == ASSUME Inv, NEW co \in Coroutines, ResumeCollect(co) PROVE Inv'
BY StepLine, CallFinalizerKeeps DEF ResumeCollect, Inv, Threads

LEMMA FailedResumeKeeps == ASSUME Inv, NEW t \in Threads, FailedResume(t) PROVE Inv'
<1>1. ResumeCount(Running) \in Int /\ line' \in 0 .. MaxLine
  BY RunningType, StepLine DEF FailedResume, ResumeCount, Inv
<1>2. nested' \in [Threads -> Int]
  BY <1>1 DEF FailedResume, Inv, TypeOK
<1>3. UNCHANGED <<interrupt, poll, runs, budget, stack, where, asked, raised, stale>>
  BY DEF FailedResume, counters, history
<1>4. TypeOK'
  BY <1>1, <1>2, <1>3 DEF Inv, TypeOK
<1> QED
  BY <1>3, <1>4 DEF Inv, InCall, EachRaiseWasAsked

\* The end of a call: an interrupt is either gone, or about to be dropped.
LEMMA ReturnKeeps == ASSUME Inv, Return PROVE Inv'
<1>1. /\ Running \in Threads /\ nested[Running] \in Int /\ Pop \in Seq(Entry)
      /\ line' \in 0 .. MaxLine
  BY RunningType, StepLine DEF Return, Inv
<1>2. stack' \in Seq(Entry) /\ nested' \in [Threads -> Int]
  <2>1. Top.kind \in {"pcall", "call", "resume"} /\ Top.saved \in Int
    BY RunningType DEF Return, Entry
  <2>2. nested \in [Threads -> Int] /\ stack' \in Seq(Entry)
    BY <1>1 DEF Inv, TypeOK, Return
  <2> QED
    BY <1>1, <2>1, <2>2 DEF Return
<1>3. /\ where' \in {"host", "interp", "store"} /\ stale' \in BOOLEAN
      /\ where' = "interp" => stack' # <<>>
  <2>1. CASE Top.kind = "resume"
    BY <1>1, <2>1 DEF Return, Inv, TypeOK
  <2>2. CASE Top.kind # "resume"
    BY <1>1, <2>2 DEF Return, DropInterrupt, Inv, TypeOK
  <2> QED
    BY <2>1, <2>2
<1>4. UNCHANGED <<interrupt, poll, runs, budget, asked, raised>>
  BY DEF Return, counters
<1>5. TypeOK'
  BY <1>1, <1>2, <1>3, <1>4 DEF Inv, TypeOK
<1> QED
  BY <1>3, <1>4, <1>5 DEF Inv, InCall, EachRaiseWasAsked

LEMMA DropStoreKeeps == ASSUME Inv, DropStore PROVE Inv'
<1>1. UNCHANGED <<poll, runs, budget, nested, stack, line, asked, raised, stale>>
  BY DEF DropStore, counters, history
<1>2. /\ interrupt' = FALSE /\ where' \in {"host", "interp"}
      /\ where' = "interp" => stack # <<>>
  BY DEF DropStore
<1>3. TypeOK'
  BY <1>1, <1>2 DEF Inv, TypeOK
<1>4. raised \in Nat /\ asked \in Nat /\ raised <= asked
  BY DEF Inv, TypeOK, EachRaiseWasAsked
<1>5. EachRaiseWasAsked'
  BY <1>1, <1>2, <1>4 DEF EachRaiseWasAsked
<1> QED
  BY <1>1, <1>2, <1>3, <1>5 DEF Inv, InCall

LEMMA ErrorKeeps == ASSUME Inv, NEW recovers \in BOOLEAN, Error(recovers) PROVE Inv'
<1>1. /\ interrupt \in BOOLEAN /\ line' \in 0 .. MaxLine
  BY StepLine DEF Error, Inv, TypeOK
<1>2. /\ stack' \in Seq(Entry) /\ nested' \in [Threads -> Int]
      /\ where' \in {"host", "interp", "store"} /\ stale' \in BOOLEAN
      /\ where' = "interp" => stack' # <<>>
  BY <1>1, UnwindType DEF Error, Inv
<1>3. UNCHANGED <<interrupt, poll, runs, budget, asked, raised>>
  BY DEF Error, counters
<1>4. TypeOK'
  BY <1>1, <1>2, <1>3 DEF Inv, TypeOK
<1> QED
  BY <1>2, <1>3, <1>4 DEF Inv, InCall, EachRaiseWasAsked

\* Raising the error: the request it answers is consumed.
LEMMA InterruptedKeeps ==
  ASSUME Inv, Interrupted, interrupt, line' \in 0 .. MaxLine,
         poll' \in [Threads -> 0 .. PollPeriod], runs' \in [Threads -> 0 .. EntryPeriod - 1]
  PROVE  Inv'
<1>1. PICK recovers \in BOOLEAN : Unwind(FALSE, recovers)
  BY DEF Interrupted
<1>2. /\ stack' \in Seq(Entry) /\ nested' \in [Threads -> Int]
      /\ where' \in {"host", "interp", "store"} /\ stale' \in BOOLEAN
      /\ where' = "interp" => stack' # <<>>
  BY <1>1, UnwindType DEF Inv
<1>3. /\ interrupt' = FALSE /\ raised' = raised + 1
      /\ UNCHANGED <<asked, budget>>
  BY DEF Interrupted
<1>4. /\ raised' \in Nat /\ asked' \in Nat /\ budget' \in 0 .. JitBudget
      /\ interrupt' \in BOOLEAN
  <2>1. raised \in Nat /\ asked \in Nat /\ budget \in 0 .. JitBudget
    BY DEF Inv, TypeOK
  <2>2. raised' \in Nat
    BY <1>3, <2>1
  <2> QED
    BY <1>3, <2>1, <2>2, Zenon
<1>5. TypeOK'
  BY <1>2, <1>4 DEF TypeOK
<1>6. EachRaiseWasAsked'
  BY <1>3 DEF Inv, TypeOK, EachRaiseWasAsked
<1> QED
  BY <1>2, <1>3, <1>5, <1>6 DEF Inv, InCall

LEMMA PollInterruptKeeps == ASSUME Inv, PollInterrupt PROVE Inv'
<1>1. /\ Running \in Threads /\ poll \in [Threads -> 0 .. PollPeriod]
      /\ line' \in 0 .. MaxLine
  BY RunningType, ZeroLine DEF PollInterrupt, Inv, TypeOK
<1>2. poll' \in [Threads -> 0 .. PollPeriod]
  BY <1>1, PeriodAssumption DEF PollInterrupt
<1>3. runs' = runs /\ runs \in [Threads -> 0 .. EntryPeriod - 1]
  BY DEF PollInterrupt, Inv, TypeOK
<1>4. CASE interrupt /\ Interrupted
  BY <1>1, <1>2, <1>3, <1>4, InterruptedKeeps
<1>5. CASE UNCHANGED <<interrupt, budget, nested, stack, where, history>>
  BY <1>1, <1>2, <1>3, <1>5
     DEF Inv, TypeOK, InCall, EachRaiseWasAsked, history
<1> QED
  BY <1>4, <1>5 DEF PollInterrupt

LEMMA EnterJITKeeps ==
  ASSUME Inv, EnterJIT, where \in {"interp", "compiled"}, line' \in 0 .. MaxLine PROVE Inv'
<1>1. Running \in Threads /\ stack # <<>>
  BY RunningType DEF Inv, InCall
<1>2. runs' \in [Threads -> 0 .. EntryPeriod - 1]
  BY <1>1, PeriodAssumption DEF EnterJIT, Inv, TypeOK
<1>3. poll' = poll /\ poll \in [Threads -> 0 .. PollPeriod]
  BY DEF EnterJIT, Inv, TypeOK
<1>4. CASE interrupt /\ Interrupted
  BY <1>2, <1>3, <1>4, InterruptedKeeps
<1>5. CASE RunCompiled
  BY <1>1, <1>2, <1>3, <1>5, PeriodAssumption
     DEF RunCompiled, Inv, TypeOK, InCall, EachRaiseWasAsked, history
<1> QED
  BY <1>4, <1>5 DEF EnterJIT

LEMMA EnterCompiledKeeps == ASSUME Inv, EnterCompiled PROVE Inv'
BY StepLine, EnterJITKeeps DEF EnterCompiled, Inv

LEMMA BackEdgeKeeps == ASSUME Inv, CompiledBackEdge PROVE Inv'
<1>1. /\ UNCHANGED <<interrupt, poll, runs, nested, stack, where, asked, raised, stale>>
      /\ line' = 0
  BY DEF CompiledBackEdge, history
<1>2. budget' \in 0 .. JitBudget
  BY PeriodAssumption DEF CompiledBackEdge, Inv, TypeOK
<1>3. TypeOK'
  BY <1>1, <1>2, ZeroLine DEF Inv, TypeOK
<1> QED
  BY <1>1, <1>3 DEF Inv, InCall, EachRaiseWasAsked

LEMMA ExitBudgetKeeps == ASSUME Inv, ExitBudget PROVE Inv'
<1>1. CASE interrupt
  BY <1>1, ZeroLine, InterruptedKeeps DEF ExitBudget, Inv, TypeOK
<1>2. CASE ~interrupt
  BY <1>2, ZeroLine, EnterJITKeeps DEF ExitBudget
<1> QED
  BY <1>1, <1>2

LEMMA ExitInstructionKeeps == ASSUME Inv, ExitInstruction PROVE Inv'
BY StepLine DEF Inv, TypeOK, InCall, EachRaiseWasAsked, ExitInstruction,
   counters, history

\* Every step of the Lua goroutine, of the host and of the goroutines that
\* interrupt keeps the invariant.
LEMMA NextInv == Inv /\ [Next]_vars => Inv'
<1> SUFFICES ASSUME Inv, [Next]_vars PROVE Inv'
  OBVIOUS
<1>1. CASE LuaStep
  BY <1>1, DropStoreKeeps, NestedCallKeeps, ScriptResumeKeeps, CollectKeeps, ResumeCollectKeeps,
     FailedResumeKeeps,      ReturnKeeps, ErrorKeeps, PollInterruptKeeps, EnterCompiledKeeps, BackEdgeKeeps,
     ExitBudgetKeeps, ExitInstructionKeeps DEF LuaStep
<1>2. CASE ~LuaStep /\ Next
  BY <1>2, RequestKeeps, HostCallKeeps, HostCollectKeeps, HostResumeKeeps DEF Next
<1>3. CASE UNCHANGED vars
  BY <1>3 DEF Inv, TypeOK, InCall, EachRaiseWasAsked, vars
<1> QED
  BY <1>1, <1>2, <1>3

THEOREM Invariance == Spec => []Inv
BY InitInv, NextInv, PTL DEF Spec

\* Types: the countdowns stay in range, and the stack of calls is well formed.
THEOREM TypeCorrect == Spec => []TypeOK
BY Invariance, PTL DEF Inv

\* One Interrupt raises at most one "interrupted!" error, for any periods and
\* any nesting of calls: the CompareAndSwap consumes the request.
THEOREM RaisesAreAsked == Spec => []EachRaiseWasAsked
BY Invariance, PTL DEF Inv

-----------------------------------------------------------------------------
(* The counts, in a state whose scripts do not resume a running thread, and *)
(* none of whose coroutines is resumed by the host or collects as it is     *)
(* resumed (Uses = {}).                                                     *)

\* A call of thread e.thread with count n on top of the others.
LEMMA PushCounts ==
  ASSUME Inv, Counts, NEW e \in Entry, NEW n \in Int,
         stack' = Append(stack, e), nested' = [nested EXCEPT ![e.thread] = n],
         n = IF e.kind = "resume" THEN e.saved ELSE e.saved + 1,
         stack = <<>> => e.kind = "pcall" /\ e.saved = 0,
         stack # <<>> => /\ e.saved \in Nat \ {0}
                         /\ e.thread = Running => e.kind # "resume" /\ e.saved = CountAt(Len(stack))
                         /\ e.thread # Running => ~Active(e.thread) /\ e.thread # Main
  PROVE  Counts'
<1>0. PICK m : m = Len(stack)
  OBVIOUS
<1>1. /\ m \in Nat /\ m = Len(stack) /\ stack \in Seq(Entry) /\ nested \in [Threads -> Int]
      /\ e.thread \in Threads
  BY <1>0 DEF Inv, TypeOK, Entry
<1>2. /\ Len(stack') = m + 1 /\ stack'[m + 1] = e
      /\ \A i \in 1 .. m : stack'[i] = stack[i] /\ stack[i].thread \in Threads
  <2>1. \A i \in 1 .. m : stack[i] \in Entry
    BY <1>1
  <2> QED
    BY <1>1, <2>1 DEF Entry
<1>3. stack # <<>> => m >= 1 /\ Running = stack[m].thread
  BY <1>1 DEF Running, Top
<1>4. \A i \in 1 .. m : CountAt(i)' = CountAt(i)
  BY <1>2 DEF CountAt
<1>5. CountAt(m + 1)' = n
  BY <1>2 DEF CountAt
<1>6. m = 0 <=> stack = <<>>
  BY <1>1
<1>7. \A i \in 1 .. m : stack[i].thread = e.thread => e.thread = stack[m].thread
  BY <1>1, <1>2, <1>3, <1>6 DEF Active
<1>8. nested'[e.thread] = n /\ \A t \in Threads : t # e.thread => nested'[t] = nested[t]
  BY <1>1
<1>9. ASSUME NEW i \in 1 .. m + 1
      PROVE  /\ IF i = 1 THEN stack'[i].kind = "pcall" /\ stack'[i].saved = 0
                         ELSE stack'[i].saved \in Nat \ {0}
             /\ Innermost(i)' => nested'[stack'[i].thread] = CountAt(i)'
             /\ (i > 1 /\ stack'[i - 1].thread = stack'[i].thread) =>
                  stack'[i].kind # "resume" /\ stack'[i].saved = CountAt(i - 1)'
             /\ \A j \in i + 1 .. m + 1 :
                  stack'[j].thread = stack'[i].thread => stack'[i + 1].thread = stack'[i].thread
             /\ stack'[i].thread = Main => stack'[1].thread = Main
  <2>1. CASE i = m + 1
    BY <1>1, <1>2, <1>3, <1>4, <1>5, <1>6, <1>8, <2>1 DEF Counts
  <2>2. CASE i \in 1 .. m
    <3>1. stack'[i] = stack[i] /\ CountAt(i)' = CountAt(i) /\ stack[i].thread \in Threads
      BY <1>2, <1>4, <2>2
    <3>2. Innermost(i)' => nested'[stack'[i].thread] = CountAt(i)'
      <4> SUFFICES ASSUME Innermost(i)' PROVE nested'[stack[i].thread] = CountAt(i)
        BY <3>1
      <4>1. stack'[i + 1].thread # stack[i].thread
        BY <1>1, <1>2, <2>2, <3>1 DEF Innermost
      <4>2. Innermost(i)
        BY <1>1, <1>2, <2>2, <4>1 DEF Innermost
      <4>3. stack[i].thread # e.thread
        <5>1. CASE i = m
          BY <1>2, <4>1, <5>1
        <5>2. CASE i < m
          <6>1. stack[i + 1].thread # stack[i].thread
            BY <1>1, <1>2, <2>2, <4>1, <5>2
          <6>2. stack[m].thread # stack[i].thread
            BY <1>1, <2>2, <5>2, <6>1 DEF Counts
          <6> QED
            BY <1>7, <2>2, <6>2
        <5> QED
          BY <1>1, <2>2, <5>1, <5>2
      <4> QED
        BY <1>1, <1>8, <2>2, <3>1, <4>2, <4>3 DEF Counts
    <3>3. ASSUME NEW j \in i + 1 .. m + 1, stack'[j].thread = stack'[i].thread
          PROVE  stack'[i + 1].thread = stack'[i].thread
      <4>1. CASE j \in i + 1 .. m
        BY <1>1, <1>2, <2>2, <3>3, <4>1 DEF Counts
      <4>2. CASE j = m + 1 /\ i = m
        BY <3>3, <4>2
      <4>3. CASE j = m + 1 /\ i < m
        <5>1. stack[m].thread = stack[i].thread
          BY <1>2, <1>7, <2>2, <3>1, <3>3, <4>3
        <5>2. m \in i + 1 .. Len(stack) /\ i \in 1 .. Len(stack) /\ i + 1 \in 1 .. m
          BY <1>1, <2>2, <4>3
        <5>3. stack[i + 1].thread = stack[i].thread
          BY <5>1, <5>2 DEF Counts
        <5> QED
          BY <1>2, <2>2, <5>2, <5>3
      <4>4. j \in i + 1 .. m \/ (j = m + 1 /\ i = m) \/ (j = m + 1 /\ i < m)
        <5>1. m \in Nat /\ i \in Nat /\ i <= m
          BY <1>1, <2>2
        <5>2. j \in i + 1 .. m + 1
          OBVIOUS
        <5>3. j \in Int /\ j > i /\ (j <= m \/ j = m + 1)
          BY <5>1, <5>2
        <5> QED
          BY <5>1, <5>3
      <4> QED
        BY <4>1, <4>2, <4>3, <4>4
    <3>4. /\ IF i = 1 THEN stack'[i].kind = "pcall" /\ stack'[i].saved = 0
                      ELSE stack'[i].saved \in Nat \ {0}
          /\ stack'[i].thread = Main => stack'[1].thread = Main
      BY <1>1, <1>2, <2>2, <3>1 DEF Counts
    <3>5. (i > 1 /\ stack'[i - 1].thread = stack'[i].thread) =>
            stack'[i].kind # "resume" /\ stack'[i].saved = CountAt(i - 1)'
      <4> SUFFICES ASSUME i > 1, stack'[i - 1].thread = stack'[i].thread
                   PROVE stack'[i].kind # "resume" /\ stack'[i].saved = CountAt(i - 1)'
        OBVIOUS
      <4>1. i - 1 \in 1 .. m
        BY <1>1, <2>2
      <4>2. stack'[i - 1] = stack[i - 1] /\ CountAt(i - 1)' = CountAt(i - 1)
        BY <1>2, <1>4, <4>1
      <4> QED
        BY <1>1, <2>2, <3>1, <4>2 DEF Counts
    <3> QED
      BY <3>2, <3>3, <3>4, <3>5
  <2>3. i = m + 1 \/ i \in 1 .. m
    BY <1>1
  <2> QED
    BY <2>1, <2>2, <2>3, Zenon
<1>10. ~Active(Main)' => nested'[Main] = 0
  <2> SUFFICES ASSUME ~Active(Main)' PROVE nested'[Main] = 0
    OBVIOUS
  <2>1. e.thread # Main /\ ~Active(Main)
    BY <1>1, <1>2 DEF Active
  <2> QED
    BY <1>8, <2>1 DEF Counts, Threads
<1> QED
  BY <1>2, <1>9, <1>10 DEF Counts

\* The calls above stack[k] end: k is a Resume that runs on, or the call above
\* it ended and its thread has the count it started with.
LEMMA PrefixCounts ==
  ASSUME Inv, Counts, NEW k \in 0 .. Len(stack), NEW i \in 1 .. Len(stack),
         stack' = SubSeq(stack, 1, k),
         \/ /\ k = i /\ stack[i].kind = "resume"
            /\ nested' = [nested EXCEPT ![stack[i].thread] = stack[i].saved]
         \/ /\ k = i - 1
            /\ nested' = [nested EXCEPT ![stack[i].thread] =
                            IF stack[i].kind = "resume" THEN stack[i].saved - 1
                            ELSE stack[i].saved]
  PROVE  Counts'
<1>0. PICK m : m = Len(stack)
  OBVIOUS
<1>1. /\ m \in Nat /\ m = Len(stack) /\ stack \in Seq(Entry) /\ nested \in [Threads -> Int]
      /\ k \in 0 .. m /\ i \in 1 .. m /\ k <= i
  BY <1>0 DEF Inv, TypeOK
<1>2. \A j \in 1 .. m : stack[j] \in Entry
  BY <1>1
<1>3. \A j \in 1 .. m : stack[j].thread \in Threads
  BY <1>2 DEF Entry
<1>4. Len(stack') = k /\ \A j \in 1 .. k : stack'[j] = stack[j]
  BY <1>1
<1>5. \A j \in 1 .. k : CountAt(j)' = CountAt(j)
  BY <1>4 DEF CountAt
<1>6. \A t \in Threads : t # stack[i].thread => nested'[t] = nested[t]
  BY <1>1, <1>3
<1>7. ASSUME NEW j \in 1 .. k
      PROVE  /\ IF j = 1 THEN stack'[j].kind = "pcall" /\ stack'[j].saved = 0
                         ELSE stack'[j].saved \in Nat \ {0}
             /\ Innermost(j)' => nested'[stack'[j].thread] = CountAt(j)'
             /\ (j > 1 /\ stack'[j - 1].thread = stack'[j].thread) =>
                  stack'[j].kind # "resume" /\ stack'[j].saved = CountAt(j - 1)'
             /\ \A h \in j + 1 .. k :
                  stack'[h].thread = stack'[j].thread => stack'[j + 1].thread = stack'[j].thread
             /\ stack'[j].thread = Main => stack'[1].thread = Main
  <2>1. /\ j \in 1 .. m /\ stack'[j] = stack[j] /\ CountAt(j)' = CountAt(j)
        /\ stack'[1] = stack[1] /\ stack[j].thread \in Threads
    BY <1>1, <1>3, <1>4, <1>5, <1>7
  <2>2. ASSUME Innermost(j)' PROVE nested'[stack[j].thread] = CountAt(j)
    <3>1. CASE j = k /\ k = i
      <4>1. nested'[stack[i].thread] = stack[i].saved /\ stack[i].kind = "resume"
        BY <1>1, <1>3, <3>1
      <4> QED
        BY <3>1, <4>1 DEF CountAt
    <3>2. CASE j = k /\ k = i - 1 /\ stack[j].thread = stack[i].thread
      <4>1. i > 1 /\ stack[i - 1].thread = stack[i].thread /\ i \in 1 .. Len(stack)
        BY <1>1, <1>7, <3>2
      <4>2. stack[i].kind # "resume" /\ stack[i].saved = CountAt(i - 1)
        BY <4>1 DEF Counts
      <4>3. nested'[stack[i].thread] = stack[i].saved
        BY <1>1, <1>3, <3>2, <4>2
      <4> QED
        BY <3>2, <4>2, <4>3
    <3>3. CASE j = k /\ k = i - 1 /\ stack[j].thread # stack[i].thread
      <4>1. Innermost(j)
        BY <1>1, <3>3 DEF Innermost
      <4>2. nested[stack[j].thread] = CountAt(j)
        BY <1>1, <2>1, <4>1 DEF Counts
      <4> QED
        BY <1>6, <2>1, <3>3, <4>2
    <3>4. CASE j < k
      <4>1. j + 1 \in 1 .. k /\ stack'[j + 1] = stack[j + 1]
        BY <1>1, <1>4, <1>7, <3>4
      <4>2. stack[j + 1].thread # stack[j].thread
        BY <1>4, <2>1, <2>2, <3>4, <4>1 DEF Innermost
      <4>3. Innermost(j)
        BY <4>2 DEF Innermost
      <4>4. i \in j + 1 .. Len(stack)
        BY <1>1, <1>7, <3>4
      <4>5. stack[j].thread # stack[i].thread
        BY <1>1, <2>1, <4>2, <4>4 DEF Counts
      <4>6. nested[stack[j].thread] = CountAt(j)
        BY <1>1, <2>1, <4>3 DEF Counts
      <4> QED
        BY <1>6, <2>1, <4>5, <4>6
    <3>5. k = i \/ k = i - 1
      OBVIOUS
    <3>6. j = k \/ j < k
      BY <1>1, <1>7
    <3> QED
      BY <3>1, <3>2, <3>3, <3>4, <3>5, <3>6, Zenon
  <2>3. ASSUME NEW h \in j + 1 .. k, stack'[h].thread = stack'[j].thread
        PROVE  stack'[j + 1].thread = stack'[j].thread
    <3>1. h \in j + 1 .. Len(stack) /\ h \in 1 .. k /\ j + 1 \in 1 .. k
      BY <1>1, <1>7, <2>3
    <3>2. stack[h].thread = stack[j].thread
      BY <1>4, <2>1, <2>3, <3>1
    <3>3. stack[j + 1].thread = stack[j].thread
      BY <1>1, <2>1, <3>1, <3>2 DEF Counts
    <3> QED
      BY <1>4, <2>1, <3>1, <3>3
  <2>4. (j > 1 /\ stack'[j - 1].thread = stack'[j].thread) =>
           stack'[j].kind # "resume" /\ stack'[j].saved = CountAt(j - 1)'
    <3> SUFFICES ASSUME j > 1, stack'[j - 1].thread = stack'[j].thread
                 PROVE  stack'[j].kind # "resume" /\ stack'[j].saved = CountAt(j - 1)'
      OBVIOUS
    <3>1. j - 1 \in 1 .. k
      BY <1>1, <1>7
    <3>2. stack'[j - 1] = stack[j - 1] /\ CountAt(j - 1)' = CountAt(j - 1)
      BY <1>4, <1>5, <3>1
    <3> QED
      BY <1>1, <2>1, <3>2 DEF Counts
  <2>5. /\ IF j = 1 THEN stack'[j].kind = "pcall" /\ stack'[j].saved = 0
                    ELSE stack'[j].saved \in Nat \ {0}
        /\ stack'[j].thread = Main => stack'[1].thread = Main
    BY <1>1, <2>1 DEF Counts
  <2> QED
    BY <2>1, <2>2, <2>3, <2>4, <2>5
<1>8. ~Active(Main)' => nested'[Main] = 0
  <2> SUFFICES ASSUME ~Active(Main)' PROVE nested'[Main] = 0
    OBVIOUS
  <2>1. CASE k = 0
    <3>1. i = 1 /\ stack[1].kind = "pcall" /\ stack[1].saved = 0
      BY <1>1, <2>1 DEF Counts
    <3>2. CASE stack[1].thread = Main
      BY <1>1, <1>3, <2>1, <3>1, <3>2
    <3>3. CASE stack[1].thread # Main
      <4>1. ~Active(Main)
        BY <1>1, <3>3 DEF Active, Counts
      <4> QED
        BY <1>6, <3>1, <3>3, <4>1 DEF Counts, Threads
    <3> QED
      BY <3>2, <3>3
  <2>2. CASE k > 0
    <3>1. stack[1].thread # Main
      BY <1>1, <1>4, <2>2 DEF Active
    <3>2. ~Active(Main)
      BY <1>1, <3>1 DEF Active, Counts
    <3>3. stack[i].thread # Main
      BY <1>1, <3>2 DEF Active
    <3> QED
      BY <1>6, <3>2, <3>3 DEF Counts, Threads
  <2> QED
    BY <1>1, <2>1, <2>2
<1> QED
  BY <1>4, <1>7, <1>8 DEF Counts

\* What an error that unwinds does: it is an outermost call exactly when the
\* count it restores is zero.
LEMMA UnwindCounts ==
  ASSUME Inv, Counts, NEW flag \in BOOLEAN, NEW recovers \in BOOLEAN, Unwind(flag, recovers)
  PROVE  /\ Counts'
         /\ where' = "store" => flag /\ stack' = <<>>
         /\ flag /\ stack' = <<>> => where' = "store"
         /\ where' = "host" => stack' = <<>>
         /\ stale' => stale \/ stack' = <<>>
<1>1. PICK i \in 1 .. Len(stack) :
        LET e    == stack[i]
            rest == SubSeq(stack, 1, IF recovers THEN i ELSE i - 1)
            n    == IF e.kind = "resume" /\ ~recovers THEN e.saved - 1 ELSE e.saved
        IN /\ recovers => e.kind = "resume"
           /\ stack' = rest
           /\ nested' = [nested EXCEPT ![e.thread] = n]
           /\ where' = IF e.saved = 0 /\ flag THEN "store"
                       ELSE IF rest = <<>> THEN "host" ELSE "interp"
           /\ stale' = (stale \/ rest = <<>>)
  BY DEF Unwind
<1>2. /\ IF i = 1 THEN stack[i].kind = "pcall" /\ stack[i].saved = 0
         ELSE stack[i].saved \in Nat \ {0}
      /\ stack \in Seq(Entry) /\ Len(stack) \in Nat
  BY DEF Counts, Inv, TypeOK
<1>3. Counts'
  <2>1. CASE recovers
    <3>1. /\ i \in 0 .. Len(stack) /\ stack' = SubSeq(stack, 1, i)
          /\ stack[i].kind = "resume"
          /\ nested' = [nested EXCEPT ![stack[i].thread] = stack[i].saved]
      BY <1>1, <1>2, <2>1
    <3> QED
      BY <3>1, PrefixCounts
  <2>2. CASE ~recovers
    <3>1. /\ i - 1 \in 0 .. Len(stack) /\ stack' = SubSeq(stack, 1, i - 1)
          /\ nested' = [nested EXCEPT ![stack[i].thread] =
                          IF stack[i].kind = "resume" THEN stack[i].saved - 1
                          ELSE stack[i].saved]
      BY <1>1, <1>2, <2>2
    <3> QED
      BY <3>1, PrefixCounts
  <2> QED
    BY <2>1, <2>2
<1>4. stack' = <<>> <=> i = 1
  <2>1. Len(stack') = IF recovers THEN i ELSE i - 1
    BY <1>1, <1>2
  <2>2. stack' = <<>> <=> Len(stack') = 0
    BY <1>1, <1>2
  <2> QED
    BY <1>1, <1>2, <2>1, <2>2
<1>5. stack[i].saved = 0 <=> i = 1
  BY <1>2
<1> QED
  BY <1>1, <1>3, <1>4, <1>5

LEMMA InitDrop == Init => DropInv
<1> SUFFICES ASSUME Init PROVE DropInv
  OBVIOUS
<1>1. Counts
  BY DEF Init, Counts, Threads
<1> QED
  BY <1>1 DEF Init, DropInv, HostEmpty, StoreOutside, StaleDropped

LEMMA EnterDrop ==
  ASSUME Inv, DropInv, NEW e \in Entry, NEW n \in Int, Enter(e, n), where # "store",
         n = IF e.kind = "resume" THEN e.saved ELSE e.saved + 1,
         stack = <<>> => e.kind = "pcall" /\ e.saved = 0,
         stack # <<>> => /\ e.saved \in Nat \ {0}
                         /\ e.thread = Running => e.kind # "resume" /\ e.saved = CountAt(Len(stack))
                         /\ e.thread # Running => ~Active(e.thread) /\ e.thread # Main
  PROVE  DropInv'
<1>1. Counts'
  BY PushCounts DEF Enter, DropInv
<1>2. where' = "interp" /\ UNCHANGED <<interrupt, stale>>
  BY DEF Enter, history
<1> QED
  BY <1>1, <1>2 DEF DropInv, HostEmpty, StoreOutside, StaleDropped

\* While code runs, the running thread has the count of the innermost call.
LEMMA RunningCount ==
  ASSUME Inv, DropInv, where \in {"interp", "compiled"}
  PROVE  /\ stack # <<>> /\ Len(stack) \in 1 .. Len(stack) /\ Top = stack[Len(stack)]
         /\ nested[Running] = CountAt(Len(stack)) /\ nested[Running] \in Nat \ {0}
         /\ Active(Running)
<1>1. stack # <<>> /\ Len(stack) \in 1 .. Len(stack)
  BY DEF Inv, InCall, TypeOK
<1>2. nested[Running] = CountAt(Len(stack)) /\ Active(Running)
  BY <1>1 DEF DropInv, Counts, Innermost, Running, Top, Active
<1>3. stack[Len(stack)].kind = "resume" => Len(stack) # 1
  BY <1>1 DEF DropInv, Counts
<1>4. CountAt(Len(stack)) \in Nat \ {0}
  BY <1>1, <1>3 DEF CountAt, DropInv, Counts
<1> QED
  BY <1>1, <1>2, <1>4 DEF Top

\* The host has no call in progress.
LEMMA HostIdle == ASSUME Inv, DropInv, where = "host"
                  PROVE  stack = <<>> /\ nested[Main] = 0
BY DEF HostEmpty, DropInv, Counts, Active

LEMMA HostCallDrop == ASSUME Inv, DropInv, HostCall PROVE DropInv'
<1>1. stack = <<>> /\ nested[Main] = 0
  BY HostIdle DEF HostCall
<1>2. [kind |-> "pcall", thread |-> Main, saved |-> 0] \in Entry
  BY DEF Entry, Threads
<1> QED
  BY <1>1, <1>2, EnterDrop DEF HostCall

LEMMA HostCollectDrop == ASSUME Inv, DropInv, HostCollect PROVE DropInv'
<1>1. stack = <<>> /\ nested[Main] = 0
  BY HostIdle DEF HostCollect
<1>2. [kind |-> "pcall", thread |-> Finalizer, saved |-> 0] \in Entry
  BY DEF Entry, Threads
<1> QED
  BY <1>1, <1>2, EnterDrop DEF HostCollect, CallFinalizer

LEMMA NestedCallDrop ==
  ASSUME Inv, DropInv, NEW kind \in {"pcall", "call"}, NestedCall(kind) PROVE DropInv'
<1>1. /\ stack # <<>> /\ Running \in Threads /\ nested[Running] = CountAt(Len(stack))
      /\ nested[Running] \in Nat \ {0}
  BY RunningCount, RunningType DEF NestedCall
<1>2. [kind |-> kind, thread |-> Running, saved |-> nested[Running]] \in Entry
  BY <1>1 DEF Entry
<1> QED
  BY <1>1, <1>2, EnterDrop DEF NestedCall

LEMMA ScriptResumeDrop ==
  ASSUME Inv, DropInv, NEW co \in Coroutines, ScriptResume(co) PROVE DropInv'
<1>1. stack # <<>> /\ nested[Running] \in Nat \ {0} /\ co # Running /\ co # Main
  BY RunningCount, ThreadAssumption DEF ScriptResume
<1>2. ResumeCount(Running) \in Nat \ {0}
  BY <1>1 DEF ResumeCount
<1>3. [kind |-> "resume", thread |-> co, saved |-> ResumeCount(Running)] \in Entry
  BY <1>2 DEF Entry, Threads
<1> QED
  BY <1>1, <1>2, <1>3, EnterDrop DEF ScriptResume

LEMMA CollectDrop == ASSUME Inv, DropInv, Collect PROVE DropInv'
<1>1. /\ stack # <<>> /\ nested[Running] \in Nat \ {0}
      /\ Finalizer # Running /\ Finalizer # Main
  BY RunningCount, ThreadAssumption DEF Collect, CallFinalizer
<1>2. [kind |-> "pcall", thread |-> Finalizer, saved |-> nested[Running]] \in Entry
  BY <1>1 DEF Entry, Threads
<1> QED
  BY <1>1, <1>2, EnterDrop DEF Collect, CallFinalizer

LEMMA ReturnDrop == ASSUME Inv, DropInv, Return PROVE DropInv'
<1>1. /\ stack # <<>> /\ Len(stack) \in 1 .. Len(stack) /\ Top = stack[Len(stack)]
      /\ nested[Running] = CountAt(Len(stack))
  BY RunningCount DEF Return
<1>2. /\ IF Len(stack) = 1 THEN Top.kind = "pcall" /\ Top.saved = 0
         ELSE Top.saved \in Nat \ {0}
      /\ Top.kind \in {"pcall", "call", "resume"} /\ Top \in Entry
  BY <1>1, RunningType DEF DropInv, Counts, Return, Entry
<1>3. Top.kind # "resume" => nested[Running] - 1 = Top.saved
  BY <1>1, <1>2 DEF CountAt
<1>4. nested' = [nested EXCEPT ![stack[Len(stack)].thread] =
                   IF stack[Len(stack)].kind = "resume" THEN stack[Len(stack)].saved - 1
                   ELSE stack[Len(stack)].saved]
  BY <1>1, <1>2, <1>3 DEF Return, Running
<1>5. Len(stack) - 1 \in 0 .. Len(stack) /\ stack' = SubSeq(stack, 1, Len(stack) - 1)
  BY <1>1 DEF Return, Pop
<1>6. Counts'
  BY <1>1, <1>4, <1>5, PrefixCounts DEF DropInv
<1>7. Pop = <<>> <=> Len(stack) = 1
  <2>1. PICK k \in 0 .. Len(stack) : k = Len(stack) - 1
    BY <1>5
  <2>2. stack \in Seq(Entry)
    BY DEF Inv, TypeOK
  <2>3. Len(SubSeq(stack, 1, k)) = k
    BY <2>1, <2>2
  <2>4. Pop = SubSeq(stack, 1, k)
    BY <2>1 DEF Pop
  <2>5. CASE k = 0
    <3>1. SubSeq(stack, 1, k) = <<>>
      BY <2>2, <2>5
    <3> QED
      BY <2>1, <2>4, <2>5, <3>1, <1>1
  <2>6. CASE k # 0
    <3>1. SubSeq(stack, 1, k) # <<>>
      BY <2>3, <2>6
    <3> QED
      BY <2>1, <2>4, <2>6, <3>1, <1>1
  <2> QED
    BY <2>5, <2>6
<1>8. /\ where' = "store" => stack' = <<>>
      /\ where' = "host" => stack' = <<>>
      /\ interrupt /\ stack' = <<>> => where' = "store"
      /\ stale' => stale \/ stack' = <<>>
  <2>1. CASE Top.kind = "resume"
    <3>1. Pop # <<>>
      BY <1>2, <1>7, <2>1
    <3> QED
      BY <2>1, <3>1 DEF Return
  <2>2. CASE Top.kind # "resume"
    <3>1. nested[Running] - 1 = 0 <=> Pop = <<>>
      BY <1>2, <1>3, <1>7, <2>2
    <3> QED
      BY <2>2, <3>1 DEF Return, DropInterrupt
  <2> QED
    BY <2>1, <2>2
<1>9. interrupt' = interrupt /\ where # "store"
  BY DEF Return
<1> QED
  BY <1>6, <1>8, <1>9 DEF DropInv, HostEmpty, StoreOutside, StaleDropped

LEMMA ErrorDrop == ASSUME Inv, DropInv, NEW recovers \in BOOLEAN, Error(recovers) PROVE DropInv'
<1>1. interrupt \in BOOLEAN /\ where = "interp" /\ interrupt' = interrupt
  BY DEF Error, Inv, TypeOK
<1>2. /\ Counts'
      /\ where' = "store" => interrupt /\ stack' = <<>>
      /\ interrupt /\ stack' = <<>> => where' = "store"
      /\ where' = "host" => stack' = <<>>
      /\ stale' => stale \/ stack' = <<>>
  BY <1>1, UnwindCounts DEF Error, DropInv
<1> QED
  BY <1>1, <1>2 DEF DropInv, HostEmpty, StoreOutside, StaleDropped

LEMMA InterruptedDrop == ASSUME Inv, DropInv, Interrupted PROVE DropInv'
<1>1. PICK recovers \in BOOLEAN : Unwind(FALSE, recovers)
  BY DEF Interrupted
<1>2. Counts' /\ where' # "store" /\ (where' = "host" => stack' = <<>>)
  BY <1>1, UnwindCounts DEF DropInv
<1>3. interrupt' = FALSE
  BY DEF Interrupted
<1> QED
  BY <1>2, <1>3 DEF DropInv, HostEmpty, StoreOutside, StaleDropped

\* A step that leaves the calls alone, and the flag or its age.
LEMMA QuietDrop ==
  ASSUME DropInv, UNCHANGED <<stack, nested>>,
         \/ UNCHANGED <<interrupt, stale, where>>
         \/ UNCHANGED <<interrupt, stale>> /\ where # "store" /\ where' \in {"interp", "compiled"}
         \/ interrupt' = FALSE /\ where' = (IF stack = <<>> THEN "host" ELSE "interp")
         \/ stale' = FALSE /\ where' = where
  PROVE  DropInv'
<1>1. Counts'
  BY DEF DropInv, Counts, Innermost, CountAt, Active
<1> QED
  BY <1>1 DEF DropInv, HostEmpty, StoreOutside, StaleDropped

LEMMA EnterJITDrop ==
  ASSUME Inv, DropInv, EnterJIT, where # "store" PROVE DropInv'
<1>1. CASE Interrupted
  BY <1>1, InterruptedDrop
<1>2. CASE RunCompiled
  BY <1>2, QuietDrop DEF RunCompiled, history
<1> QED
  BY <1>1, <1>2 DEF EnterJIT

LEMMA LoopDrop ==
  ASSUME Inv, DropInv,
         PollInterrupt \/ EnterCompiled \/ CompiledBackEdge \/ ExitBudget \/ ExitInstruction
  PROVE  DropInv'
<1>1. CASE PollInterrupt
  <2>1. CASE Interrupted
    BY <2>1, InterruptedDrop
  <2>2. CASE UNCHANGED <<interrupt, budget, nested, stack, where, history>>
    BY <2>2, QuietDrop DEF history
  <2> QED
    BY <1>1, <2>1, <2>2 DEF PollInterrupt
<1>2. CASE EnterCompiled
  BY <1>2, EnterJITDrop DEF EnterCompiled
<1>3. CASE CompiledBackEdge
  BY <1>3, QuietDrop DEF CompiledBackEdge, history
<1>4. CASE ExitBudget
  BY <1>4, InterruptedDrop, EnterJITDrop DEF ExitBudget
<1>5. CASE ExitInstruction
  BY <1>5, QuietDrop DEF ExitInstruction, history
<1> QED
  BY <1>1, <1>2, <1>3, <1>4, <1>5

LEMMA NextDrop == ASSUME Uses = {}, Inv, DropInv, [Next]_vars PROVE DropInv'
<1>1. CASE RequestInterrupt
  BY <1>1, QuietDrop DEF RequestInterrupt
<1>2. CASE DropStore
  BY <1>2, QuietDrop DEF DropStore, history
<1>3. CASE UNCHANGED vars
  BY <1>3, QuietDrop DEF vars
<1>4. CASE \/ \E co \in Coroutines : HostResume(co) \/ ResumeCollect(co)
           \/ \E t \in Threads : FailedResume(t)
  BY <1>4 DEF HostResume, ResumeCollect, FailedResume
<1>5. CASE LuaStep /\ ~DropStore
  BY <1>4, <1>5, NestedCallDrop, ScriptResumeDrop, CollectDrop, ReturnDrop, ErrorDrop, LoopDrop
     DEF LuaStep
<1> QED
  BY <1>1, <1>2, <1>3, <1>4, <1>5, HostCallDrop, HostCollectDrop DEF Next

LEMMA DropInvariance == Uses = {} => (Spec => []DropInv)
<1> SUFFICES ASSUME Uses = {} PROVE Spec => []DropInv
  OBVIOUS
<1>1. Inv /\ DropInv /\ [Next]_vars => DropInv'
  BY NextDrop
<1> QED
  BY <1>1, InitDrop, Invariance, PTL DEF Spec

\* Which steps raise the error.
LEMMA RaisingStep ==
  ASSUME Inv, Next, raised' # raised
  PROVE  interrupt /\ where \in {"interp", "compiled"} /\ interrupt' = FALSE
<1>1. CASE RequestInterrupt \/ HostCall \/ HostCollect \/ \E co \in Coroutines : HostResume(co)
  BY <1>1 DEF RequestInterrupt, HostCall, HostCollect, CallFinalizer, HostResume, Enter, history
<1>2. CASE DropStore \/ Return \/ \E recovers \in BOOLEAN : Error(recovers)
  BY <1>2 DEF DropStore, Return, Error, history
<1>3. CASE \/ \E kind \in {"pcall", "call"} : NestedCall(kind)
           \/ \E co \in Coroutines : ScriptResume(co) \/ ResumeCollect(co)
           \/ Collect \/ \E t \in Threads : FailedResume(t)
  BY <1>3 DEF NestedCall, ScriptResume, Collect, ResumeCollect, CallFinalizer, FailedResume,
     Enter, history
<1>4. CASE PollInterrupt \/ ExitBudget
  BY <1>4 DEF PollInterrupt, ExitBudget, EnterJIT, RunCompiled, Interrupted, history
<1>5. CASE EnterCompiled
  BY <1>5 DEF EnterCompiled, EnterJIT, RunCompiled, Interrupted, history
<1>6. CASE CompiledBackEdge \/ ExitInstruction
  BY <1>6 DEF CompiledBackEdge, ExitInstruction, history
<1> QED
  BY <1>1, <1>2, <1>3, <1>4, <1>5, <1>6 DEF Next, LuaStep

\* No step raises the error for a request older than the last outermost call
\* that ended: dropInterrupt has cleared it.
THEOREM StaleNeverRaised == Uses = {} => (Spec => NoStaleRaise)
<1> SUFFICES ASSUME Uses = {} PROVE Spec => NoStaleRaise
  OBVIOUS
<1>1. Inv /\ DropInv /\ [Next]_vars => [raised' # raised => ~stale]_vars
  <2> SUFFICES ASSUME Inv, DropInv, Next, raised' # raised PROVE ~stale
    BY DEF vars
  <2> QED
    BY RaisingStep DEF DropInv, StaleDropped
<1> QED
  BY <1>1, Invariance, DropInvariance, PTL DEF Spec, NoStaleRaise

\* While code runs, only the error clears the flag: however calls, coroutines
\* and finalizers nest, the count comes back to zero with the outermost call
\* and never before.
THEOREM InterruptNeverLost == Uses = {} => (Spec => NoInterruptLost)
<1> SUFFICES ASSUME Uses = {} PROVE Spec => NoInterruptLost
  OBVIOUS
<1> DEFINE Kept == interrupt /\ ~interrupt' => raised' = raised + 1 \/ stack' = <<>>
<1>1. Inv /\ DropInv /\ [Next]_vars => [Kept]_vars
  <2> SUFFICES ASSUME Inv, DropInv, Next PROVE Kept
    BY DEF vars
  <2>1. CASE DropStore
    BY <2>1 DEF DropStore, DropInv, StoreOutside
  <2>2. CASE Interrupted
    BY <2>2 DEF Interrupted
  <2>3. CASE UNCHANGED interrupt
    BY <2>3
  <2>4. CASE interrupt' = TRUE
    BY <2>4
  <2>5. DropStore \/ Interrupted \/ UNCHANGED interrupt \/ interrupt' = TRUE
    <3>1. CASE \/ RequestInterrupt \/ HostCall \/ HostCollect
               \/ \E co \in Coroutines : HostResume(co)
      BY <3>1 DEF RequestInterrupt, HostCall, HostCollect, CallFinalizer, HostResume, Enter
    <3>2. CASE Return \/ \E recovers \in BOOLEAN : Error(recovers)
      BY <3>2 DEF Return, Error
    <3>3. CASE \/ \E kind \in {"pcall", "call"} : NestedCall(kind)
               \/ \E co \in Coroutines : ScriptResume(co) \/ ResumeCollect(co)
               \/ Collect \/ \E t \in Threads : FailedResume(t)
      BY <3>3 DEF NestedCall, ScriptResume, Collect, ResumeCollect, CallFinalizer,
         FailedResume, Enter
    <3>4. CASE PollInterrupt \/ ExitBudget
      BY <3>4 DEF PollInterrupt, ExitBudget, EnterJIT, RunCompiled
    <3>5. CASE EnterCompiled
      BY <3>5 DEF EnterCompiled, EnterJIT, RunCompiled
    <3>6. CASE CompiledBackEdge \/ ExitInstruction
      BY <3>6 DEF CompiledBackEdge, ExitInstruction
    <3> QED
      BY <3>1, <3>2, <3>3, <3>4, <3>5, <3>6 DEF Next, LuaStep
  <2> QED
    BY <2>1, <2>2, <2>3, <2>4, <2>5
<1> QED
  BY <1>1, Invariance, DropInvariance, PTL DEF Spec, NoInterruptLost
=============================================================================
