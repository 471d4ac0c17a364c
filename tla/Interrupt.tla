------------------------------ MODULE Interrupt ------------------------------
(***************************************************************************)
(* State.Interrupt stops the Lua code a state is running.  It may be called*)
(* from any goroutine, so it only sets an atomic flag, and the goroutine   *)
(* that runs Lua looks at the flag at loop back-edges and tail calls:      *)
(* every interruptPoll-th one in the interpreter, when a back-edge budget  *)
(* runs out in compiled code, and at every EntryPeriod-th entry into       *)
(* compiled code.  When the outermost call from Go returns, a flag that    *)
(* nobody has seen is cleared.                                             *)
(*                                                                         *)
(* The module models the flag, the counters that decide when it is read,   *)
(* and nestedGoCallCount, which decides what "outermost" means.  Each      *)
(* thread (State) has its own counters; the flag belongs to the global     *)
(* state they share.  Straight-line Lua code is one step, and is finite    *)
(* between two back-edges: at most MaxLine steps.                          *)
(***************************************************************************)
EXTENDS Integers, Sequences

CONSTANTS
  Coroutines,   \* threads other than the main one that run Lua
  Main,         \* globalState.mainThread
  Finalizer,    \* globalState.finalizerThread
  PollPeriod,   \* interruptPoll, 1024 in the code
  JitBudget,    \* jitBudget, 2^16 in the code
  EntryPeriod,  \* entries into compiled code between two looks, 1024
  Uses,         \* which of "hostResume", "resumeActive" and "resumeCollect" occur
  MaxNested,    \* bound: Go calls in progress
  MaxLine,      \* bound: steps of straight-line code between back-edges
  MaxRequests   \* bound: calls of Interrupt

ASSUME ThreadAssumption ==
  Main \notin Coroutines /\ Finalizer \notin Coroutines /\ Main # Finalizer
ASSUME PeriodAssumption ==
  /\ PollPeriod \in Nat \ {0} /\ JitBudget \in Nat \ {0} /\ EntryPeriod \in Nat \ {0}
ASSUME BoundAssumption ==
  /\ Uses \subseteq {"hostResume", "resumeActive", "resumeCollect"}
  /\ MaxNested \in Nat /\ MaxLine \in Nat /\ MaxRequests \in Nat

Threads == Coroutines \union {Main, Finalizer}

VARIABLES
  interrupt,  \* globalState.interrupt
  poll,       \* poll[t]: State.interruptPoll
  runs,       \* runs[t]: State.jitRuns, modulo EntryPeriod
  budget,     \* jitContext.budget of the compiled code that runs
  nested,     \* nested[t]: State.nestedGoCallCount
  stack,      \* Go's calls in progress, innermost last
  where,      \* what the Lua goroutine runs
  line,       \* straight-line steps since the last back-edge
  \* history
  asked,      \* calls of Interrupt so far
  raised,     \* "interrupted!" errors so far
  stale       \* an outermost call has ended since the last Interrupt

counters == <<poll, runs, budget>>
history == <<asked, raised, stale>>
vars == <<interrupt, poll, runs, budget, nested, stack, where, line, asked, raised, stale>>

(* A call of State.call under State.protect (pcall), one without it        *)
(* (call), or a Resume.  saved is the count protect restores.              *)
Entry == [kind : {"pcall", "call", "resume"}, thread : Threads, saved : Int]

TypeOK ==
  /\ interrupt \in BOOLEAN
  /\ poll \in [Threads -> 0 .. PollPeriod]
  /\ runs \in [Threads -> 0 .. EntryPeriod - 1]
  /\ budget \in 0 .. JitBudget
  /\ nested \in [Threads -> Int]
  /\ stack \in Seq(Entry)
  /\ where \in {"host", "interp", "compiled", "store"}
  /\ line \in 0 .. MaxLine
  /\ asked \in Nat /\ raised \in Nat
  /\ stale \in BOOLEAN

Init ==
  /\ interrupt = FALSE
  /\ poll = [t \in Threads |-> 0]
  /\ runs = [t \in Threads |-> 0]
  /\ budget = 0
  /\ nested = [t \in Threads |-> 0]
  /\ stack = <<>>
  /\ where = "host"
  /\ line = 0
  /\ asked = 0 /\ raised = 0
  /\ stale = FALSE

Top == stack[Len(stack)]
Pop == SubSeq(stack, 1, Len(stack) - 1)
Running == Top.thread
Active(t) == \E i \in 1 .. Len(stack) : stack[i].thread = t

-----------------------------------------------------------------------------
(* The other goroutines.                                                   *)

\* Interrupt: a store of TRUE, at any time.
RequestInterrupt ==
  /\ asked < MaxRequests
  /\ interrupt' = TRUE
  /\ asked' = asked + 1
  /\ stale' = FALSE
  /\ UNCHANGED <<counters, nested, stack, where, line, raised>>

-----------------------------------------------------------------------------
(* Calls and their ends.                                                   *)

Step == line < MaxLine /\ line' = line + 1

\* dropInterrupt loads the flag, and stores FALSE in a step of its own when it
\* was set.  It runs when nestedGoCallCount n comes back to zero.
MutantNeverDrops(n, rest) ==   \* mutant: State.call never drops
  /\ where' = IF rest = <<>> THEN "host" ELSE "interp"
  /\ stale' = (stale \/ rest = <<>>)

DropInterrupt(n, rest) ==
  /\ where' = IF n = 0 /\ interrupt THEN "store"
              ELSE IF rest = <<>> THEN "host" ELSE "interp"
  /\ stale' = (stale \/ rest = <<>>)

DropStore ==
  /\ where = "store"
  /\ interrupt' = FALSE
  /\ where' = IF stack = <<>> THEN "host" ELSE "interp"
  /\ UNCHANGED <<counters, nested, stack, line, history>>

Enter(e, n) ==
  /\ n <= MaxNested /\ Len(stack) < MaxNested
  /\ stack' = Append(stack, e)
  /\ nested' = [nested EXCEPT ![e.thread] = n]
  /\ where' = "interp"
  /\ UNCHANGED <<interrupt, counters, history>>

\* ProtectedCall by the host, on the main thread.
HostCall ==
  /\ where = "host"
  /\ line' = 0
  /\ Enter([kind |-> "pcall", thread |-> Main, saved |-> nested[Main]], nested[Main] + 1)

\* Resume(nil, n) by the host.
HostResume(co) ==
  /\ "hostResume" \in Uses
  /\ where = "host"
  /\ line' = 0
  /\ Enter([kind |-> "resume", thread |-> co, saved |-> 1], 1)

\* A Go function the Lua code called calls Lua back: with pcall, or with a
\* plain Call, as table.sort calls its comparator.
NestedCall(kind) ==
  /\ where = "interp" /\ Step
  /\ Enter([kind |-> kind, thread |-> Running, saved |-> nested[Running]], nested[Running] + 1)

\* What Resume sets nestedGoCallCount to.
ResumeCount(from) == nested[from] + 1

\* coroutine.resume and wrap; CloseThread counts alike but for the 1.
ScriptResume(co) ==
  /\ where = "interp" /\ Step
  /\ ~Active(co)
  /\ Enter([kind |-> "resume", thread |-> co, saved |-> ResumeCount(Running)], ResumeCount(Running))

\* callFinalizer, from a collection of thread t: the running thread's, the
\* host's own, or, from the checkGC that begins Resume, that of the coroutine
\* about to be resumed.  No collection runs inside a finalizer.
MutantFreshCount(t) ==   \* mutant: the finalizer thread keeps its own count
  /\ ~Active(Finalizer)
  /\ Enter([kind |-> "pcall", thread |-> Finalizer, saved |-> nested[Finalizer]],
           nested[Finalizer] + 1)

CallFinalizer(t) ==
  /\ ~Active(Finalizer)
  /\ Enter([kind |-> "pcall", thread |-> Finalizer, saved |-> nested[t]], nested[t] + 1)

Collect ==
  /\ where = "interp" /\ Step
  /\ CallFinalizer(Running)

HostCollect ==
  /\ where = "host"
  /\ line' = 0
  /\ CallFinalizer(Main)

ResumeCollect(co) ==
  /\ "resumeCollect" \in Uses
  /\ where = "interp" /\ Step
  /\ ~Active(co)
  /\ CallFinalizer(co)

\* Resume of a thread that is running already, or is resuming another, fails;
\* but it has set the thread's count by then, and counts down from that.
FailedResume(t) ==
  /\ "resumeActive" \in Uses
  /\ where = "interp" /\ Step
  /\ Active(t)
  /\ nested' = [nested EXCEPT ![t] = ResumeCount(Running) - 1]
  /\ UNCHANGED <<interrupt, counters, stack, where, history>>

\* A return: State.call counts down and drops an interrupt at zero, and protect
\* then restores the count it saved.  Resume counts down, and drops nothing.
Return ==
  /\ where = "interp" /\ Step
  /\ stack' = Pop
  /\ nested' = [nested EXCEPT ![Running] =
                  CASE Top.kind = "call" -> @ - 1
                    [] Top.kind = "pcall" -> Top.saved
                    [] Top.kind = "resume" -> Top.saved - 1]
  /\ IF Top.kind = "resume"
       THEN /\ where' = IF Pop = <<>> THEN "host" ELSE "interp"
            /\ stale' = (stale \/ Pop = <<>>)
       ELSE DropInterrupt(nested[Running] - 1, Pop)
  /\ UNCHANGED <<interrupt, counters, asked, raised>>

\* An error unwinds to the innermost protect, which restores the count and
\* drops an interrupt when that is zero.  A yieldable pcall in a coroutine is
\* no protect of its own: Resume catches its error, recovers, and runs on, so
\* that its call stays.
Catches(i) ==
  /\ stack[i].kind # "call"
  /\ \A j \in i + 1 .. Len(stack) : stack[j].kind = "call"

Unwind(flag, recovers) ==
  \E i \in 1 .. Len(stack) :
    LET e    == stack[i]
        rest == SubSeq(stack, 1, IF recovers THEN i ELSE i - 1)
        n    == IF e.kind = "resume" /\ ~recovers THEN e.saved - 1 ELSE e.saved
    IN /\ Catches(i)
       /\ recovers => e.kind = "resume"
       /\ stack' = rest
       /\ nested' = [nested EXCEPT ![e.thread] = n]
       /\ where' = IF e.saved = 0 /\ flag THEN "store"
                   ELSE IF rest = <<>> THEN "host" ELSE "interp"
       /\ stale' = (stale \/ rest = <<>>)

\* Any error, or a yield, which unwinds to its Resume the same way.
Error(recovers) ==
  /\ where = "interp" /\ Step
  /\ Unwind(interrupt, recovers)
  /\ UNCHANGED <<interrupt, counters, asked, raised>>

-----------------------------------------------------------------------------
(* Loops, interpreted and compiled.                                        *)

\* interrupted: CompareAndSwap(true, false), and a runtime error.  Only this
\* goroutine clears the flag, so the load before it and the swap are one step.
MutantKeepsFlag ==   \* mutant: a load in place of the CompareAndSwap
  /\ raised' = raised + 1
  /\ \E recovers \in BOOLEAN : Unwind(FALSE, recovers)
  /\ UNCHANGED <<interrupt, asked, budget>>

Interrupted ==
  /\ interrupt' = FALSE
  /\ raised' = raised + 1
  /\ \E recovers \in BOOLEAN : Unwind(FALSE, recovers)
  /\ UNCHANGED <<asked, budget>>

\* pollInterrupt and checkInterrupt, at an interpreted back-edge or tail call.
PollInterrupt ==
  /\ where = "interp"
  /\ line' = 0
  /\ UNCHANGED runs
  /\ IF poll[Running] - 1 > 0
       THEN /\ poll' = [poll EXCEPT ![Running] = @ - 1]
            /\ UNCHANGED <<interrupt, budget, nested, stack, where, history>>
       ELSE /\ poll' = [poll EXCEPT ![Running] = PollPeriod]
            /\ IF interrupt THEN Interrupted
               ELSE UNCHANGED <<interrupt, budget, nested, stack, where, history>>

\* enterJIT: the budget is refilled at every entry.
RunCompiled ==
  /\ where' = "compiled"
  /\ budget' = JitBudget
  /\ UNCHANGED <<interrupt, nested, stack, history>>

MutantNoEntryCheck ==   \* mutant: entries into compiled code never look
  /\ runs' = [runs EXCEPT ![Running] = (@ + 1) % EntryPeriod]
  /\ RunCompiled
  /\ UNCHANGED poll

EnterJIT ==
  /\ runs' = [runs EXCEPT ![Running] = (@ + 1) % EntryPeriod]
  /\ IF runs'[Running] = 0 /\ interrupt THEN Interrupted ELSE RunCompiled
  /\ UNCHANGED poll

\* The interpreter, or runJIT after an instruction it ran itself, enters
\* compiled code.
EnterCompiled ==
  /\ where = "interp" /\ Step
  /\ EnterJIT

\* A compiled back-edge.
MutantSpendsPastZero ==   \* mutant: the exit when the budget runs out is missing
  /\ where = "compiled"
  /\ budget' = budget - 1
  /\ line' = 0
  /\ UNCHANGED <<interrupt, poll, runs, nested, stack, where, history>>

CompiledBackEdge ==
  /\ where = "compiled" /\ budget > 0
  /\ budget' = budget - 1
  /\ line' = 0
  /\ UNCHANGED <<interrupt, poll, runs, nested, stack, where, history>>

\* jitExitBudget: runJIT looks at the flag, yields the processor, and enters
\* compiled code again.
ExitBudget ==
  /\ where = "compiled" /\ budget = 0
  /\ line' = 0
  /\ IF interrupt
       THEN Interrupted /\ UNCHANGED <<poll, runs>>
       ELSE EnterJIT

\* jitExitInstruction, jitExitCallGo and jitExitCallNumber.
ExitInstruction ==
  /\ where = "compiled" /\ budget > 0 /\ Step
  /\ where' = "interp"
  /\ UNCHANGED <<interrupt, counters, nested, stack, history>>

-----------------------------------------------------------------------------
LuaStep ==
  \/ DropStore
  \/ \E kind \in {"pcall", "call"} : NestedCall(kind)
  \/ \E co \in Coroutines : ScriptResume(co)
  \/ \E t \in Threads : FailedResume(t)
  \/ Collect
  \/ \E co \in Coroutines : ResumeCollect(co)
  \/ Return
  \/ \E recovers \in BOOLEAN : Error(recovers)
  \/ PollInterrupt
  \/ EnterCompiled
  \/ CompiledBackEdge
  \/ ExitBudget
  \/ ExitInstruction

Next ==
  \/ RequestInterrupt
  \/ HostCall
  \/ HostCollect
  \/ \E co \in Coroutines : HostResume(co)
  \/ LuaStep

(* Go schedules the goroutine that runs Lua; the host and the goroutines   *)
(* that interrupt owe nothing.                                             *)
Spec == Init /\ [][Next]_vars /\ WF_vars(LuaStep)

-----------------------------------------------------------------------------
(* Properties.                                                             *)

\* One Interrupt raises at most one error: every "interrupted!" has consumed
\* a request of its own (the CompareAndSwap in interrupted).
EachRaiseWasAsked == raised + (IF interrupt THEN 1 ELSE 0) <= asked

\* While code runs, the flag is cleared only by raising the error: a call
\* that is not the outermost, in a coroutine, a finalizer or a pcall, never
\* drops an interrupt meant for the code around it (nestedGoCallCount in
\* State.call and State.protect).
NoInterruptLost ==
  [][interrupt /\ ~interrupt' => raised' = raised + 1 \/ stack' = <<>>]_vars

\* An interrupt does not outlive an outermost call that returns after it:
\* no error is raised for a request older than the last one that ended
\* (dropInterrupt).
NoStaleRaise == [][raised' # raised => ~stale]_vars

\* An interrupt is noticed: whatever mixture of interpreted and compiled
\* loops runs, with however many exits from compiled code, the code stops
\* with the error or ends by itself.
InterruptNoticed == (interrupt /\ stack # <<>>) ~> (~interrupt \/ stack = <<>>)
=============================================================================
