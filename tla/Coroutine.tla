------------------------------ MODULE Coroutine ------------------------------
(***************************************************************************)
(* Coroutines, protected calls and to-be-closed variables, as they share   *)
(* Go's stack.  Each thread keeps its own call infos and its own list of   *)
(* variables to close; Go's stack holds, for all of them together, the     *)
(* activations of State.call, State.protect, closeProtected, CloseThread   *)
(* and Resume.  A yield or an error is a panic: it drops Go's frames up to *)
(* the innermost one that recovers it, and leaves the thread's own frames  *)
(* to be run on, or cut, by what caught it.                                *)
(*                                                                         *)
(* A stack index is abstract: a frame or a variable lies one above what is *)
(* below it.  Code between two calls is one step.                          *)
(***************************************************************************)
EXTENDS Integers, SequencesExt

CONSTANTS
  Main,        \* globalState.mainThread
  Coroutines,  \* the other threads, each created and not started
  Variables,   \* to-be-closed variables, each declared at most once
  Uses,        \* what the Lua code does: names of the operations below
  Slack,       \* stack a shrink leaves above the call infos in use
  MaxPos,      \* bound: stack index at which Lua code still calls
  MaxGo        \* bound: Go activations when Lua code still calls

ASSUME ThreadsAssumption == Main \notin Coroutines
ASSUME SizesAssumption == Slack \in Nat /\ MaxPos \in Nat /\ MaxGo \in Nat

Threads == Coroutines \union {Main}

VARIABLES
  th,          \* the threads' State
  go,          \* Go's stack, innermost last
  \* history
  closes,      \* closes[v]: calls of v's __close
  closedSelf   \* coroutines whose CloseRunning has thrown errClosed

vars == <<th, go, closes, closedSelf>>

-----------------------------------------------------------------------------
(* A callInfo.  A Lua function's op is what its instruction does: run, a   *)
(* call that has not returned, or a JMP or RETURN that closes what is at   *)
(* or above level.  A Go function's is the call it makes: a pcall under    *)
(* protect; a yieldable pcall, with error once one interrupted it; one     *)
(* with another continuation; or a plain Call.  fresh says that execute    *)
(* returns to Go when the frame does (no callStatusReentry).               *)
LuaOps == {"run", "call", "jump", "return"}
GoOps == {"protect", "pcall", "error", "callk", "plain"}
CallInfo == [op : LuaOps \union GoOps, pos : Nat \ {0}, fresh : BOOLEAN, level : Nat]

(* A State: status, deathError # nil, the function of an unstarted one on  *)
(* its stack, callInfo's list, tbc, nonYieldableCallCount.                 *)
ThreadRecord ==
  [status : {"ok", "yield", "error"}, death : BOOLEAN, fresh : BOOLEAN, ci : Seq(CallInfo),
   tbc : Seq([level : Nat \ {0}, base : Nat \ {0}, id : Variables]), nny : Nat]

(* The activations.  A closing is closeProtected's loop or CloseThread's;  *)
(* then says what follows it.                                              *)
Activation ==
  [k : {"call"}, t : Threads, ny : BOOLEAN]
    \union [k : {"protect"}, t : Threads, ci : Seq(CallInfo), nny : Nat, level : Nat]
    \union [k : {"closing"}, t : Threads, ci : Seq(CallInfo), nny : Nat, level : Nat, err : BOOLEAN,
            then : {"pcall", "close", "wrap", "self"}]
    \union [k : {"resume"}, t : Coroutines, nny : Nat, loop : BOOLEAN, wrap : BOOLEAN]

TypeOK ==
  /\ th \in [Threads -> ThreadRecord]
  /\ go \in Seq(Activation)
  /\ closes \in [Variables -> Nat]
  /\ closedSelf \subseteq Coroutines

Init ==
  /\ th = [t \in Threads |-> [status |-> "ok", death |-> FALSE, fresh |-> t # Main, ci |-> <<>>,
                              tbc |-> <<>>, nny |-> IF t = Main THEN 1 ELSE 0]]
  /\ go = <<>>
  /\ closes = [v \in Variables |-> 0]
  /\ closedSelf = {}

-----------------------------------------------------------------------------
(* The helpers below map a machine m = [th, go] to the next one.           *)
Machine == [th |-> th, go |-> go]
Become(m) == th' = m.th /\ go' = m.go

Height(r) ==
  Max({0} \union (IF r.ci = <<>> THEN {} ELSE {Last(r.ci).pos})
          \union (IF r.tbc = <<>> THEN {} ELSE {Last(r.tbc).level}))

Mark(r, op, level) ==
  [r EXCEPT !.ci[Len(r.ci)].op = op, !.ci[Len(r.ci)].level = level]
Calling(r) == Mark(r, "call", 0)

PushFrame(r, op, fresh) ==
  [r EXCEPT !.ci = Append(@, [op |-> op, pos |-> Height(r) + 1, fresh |-> fresh, level |-> 0])]

\* State.call, up to the function's first instruction.
Called(r, ny) == [PushFrame(r, "run", TRUE) EXCEPT !.nny = @ + (IF ny THEN 1 ELSE 0)]

\* hasTBC
HasTBC(r, level) == r.tbc # <<>> /\ Last(r.tbc).level >= level

\* l.callInfo's Go function has its result, and returns to the Lua function
\* that called it.
ReturnGo(r) == Mark([r EXCEPT !.ci = Front(@)], "run", 0)

\* What was called has returned: to a Lua function, to the loop of a JMP, a
\* RETURN or a recovered pcall that goes on closing, or to a Go function.
\* unroll, finishOp and finishGoCall do the same to a frame whose Go
\* activation is gone.
Continued(r) ==
  IF r.ci = <<>> THEN r
  ELSE CASE Last(r.ci).op = "call" -> Mark(r, "run", 0)
         [] Last(r.ci).op \in {"protect", "pcall", "callk", "plain"} -> ReturnGo(r)
         [] OTHER -> r

Back(m) ==
  IF m.go = <<>> \/ Last(m.go).k = "closing" THEN m
  ELSE [m EXCEPT !.th[Last(m.go).t] = Continued(@)]

MutantEndCall(m) ==   \* mutant: State.call counts down after a yieldable call too
  LET e == Last(m.go)
      g == Front(m.go)
  IN [th |-> [m.th EXCEPT ![e.t].nny = @ - 1],
      go |-> IF g # <<>> /\ Last(g).k = "protect" THEN Front(g) ELSE g]

\* The end of State.call, and of protect when it is protectedCall's.
EndCall(m) ==
  LET e == Last(m.go)
      g == Front(m.go)
  IN [th |-> [m.th EXCEPT ![e.t].nny = @ - (IF e.ny THEN 1 ELSE 0)],
      go |-> IF g # <<>> /\ Last(g).k = "protect" THEN Front(g) ELSE g]

\* A Lua function returns, its variables closed.
Leave(m) ==
  LET t == Last(m.go).t
      f == Last(m.th[t].ci)
      n == [m EXCEPT !.th[t].ci = Front(@)]
  IN Back(IF ~f.fresh THEN n
          ELSE IF Last(m.go).k = "call" THEN EndCall(n)
          ELSE IF n.th[t].ci # <<>> THEN n
          ELSE [th |-> [n.th EXCEPT ![t].nny = Last(m.go).nny], go |-> Front(n.go)])

-----------------------------------------------------------------------------
(* Closing threads, errors and yields.                                     *)

MutantKeepsFunction(m, co, then) ==   \* mutant: an unstarted thread keeps its function
  [th |-> [m.th EXCEPT ![co] = [@ EXCEPT !.status = "ok", !.death = FALSE, !.ci = <<>>, !.nny = 1]],
   go |-> Append(m.go, [k |-> "closing", t |-> co, ci |-> <<>>, nny |-> 1, level |-> 1,
                        err |-> m.th[co].death, then |-> then])]

MutantKeepsCalls(m, co, then) ==   \* mutant: callInfo is not reset
  [th |-> [m.th EXCEPT ![co] = [@ EXCEPT !.status = "ok", !.death = FALSE, !.fresh = FALSE, !.nny = 1]],
   go |-> Append(m.go, [k |-> "closing", t |-> co, ci |-> m.th[co].ci, nny |-> 1, level |-> 1,
                        err |-> m.th[co].death, then |-> then])]

\* CloseThread, up to its loop.
CloseThread(m, co, then) ==
  [th |-> [m.th EXCEPT ![co] = [@ EXCEPT !.status = "ok", !.death = FALSE, !.fresh = FALSE,
                                         !.ci = <<>>, !.nny = 1]],
   go |-> Append(m.go, [k |-> "closing", t |-> co, ci |-> <<>>, nny |-> 1, level |-> 1,
                        err |-> m.th[co].death, then |-> then])]

\* auxResume's caller takes an error: wrap closes a coroutine that died.
ResumeFailed(m, co, wrap) ==
  IF wrap /\ m.th[co].status = "error" THEN CloseThread(m, co, "wrap") ELSE Back(m)

MutantRecoverable(r) ==   \* mutant: the pcall's status is cleared before its closing
  {i \in 1 .. Len(r.ci) : r.ci[i].op = "pcall"}

\* recover: the innermost yieldable pcall takes the error.
Recoverable(r) == {i \in 1 .. Len(r.ci) : r.ci[i].op \in {"pcall", "error"}}
MutantRecover(r) ==   \* mutant: recover does not say that an error interrupted the pcall
  LET p == Max(Recoverable(r))
  IN [r EXCEPT !.ci = SubSeq(r.ci, 1, p), !.nny = 0]

MutantKeepsCount(r) ==   \* mutant: recover does not make the thread yieldable again
  LET p == Max(Recoverable(r))
  IN [r EXCEPT !.ci = [SubSeq(r.ci, 1, p) EXCEPT ![p].op = "error", ![p].level = r.ci[p].pos + 1]]

Recover(r) ==
  LET p == Max(Recoverable(r))
  IN [r EXCEPT !.ci = [SubSeq(r.ci, 1, p) EXCEPT ![p].op = "error", ![p].level = r.ci[p].pos + 1],
               !.nny = 0]

MutantCaughtByResume(kind, m, e) ==   \* mutant: Resume takes errClosed for an error
  LET ended == [th |-> [m.th EXCEPT ![e.t].nny = e.nny], go |-> Front(m.go)]
  IN IF kind = "yield" THEN Back(ended)
     ELSE IF Recoverable(m.th[e.t]) # {}
            THEN [th |-> [m.th EXCEPT ![e.t] = Recover(m.th[e.t])],
                  go |-> Append(ended.go, [e EXCEPT !.loop = TRUE])]
            ELSE ResumeFailed([ended EXCEPT !.th[e.t].status = "error", !.th[e.t].death = TRUE],
                              e.t, e.wrap)

\* Resume, when a panic ends its protect.
CaughtByResume(kind, m, e) ==
  LET r     == m.th[e.t]
      g     == Front(m.go)
      ended == [th |-> [m.th EXCEPT ![e.t].nny = e.nny], go |-> g]
  IN CASE kind = "yield" -> Back(ended)
       [] kind = "closed" /\ ~e.loop -> ResumeFailed(ended, e.t, e.wrap)
       [] OTHER ->
            IF Recoverable(r) # {}
              THEN [th |-> [m.th EXCEPT ![e.t] = Recover(r)], go |-> Append(g, [e EXCEPT !.loop = TRUE])]
              ELSE ResumeFailed([ended EXCEPT !.th[e.t].status = "error", !.th[e.t].death = TRUE],
                                e.t, e.wrap)

\* A panic with an error, errYield or errClosed, to what recovers it.
\* protectedCall passes errClosed on; CloseThread's first loop takes it as its
\* own end; closeProtected takes it as the next error.
Catches(e, kind) == e.k \in {"closing", "resume"} \/ (e.k = "protect" /\ kind # "closed")

Throw(kind, m) ==
  LET i == Max({j \in 1 .. Len(m.go) : Catches(m.go[j], kind)})
      e == m.go[i]
      g == SubSeq(m.go, 1, i - 1)
      reset == [m.th EXCEPT ![e.t].ci = e.ci, ![e.t].nny = e.nny]
  IN CASE e.k = "resume" -> CaughtByResume(kind, [m EXCEPT !.go = Append(g, e)], e)
       [] e.k = "protect" ->
            [th |-> reset,
             go |-> Append(g, [k |-> "closing", t |-> e.t, ci |-> e.ci, nny |-> e.nny,
                               level |-> e.level, err |-> TRUE, then |-> "pcall"])]
       [] e.k = "closing" ->
            [th |-> reset, go |-> Append(g, [e EXCEPT !.err = @ \/ kind # "closed"])]

-----------------------------------------------------------------------------
(* What Lua code does.                                                     *)
Running == Last(go).t
Frame == Last(th[Running].ci)

\* Lua code runs, and does op.
LuaRuns(op) ==
  /\ op \in Uses
  /\ go # <<>> /\ Last(go).k \in {"call", "resume"} /\ Frame.op = "run"
  /\ op \notin {"return", "error", "yield"} => Height(th[Running]) < MaxPos /\ Len(go) < MaxGo

NoClose == UNCHANGED <<closes, closedSelf>>

\* ProtectedCall by the host.
HostCall ==
  /\ go = <<>>
  /\ th' = [th EXCEPT ![Main] = Called(@, TRUE)]
  /\ go' = <<[k |-> "protect", t |-> Main, ci |-> <<>>, nny |-> 1, level |-> 1],
             [k |-> "call", t |-> Main, ny |-> TRUE]>>
  /\ NoClose

\* OP_CALL of a Lua function.
CallLua ==
  /\ LuaRuns("call")
  /\ th' = [th EXCEPT ![Running] = PushFrame(Calling(@), "run", FALSE)]
  /\ UNCHANGED go /\ NoClose

\* A metamethod, called through State.call and able to yield.
CallMeta ==
  /\ LuaRuns("meta")
  /\ th' = [th EXCEPT ![Running] = Called(Calling(@), FALSE)]
  /\ go' = Append(go, [k |-> "call", t |-> Running, ny |-> FALSE])
  /\ NoClose

\* ProtectedCallWithContinuation, as pcall calls it: under protect where the
\* thread cannot yield, and else left to Resume to protect.
CallPcall ==
  /\ LuaRuns("pcall")
  /\ LET r == PushFrame(Calling(th[Running]), "pcall", FALSE)
         p == Last(r.ci)
     IN IF r.nny = 0
          THEN /\ th' = [th EXCEPT ![Running] = Called(r, FALSE)]
               /\ go' = Append(go, [k |-> "call", t |-> Running, ny |-> FALSE])
          ELSE /\ th' = [th EXCEPT ![Running] = Called(Mark(r, "protect", 0), TRUE)]
               /\ go' = go \o <<[k |-> "protect", t |-> Running, ci |-> Mark(r, "protect", 0).ci,
                                 nny |-> r.nny, level |-> p.pos + 1],
                                [k |-> "call", t |-> Running, ny |-> TRUE]>>
  /\ NoClose

MutantCallGo(continuation) ==   \* mutant: a Call without a continuation may be yielded across
  /\ LuaRuns(IF continuation THEN "callk" ELSE "plain")
  /\ LET f == PushFrame(Calling(th[Running]), IF continuation THEN "callk" ELSE "plain", FALSE)
     IN /\ th' = [th EXCEPT ![Running] = Called(f, FALSE)]
        /\ go' = Append(go, [k |-> "call", t |-> Running, ny |-> FALSE])
  /\ NoClose

\* CallWithContinuation, as dofile calls its chunk, and a Call without one, as
\* table.sort calls its comparator.
CallGo(continuation) ==
  /\ LuaRuns(IF continuation THEN "callk" ELSE "plain")
  /\ LET r  == th[Running]
         ny == ~continuation \/ r.nny > 0
         f  == PushFrame(Calling(r), IF ny THEN "plain" ELSE "callk", FALSE)
     IN /\ th' = [th EXCEPT ![Running] = Called(f, ny)]
        /\ go' = Append(go, [k |-> "call", t |-> Running, ny |-> ny])
  /\ NoClose

\* newTBC: local v <close>.
Declare(v) ==
  /\ LuaRuns("declare")
  /\ closes[v] = 0 /\ \A t \in Threads : \A i \in DOMAIN th[t].tbc : th[t].tbc[i].id # v
  /\ th' = [th EXCEPT ![Running].tbc =
              Append(@, [level |-> Height(th[Running]) + 1, base |-> Frame.pos, id |-> v])]
  /\ UNCHANGED go /\ NoClose

\* closeFromJump: the end of the scope of the function's i-th variable.
Jump(i) ==
  /\ LuaRuns("jump")
  /\ i \in DOMAIN th[Running].tbc /\ th[Running].tbc[i].level > Frame.pos
  /\ th' = [th EXCEPT ![Running] = Mark(@, "jump", th[Running].tbc[i].level)]
  /\ UNCHANGED go /\ NoClose

\* closeForReturn
Return ==
  /\ LuaRuns("return")
  /\ th' = [th EXCEPT ![Running] = Mark(@, "return", Frame.pos)]
  /\ UNCHANGED go /\ NoClose

Error ==
  /\ LuaRuns("error")
  /\ Become(Throw("error", Machine))
  /\ NoClose

\* Yield; where it may not, it is an Error.
Yield ==
  /\ LuaRuns("yield")
  /\ Running # Main /\ th[Running].nny = 0
  /\ Become(Throw("yield", [Machine EXCEPT
              !.th[Running] = [Calling(@) EXCEPT !.status = "yield"]]))
  /\ NoClose

\* Resume, by coroutine.resume or wrap, of a coroutine it can resume.
Resumed(r) ==
  [(IF r.fresh THEN PushFrame(r, "run", TRUE) ELSE Continued(r))
     EXCEPT !.status = "ok", !.fresh = FALSE, !.nny = 0]

Resume(co, wrap) ==
  /\ LuaRuns("resume")
  /\ LET r == th[co]
     IN /\ r.status = "yield" \/ (r.status = "ok" /\ r.ci = <<>> /\ r.fresh)
        /\ th' = [th EXCEPT ![Running] = Calling(@), ![co] = Resumed(r)]
        /\ go' = Append(go, [k |-> "resume", t |-> co, nny |-> r.nny, loop |-> FALSE, wrap |-> wrap])
  /\ NoClose

\* wrap, of one dead already: Resume fails, and wrap closes it.
WrapDead(co) ==
  /\ LuaRuns("resume")
  /\ th[co].status = "error"
  /\ Become(CloseThread([Machine EXCEPT !.th[Running] = Calling(@)], co, "wrap"))
  /\ NoClose

\* coroutineStatus
Status(co) ==
  IF go # <<>> /\ Running = co THEN "running"
  ELSE CASE th[co].status = "yield" -> "suspended"
         [] th[co].status = "error" -> "dead"
         [] th[co].status = "ok" -> IF th[co].ci # <<>> THEN "normal"
                                    ELSE IF th[co].fresh THEN "suspended" ELSE "dead"

\* coroutine.close
CloseCoroutine(co) ==
  /\ LuaRuns("close")
  /\ Status(co) \in {"dead", "suspended"}
  /\ Become(CloseThread([Machine EXCEPT !.th[Running] = Calling(@)], co, "close"))
  /\ NoClose

\* CloseRunning, up to its throw.  Uses says whether Lua code does so where a
\* pcall has recovered in this Resume, or in a __close that a pcall runs.
Recovered(t) == \E i \in DOMAIN go : go[i].k = "resume" /\ go[i].t = t /\ go[i].loop
PcallCloses(t) == \E i \in DOMAIN go : go[i].k = "closing" /\ go[i].t = t /\ go[i].then = "pcall"

CloseRunning ==
  /\ LuaRuns("closeSelf")
  /\ Running # Main
  /\ Recovered(Running) => "closeRecovered" \in Uses
  /\ PcallCloses(Running) => "closeInPcall" \in Uses
  /\ Become(CloseThread(Machine, Running, "self"))
  /\ NoClose

-----------------------------------------------------------------------------
(* closeTBC.                                                               *)

\* What closes: closeProtected's loop or CloseThread's, or the instruction or
\* the recovered pcall on top of the thread.
Closing ==
  /\ go # <<>>
  /\ Last(go).k # "closing" => Frame.op \in {"jump", "return", "error"}
Level == IF Last(go).k = "closing" THEN Last(go).level ELSE Frame.level

MutantCallClose ==   \* mutant: the variable leaves the list after its __close
  LET r  == th[Running]
      ny == Last(go).k = "closing"
  IN /\ th' = [th EXCEPT ![Running] = Called(r, ny)]
     /\ go' = Append(go, [k |-> "call", t |-> Running, ny |-> ny])
     /\ closes' = [closes EXCEPT ![Last(r.tbc).id] = @ + 1]
     /\ UNCHANGED closedSelf

\* The last variable leaves the list, and its __close is called.
CallClose ==
  LET r  == th[Running]
      ny == Last(go).k = "closing"
  IN /\ th' = [th EXCEPT ![Running] = Called([r EXCEPT !.tbc = Front(@)], ny)]
     /\ go' = Append(go, [k |-> "call", t |-> Running, ny |-> ny])
     /\ closes' = [closes EXCEPT ![Last(r.tbc).id] = @ + 1]
     /\ UNCHANGED closedSelf

\* recover has shrunk the stack to the call infos, and the variable lay above:
\* reading it panics, and recover comes back to the same pcall.
Truncated ==
  /\ Last(go).k # "closing" /\ Frame.op = "error"
  /\ Last(th[Running].tbc).level > Frame.pos + Slack

CloseNext ==
  /\ Closing /\ HasTBC(th[Running], Level)
  /\ IF Truncated
       THEN th' = [th EXCEPT ![Running].tbc = Front(@)] /\ UNCHANGED go /\ NoClose
       ELSE CallClose

\* The end of closeProtected in protectedCall, or of CloseThread.
EndClosing(e, m) ==
  LET n == [th |-> [m.th EXCEPT ![e.t].status = IF e.err THEN "error" ELSE @], go |-> Front(m.go)]
  IN CASE e.then = "pcall" -> Back([m EXCEPT !.go = Front(@)])
       [] e.then = "close" -> Back(n)
       [] e.then = "wrap" -> Throw("error", n)
       [] e.then = "self" -> Throw("closed", n)

EndClose ==
  /\ Closing /\ ~HasTBC(th[Running], Level)
  /\ Become(IF Last(go).k = "closing" THEN EndClosing(Last(go), Machine)
            ELSE CASE Frame.op = "jump" -> [Machine EXCEPT !.th[Running] = Mark(@, "run", 0)]
                   [] Frame.op = "error" -> [Machine EXCEPT !.th[Running] = ReturnGo(@)]
                   [] Frame.op = "return" -> Leave(Machine))
  /\ closedSelf' = IF Last(go).k = "closing" /\ Last(go).then = "self"
                     THEN closedSelf \union {Running} ELSE closedSelf
  /\ UNCHANGED closes

-----------------------------------------------------------------------------
Next ==
  \/ HostCall
  \/ CallLua
  \/ CallMeta
  \/ CallPcall
  \/ \E continuation \in BOOLEAN : CallGo(continuation)
  \/ \E v \in Variables : Declare(v)
  \/ \E i \in 1 .. Cardinality(Variables) : Jump(i)
  \/ Return
  \/ Error
  \/ Yield
  \/ \E co \in Coroutines, wrap \in BOOLEAN : Resume(co, wrap)
  \/ \E co \in Coroutines : WrapDead(co)
  \/ \E co \in Coroutines : CloseCoroutine(co)
  \/ CloseRunning
  \/ CloseNext
  \/ EndClose

Spec == Init /\ [][Next]_vars

-----------------------------------------------------------------------------
(* Properties.                                                             *)

Pending(v) == UNION {{<<t, i>> : i \in {j \in DOMAIN th[t].tbc : th[t].tbc[j].id = v}} : t \in Threads}

\* A variable leaves its thread's list for one call of its __close: never two,
\* however often a yield or an error in a __close runs the JMP, the RETURN or
\* the pcall again, and never none (closeTBC, finishOp, recover).
ClosedOnce ==
  [][\A v \in Variables :
       Cardinality(Pending(v)') + closes'[v] >= Cardinality(Pending(v)) + closes[v]
         /\ Cardinality(Pending(v)') + closes'[v] <= 1]_vars

\* Every pending variable is some live function's own, or is being closed by
\* the pcall or thread whose error or closing cut its function, or lies in a
\* coroutine that died, until it is closed.  Lists are in stack order, which
\* hasTBC relies on.
Closer(t, e) ==
  \/ \E i \in DOMAIN th[t].ci : th[t].ci[i].op = "error" /\ e.level >= th[t].ci[i].level
  \/ \E i \in DOMAIN go : go[i].k = "closing" /\ go[i].t = t /\ e.level >= go[i].level
  \/ th[t].death
PendingHasCloser ==
  \A t \in Threads : LET tbc == th[t].tbc IN
    /\ \A i, j \in DOMAIN tbc : i < j => tbc[i].level < tbc[j].level
    /\ \A i \in DOMAIN tbc :
         \/ \E f \in DOMAIN th[t].ci : th[t].ci[f].op \in LuaOps /\ th[t].ci[f].pos = tbc[i].base
         \/ Closer(t, tbc[i])

\* nonYieldableCallCount counts the thread's calls that cannot be yielded
\* across, and one more on the main thread or in CloseThread, after any mixture
\* of errors, yields and recoveries.
CountsFrom(t) ==
  Max({0} \union {i \in DOMAIN go : go[i].t = t /\ (go[i].k = "resume"
                                      \/ (go[i].k = "closing" /\ go[i].then # "pcall"))})
UnyieldableCounted ==
  \A t \in {go[i].t : i \in DOMAIN go} :
    LET from == CountsFrom(t)
    IN th[t].nny = Cardinality({i \in from + 1 .. Len(go) :
                                  go[i].t = t /\ go[i].k = "call" /\ go[i].ny})
                   + (IF from = 0 \/ go[from].k = "closing" THEN 1 ELSE 0)

\* What unroll will run on has a continuation: a suspended coroutine has left
\* Go's stack altogether, and it, or one whose Go activations an error has
\* dropped, holds no Go function that waits for a plain call or a protect
\* (the assertion in finishGoCall).
ContinuationsReady ==
  /\ \A t \in Threads : th[t].status = "yield" =>
       th[t].ci # <<>> /\ \A i \in DOMAIN go : go[i].t # t
  /\ \A t \in Threads :
       th[t].status = "yield" \/ (go # <<>> /\ Last(go).k = "resume" /\ Last(go).t = t) =>
         \A i \in DOMAIN th[t].ci : th[t].ci[i].op \notin {"protect", "plain"}

\* A coroutine dies of an error only outside every pcall (recover).
DeathIsUncaught ==
  \A t \in Threads : th[t].death =>
    th[t].status = "error"
      /\ \A i \in DOMAIN th[t].ci : th[t].ci[i].op \notin {"protect", "pcall", "error"}

\* A coroutine that closed itself is done: no function of it runs on
\* (CloseRunning).
SelfCloseEnds == \A co \in closedSelf : th[co].ci = <<>>

\* Its Resume returns as if it had finished, or with the error of a __close:
\* the coroutine has not died of an error of its own (CloseRunning).
SelfCloseReturns == \A co \in closedSelf : ~th[co].death

\* What coroutine.status says follows the lifecycle: the refinement maps
\* life to coroutineStatus, which reads status, call infos and stack, and the
\* chain to the Resumes and CloseThreads on Go's stack.
Link(t, closing) == [t |-> t, closing |-> closing]
Linked(c, e) ==
  IF e.k = "resume" THEN Append(c, Link(e.t, FALSE))
  ELSE IF e.k = "closing" /\ e.then \in {"close", "wrap"} THEN Append(c, Link(e.t, TRUE))
  ELSE IF e.k = "closing" /\ e.then = "self" THEN [c EXCEPT ![Len(c)].closing = TRUE]
  ELSE c
Links(g) ==
  LET links[n \in 0 .. Len(g)] == IF n = 0 THEN <<Link(Main, FALSE)>> ELSE Linked(links[n - 1], g[n])
  IN links[Len(g)]
Life == INSTANCE Lifecycle WITH
  life  <- [co \in Coroutines |-> Status(co)],
  chain <- IF go = <<>> THEN <<>> ELSE Links(go)
StatusFollowsLifecycle == Life!Spec
=============================================================================
