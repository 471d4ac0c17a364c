-------------------------------- MODULE Frames --------------------------------
(***************************************************************************)
(* Calls and returns of Lua functions on a thread's stack, made by the     *)
(* interpreter, by compiled code and by Go, next to a machine that runs    *)
(* the same program without a stack (Activations).  Each Go call of l.call *)
(* is a level: an interpreter loop, or compiled code and the driver        *)
(* (runJIT) that entered it, or Go code waiting for the level above it.    *)
(*                                                                         *)
(* Which functions are compiled when, at their entry or at a loop's end,   *)
(* whether the collector's write barrier is on while compiled code runs,   *)
(* and where its budget runs out are open.  Errors end at a protected call *)
(* and shrink the stack.  Hooks, coroutines, to-be-closed variables and    *)
(* the stack's own limit are not part of this model.                       *)
(***************************************************************************)
EXTENDS CallStack

CONSTANTS
  Registers,   \* of an activation in the machine without a stack
  Mains,       \* the functions a host calls
  MinRuns,     \* jitMinRun
  Rounds       \* calls the host makes of one function

VARIABLES
  thread,      \* the Lua thread
  levels,      \* Go's own calls, the running one last
  compiled,    \* functions with compiled code
  ref,         \* the machine without a stack
  main, minRun, round

vars == <<thread, levels, compiled, ref, main, minRun, round>>
settings == <<main, minRun>>

Ref == INSTANCE Activations

(* What is compiled, and where the interpreter hands over to it. *)
Code(f) == Functions[f].code
\* Compiled code leaves these to the interpreter always.
AlwaysExits(i) ==
  \/ i.op \in {"closure", "vararg"}
  \/ i.op \in {"call", "tailcall", "return"} /\ i.b = 0
  \/ i.op = "call" /\ i.c = 0
\* What the driver runs itself when compiled code exits at it.
Steps(i) == i.op \in {"closure", "index"}
WorthEntering(f, pc) ==
  \E last \in pc .. Len(Code(f)) :
    /\ last - pc + 1 >= minRun \/ Code(f)[last].op = "forloop"
    /\ \A k \in pc .. last :
         AlwaysExits(Code(f)[k]) => Code(f)[k].op \in {"call", "return"} \/ Steps(Code(f)[k])
ReturnsSoon(f) ==
  \E r \in DOMAIN Code(f) : /\ Code(f)[r].op \in {"return", "tailcall"}
                            /\ r - 1 < minRun
                            /\ \A k \in 1 .. r - 1 : Code(f)[k].op \notin {"return", "tailcall", "forloop"}
Entries(f) == {pc \in DOMAIN Code(f) : WorthEntering(f, pc) /\ (pc = 1 => ~ReturnsSoon(f))}

(* Levels, each with the frame its Go code or its compiled code holds. *)
NewGoCall == [mode |-> "", bottom |-> 0, pc |-> 0, skip |-> FALSE, reason |-> "", frame |-> Nowhere,
              closure |-> Nil, barrier |-> FALSE, waits |-> "", a |-> 0]
\* The interpreter with the running call's frame: newFrame, frame = ci.frame.
Interpreting(l) == [NewGoCall EXCEPT !.mode = "interpreter", !.frame = Current(l).frame]
Level == Last(levels)
InLevel(level) == levels' = [levels EXCEPT ![Len(levels)] = level]
Interpreter == levels # <<>> /\ Level.mode = "interpreter"
Native == levels # <<>> /\ Level.mode = "native"
Driver == levels # <<>> /\ Level.mode = "driver"
call == Current(thread)
I == Code(call.closure.n)[IF Level.mode = "interpreter" THEN call.pc ELSE Level.pc]
Slot(a) == Read(thread, Level.frame, a)

Driving(level, reason, pc) ==
  [NewGoCall EXCEPT !.mode = "driver", !.bottom = level.bottom, !.reason = reason, !.pc = pc,
                    !.frame = IF reason = "go" THEN level.frame ELSE Nowhere]
\* l.call of a Lua function: callJIT tries compiled code first.
NewLevel(l) ==
  LET f == Current(l).closure.n
  IN  IF f \in compiled /\ ~ReturnsSoon(f)
      THEN [NewGoCall EXCEPT !.mode = "driver", !.bottom = l.depth, !.reason = "continue", !.pc = 1]
      ELSE Interpreting(l)
\* The interpreter's frame after an instruction, the pc saved.
Saved(pc) == [thread EXCEPT !.calls[thread.depth].pc = pc]
Stepped == ref' = Ref!Step(ref)

(* Go functions. *)
Waiting(level, waits, a) == [level EXCEPT !.waits = waits, !.a = a]
\* Go code that called the level above goes on: Apply returns all results,
\* Protect whether there was no error before them, a tag method's caller
\* takes one and stores it in register a of the frame it finds now.
GiveAll(l) == RestoreTop(PostCall(l, Current(l).function + 1), Current(l).wanted)
FinishProtected(l, status) == GiveAll(Store(CheckStack(l, 1), Current(l).function + 1, <<Boolean(status)>>))
Return(l, level) ==
  CASE level.waits = "apply"   -> GiveAll(l)
    [] level.waits = "protect" -> FinishProtected(l, TRUE)
    [] level.waits = "index"   -> SetRegisters([l EXCEPT !.top = @ - 1], level.a, <<At(l, l.top - 1)>>)
Continued(l, level) ==
  IF level.mode = "driver" THEN Driving(level, "continue", level.pc + 1) ELSE Interpreting(l)
RunMore(l) == PostCall(Push(l, Extra), Current(l).function + 1)
\* An error drops Go's calls up to the last protected one, which closes the
\* variables above its function, puts the error there and gives stack back.
Throw(l, error, calls) ==
  \E k \in {Max({j \in DOMAIN calls : calls[j].waits = "protect"})} :
    LET function == l.calls[calls[k].a].function + 2
        closed == Close([l EXCEPT !.depth = calls[k].a], function)
        caught == ShrinkStack([Store(closed, function, <<error>>) EXCEPT !.top = function + 1])
    IN  /\ thread' = FinishProtected(caught, FALSE)
        /\ levels' = Append(SubSeq(calls, 1, k - 1), Continued(thread', calls[k]))
\* l.call(function, wanted) of the level, which then waits.  (No program
\* here has Apply or Protect call one of the two.)
CallFromGo(l, function, wanted, waiting) ==
  \E ready \in {Callable(l, function)} :
    IF At(ready, function).type = "go"
    THEN \E pushed \in {PushGoFrame(CheckStack(ready, MinStack), function, wanted)} :
           IF At(ready, function) = More
           THEN thread' = Return(RunMore(pushed), waiting) /\ InLevel(Continued(thread', waiting))
           ELSE Throw(pushed, At(pushed, function + 1), [levels EXCEPT ![Len(levels)] = waiting])
    ELSE \E entered \in {EnterLua(ready, function, wanted)} :
           /\ thread' = entered
           /\ levels' = Append([levels EXCEPT ![Len(levels)] = waiting], NewLevel(entered))
\* callGo of f, with its arguments above the slot function.
CallGo(l, f, function, wanted) ==
  \E pushed \in {PushGoFrame(CheckStack(l, MinStack), function, wanted)} :
    CASE f = More    -> thread' = RestoreTop(RunMore(pushed), wanted) /\ InLevel(Continued(thread', Level))
      [] f = Apply   -> CallFromGo(pushed, function + 1, Multiple, Waiting(Level, "apply", 0))
      [] f = Raise   -> Throw(pushed, At(pushed, function + 1), levels)
      [] f = Protect ->
           LET arguments == Slots(pushed, function + 1, pushed.top)
               room == [Store(pushed, function + 1, <<Nil>> \o arguments) EXCEPT !.top = @ + 1]
           IN  CallFromGo(room, function + 2, Multiple, Waiting(Level, "protect", pushed.depth))
\* A tag method: its function and two operands go to the top of the stack.
CallTagMethod(l, frame) ==
  LET object == Read(l, frame, I.b)
      pushed == Push(Push(Push(l, Handlers[object.n]), object), Read(l, frame, I.c))
  IN  CallFromGo(pushed, l.top, 1, Waiting(Level, "index", I.a))

(* The interpreter. *)
Patched == call.closure.n \in compiled /\ call.pc \in Entries(call.closure.n)
Interprets(ops) == Interpreter /\ (Patched => Level.skip) /\ I.op \in ops

\* A function's entry and its loops' ends count; it is hot now, or will be
\* later.
CountJIT ==
  /\ Interpreter /\ (call.pc = 1 \/ I.op = "forloop") /\ ~Level.skip /\ call.closure.n \notin compiled
  /\ compiled' = compiled \union {call.closure.n}
  /\ InLevel([Level EXCEPT !.skip = TRUE])
  /\ UNCHANGED <<thread, ref, round, settings>>

EnterNative(bottom, pc) ==
  \E barrier \in BOOLEAN :
    InLevel([NewGoCall EXCEPT !.mode = "native", !.bottom = bottom, !.pc = pc, !.frame = call.frame,
                              !.closure = call.closure, !.barrier = barrier])
JitEnter ==
  /\ Interpreter /\ Patched /\ ~Level.skip
  /\ EnterNative(0, call.pc)
  /\ UNCHANGED <<thread, compiled, ref, round, settings>>

Moved(l) ==
  CASE I.op = "loadk"   -> Write(l, Level.frame, I.a, <<I.k>>)
    [] I.op = "move"    -> Write(l, Level.frame, I.a, <<Slot(I.b)>>)
    [] I.op = "getup"   -> Write(l, Level.frame, I.a, <<UpValue(l, call.closure.upvalues[I.b])>>)
    [] I.op = "setup"   -> SetUpValue(l, call.closure.upvalues[I.b], Slot(I.a))
    [] I.op = "closure" -> MakeClosure(l, Level.frame, I.a, I.b)
InterpretMove ==
  /\ Interprets({"loadk", "move", "getup", "setup", "closure"})
  /\ thread' = Moved(Saved(call.pc + 1))
  /\ InLevel([Level EXCEPT !.skip = FALSE]) /\ Stepped
  /\ UNCHANGED <<compiled, round, settings>>
InterpretVarArg ==
  /\ Interprets({"vararg"})
  /\ thread' = VarArgs(Saved(call.pc + 1), I.a, I.b)
  /\ InLevel(Interpreting(thread')) /\ Stepped
  /\ UNCHANGED <<compiled, round, settings>>

\* A loop's index, the iterations left, the step and the variable are in
\* registers from a.
Again == Slot(I.a + 1).n > 0
NextIteration(l) ==
  LET index == Number(Slot(I.a).n + Slot(I.a + 2).n)
  IN  Write(Write(l, Level.frame, I.a, <<index, Number(Slot(I.a + 1).n - 1)>>), Level.frame, I.a + 3, <<index>>)
InterpretForLoop ==
  /\ Interprets({"forloop"})
  /\ thread' = IF Again THEN NextIteration(Saved(I.b)) ELSE Saved(call.pc + 1)
  /\ InLevel([Level EXCEPT !.skip = FALSE]) /\ Stepped
  /\ UNCHANGED <<compiled, round, settings>>

InterpretIndex ==
  /\ Interprets({"index"})
  /\ CallTagMethod(Saved(call.pc + 1), Level.frame)
  /\ Stepped
  /\ UNCHANGED <<compiled, round, settings>>

\* With b, the arguments end at a register; without, at the top already.
ArgumentsEnd(l) == IF I.b = 0 THEN l ELSE [l EXCEPT !.top = StackIndex(l, I.a + I.b)]
PreCall(l, wanted) ==
  \E ready \in {Callable(ArgumentsEnd(l), StackIndex(l, I.a))} :
    LET function == StackIndex(l, I.a)
    IN  IF At(ready, function).type = "go" THEN CallGo(ready, At(ready, function), function, wanted)
        ELSE /\ thread' = IF I.op = "call" THEN Reenter(EnterLua(ready, function, wanted))
                          ELSE ReplaceFrame(EnterLua(ready, function, wanted))
             /\ InLevel(Interpreting(thread'))
FixedCallee(v) == v.type = "lua" /\ ~Functions[v.n].vararg
InterpretCall ==
  /\ Interprets({"call"})
  /\ LET f == Slot(I.a)
         l == Saved(call.pc + 1)
     IN  IF I.b # 0 /\ FixedCallee(f) THEN thread' = CallLua(l, I.a, I.b - 1, I.c - 1) /\ InLevel(Interpreting(thread'))
         ELSE IF I.b # 0 /\ f.type = "go" THEN CallGo(ArgumentsEnd(l), f, StackIndex(l, I.a), I.c - 1)
         ELSE PreCall(l, I.c - 1)
  /\ Stepped
  /\ UNCHANGED <<compiled, round, settings>>
InterpretTailCall ==
  /\ Interprets({"tailcall"})
  /\ PreCall(Saved(call.pc + 1), Multiple)
  /\ Stepped
  /\ UNCHANGED <<compiled, round, settings>>

ResultsOf(l, frame) == ReadAll(l, frame, I.a, I.b - 1)
ResultsEnd(l) == IF I.b = 0 THEN l ELSE [l EXCEPT !.top = StackIndex(l, I.a + I.b - 1)]
\* The running function's results go to the Go code that called it.
ReturnToGo(l) ==
  \E result \in {PostCall(l, StackIndex(l, I.a))} :
    IF Len(levels) = 1
    THEN thread' = result /\ levels' = <<>>
    ELSE \E waiting \in {levels[Len(levels) - 1]} :
           /\ thread' = Return(result, waiting)
           /\ levels' = Append(SubSeq(levels, 1, Len(levels) - 2), Continued(thread', waiting))
InterpretReturn ==
  /\ Interprets({"return"})
  /\ IF I.b # 0 /\ call.wanted # Multiple /\ call.reentry
     THEN thread' = ReturnFixed(CloseFrame(thread), ResultsOf(thread, Level.frame)) /\ InLevel(Interpreting(thread'))
     ELSE IF call.reentry
     THEN \E closed \in {CloseFrame(ResultsEnd(thread))} :
            /\ thread' = RestoreTop(PostCall(closed, StackIndex(closed, I.a)), call.wanted)
            /\ InLevel(Interpreting(thread'))
     ELSE ReturnToGo(CloseFrame(ResultsEnd(thread)))
  /\ Stepped
  /\ UNCHANGED <<compiled, round, settings>>

(* Compiled code: its frame, closure and barrier are in registers. *)
Exit(reason) == InLevel(Driving(Level, reason, Level.pc)) /\ UNCHANGED <<thread, ref>>
Runs(pc) == InLevel([Level EXCEPT !.pc = pc])
Captured == Level.closure.upvalues[I.b]

NativeMove ==
  /\ Native /\ I.op \in {"loadk", "move", "getup", "setup"}
  /\ LET from == CASE I.op = "loadk" -> I.k
                   [] I.op = "move"  -> Slot(I.b)
                   [] I.op = "getup" -> UpValue(thread, Captured)
                   [] I.op = "setup" -> Slot(I.a)
         into == IF I.op = "setup" THEN UpValue(thread, Captured) ELSE Slot(I.a)
     IN  \* guardStore
         IF Level.barrier /\ (Pointer(from) \/ Pointer(into)) THEN Exit("instruction")
         ELSE /\ thread' = IF I.op = "setup" THEN SetUpValue(thread, Captured, from)
                           ELSE Write(thread, Level.frame, I.a, <<from>>)
              /\ Runs(Level.pc + 1) /\ Stepped
  /\ UNCHANGED <<compiled, round, settings>>
NativeForLoop ==
  /\ Native /\ I.op = "forloop"
  /\ IF Level.barrier /\ Pointer(Slot(I.a + 3)) THEN Exit("instruction")
     ELSE IF Again
     THEN /\ thread' = NextIteration(thread) /\ Stepped
          /\ Runs(I.b) \/ InLevel(Driving(Level, "continue", I.b))
     ELSE Runs(Level.pc + 1) /\ Stepped /\ UNCHANGED thread
  /\ UNCHANGED <<compiled, round, settings>>
NativeExit ==
  /\ Native /\ (AlwaysExits(I) \/ I.op = "index")
  /\ Exit("instruction")
  /\ UNCHANGED <<compiled, round, settings>>

\* A loop of calls runs out of budget here.
Spend == InLevel(Driving(Level, "continue", Level.pc)) /\ UNCHANGED <<thread, ref>>
CompiledCallee(v) == ~Level.barrier /\ FixedCallee(v) /\ v.n \in compiled
NoneOpen == Functions[Level.closure.n].kids => OpenAt(thread, call.function + 1) = {}
Enters(frame, f) == InLevel([Level EXCEPT !.frame = frame, !.closure = f, !.pc = 1])

CallLuaReady ==
  /\ CompiledCallee(Slot(I.a))
  /\ StackLast(thread) - (Level.frame.data + I.a + I.b) > Functions[Slot(I.a).n].size
  /\ thread.depth < Len(thread.calls) /\ thread.calls[thread.depth + 1].hasLua
NativeCallLua ==
  LET function == Level.frame.data + I.a
      f == Slot(I.a)
      cleared == Store(Saved(Level.pc + 1), function + I.b, Nils(Max({0, Functions[f.n].params - I.b + 1})))
  IN  /\ thread' = Reenter(PushLuaFrame(cleared, function, function + 1, I.c - 1, f))
      /\ Enters(Slice(thread, function + 1), f) /\ Stepped
NativeCall ==
  /\ Native /\ I.op = "call" /\ ~AlwaysExits(I)
  /\ IF CallLuaReady THEN NativeCallLua \/ Spend
     ELSE Exit(IF Slot(I.a).type = "go" THEN "go" ELSE "instruction")
  /\ UNCHANGED <<compiled, round, settings>>

TailCallReady ==
  /\ CompiledCallee(Slot(I.a)) /\ NoneOpen
  /\ StackLast(thread) - call.function - I.b > Functions[Slot(I.a).n].size
\* The callee and its arguments move to the slots from the one below the
\* frame, which the record finds at its function.
NativeTailCallLua ==
  LET f == Slot(I.a)
      moved == Write(thread, Level.frame, -1, ReadAll(thread, Level.frame, I.a, I.b))
      cleared == Write(moved, Level.frame, I.b - 1, Nils(Max({0, Functions[f.n].params - I.b + 1})))
      top == call.function + 1 + Functions[f.n].size
  IN  /\ thread' = [cleared EXCEPT !.calls[thread.depth].pc = 1, !.calls[thread.depth].closure = f,
                                   !.calls[thread.depth].len = Functions[f.n].size, !.calls[thread.depth].top = top,
                                   !.top = top]
      /\ Enters(Level.frame, f) /\ Stepped
NativeTailCall ==
  /\ Native /\ I.op = "tailcall" /\ ~AlwaysExits(I)
  /\ IF TailCallReady THEN NativeTailCallLua \/ Spend ELSE Exit("instruction")
  /\ UNCHANGED <<compiled, round, settings>>

ReturnReady ==
  LET caller == thread.calls[thread.depth - 1]
  IN  ~Level.barrier /\ NoneOpen /\ call.reentry /\ call.wanted # Multiple /\ caller.hasLua /\ caller.closure.n \in compiled
NativeReturnLua ==
  LET caller == thread.calls[thread.depth - 1]
  IN  /\ thread' = ReturnFixed(thread, ResultsOf(thread, Level.frame))
      /\ InLevel([Level EXCEPT !.frame = caller.frame, !.closure = caller.closure, !.pc = caller.pc])
      /\ Stepped
NativeReturn ==
  /\ Native /\ I.op = "return" /\ ~AlwaysExits(I)
  /\ IF ReturnReady THEN NativeReturnLua ELSE Exit("instruction")
  /\ UNCHANGED <<compiled, round, settings>>

(* The driver, after compiled code has exited at Level.pc. *)
Drives(reason) == Driver /\ Level.reason = reason
\* The interpreter goes on: from jitInstruction it runs the instruction as
\* it is, from l.call it fetches it.
Leave ==
  /\ thread' = Saved(Level.pc)
  /\ InLevel([Interpreting(thread) EXCEPT !.skip = Level.bottom = 0])
  /\ UNCHANGED ref
Continue(pc) == InLevel(Driving(Level, "continue", pc))
DriverContinue ==
  /\ Drives("continue")
  /\ IF call.closure.n \in compiled THEN EnterNative(Level.bottom, Level.pc) /\ UNCHANGED <<thread, ref>> ELSE Leave
  /\ UNCHANGED <<compiled, round, settings>>
DriverCallGo ==
  /\ Drives("go")
  /\ LET function == Level.frame.data + I.a
     IN  CallGo([Saved(Level.pc + 1) EXCEPT !.top = function + I.b], Slot(I.a), function, I.c - 1)
  /\ Stepped
  /\ UNCHANGED <<compiled, round, settings>>
DriverCall ==
  /\ Drives("instruction") /\ I.op = "call"
  /\ LET f == Read(thread, call.frame, I.a)
         l == Saved(Level.pc + 1)
     IN  IF I.b # 0 /\ I.c # 0 /\ f.type = "go"
         THEN CallGo(ArgumentsEnd(l), f, StackIndex(l, I.a), I.c - 1) /\ Stepped
         ELSE IF I.b # 0 /\ FixedCallee(f) /\ f.n \in compiled
         THEN thread' = CallLua(l, I.a, I.b - 1, I.c - 1) /\ Continue(1) /\ Stepped
         ELSE Leave
  /\ UNCHANGED <<compiled, round, settings>>
DriverReturn ==
  /\ Drives("instruction") /\ I.op = "return"
  /\ CASE I.b # 0 /\ Level.bottom = thread.depth -> ReturnToGo(CloseFrame(ResultsEnd(thread))) /\ Stepped
       [] I.b # 0 /\ Level.bottom # thread.depth /\ call.wanted # Multiple /\ call.reentry ->
            /\ thread' = ReturnFixed(CloseFrame(thread), ResultsOf(thread, call.frame))
            /\ Continue(thread.calls[thread.depth - 1].pc) /\ Stepped
       [] OTHER -> Leave
  /\ UNCHANGED <<compiled, round, settings>>
DriverStep ==
  /\ Drives("instruction") /\ Steps(I)
  /\ IF I.op = "index" THEN CallTagMethod(Saved(Level.pc + 1), call.frame)
     ELSE thread' = MakeClosure(Saved(Level.pc + 1), call.frame, I.a, I.b) /\ Continue(Level.pc + 1)
  /\ Stepped
  /\ UNCHANGED <<compiled, round, settings>>
DriverLeave ==
  /\ Drives("instruction") /\ I.op \notin {"call", "return"} /\ ~Steps(I)
  /\ Leave
  /\ UNCHANGED <<compiled, round, settings>>

(* The host. *)
Init ==
  /\ main \in Mains /\ minRun \in MinRuns /\ round = 0
  /\ thread = [stack |-> Nils(InitialSize), array |-> 1, top |-> 1, calls |-> <<[NewCall EXCEPT !.top = 1 + MinStack]>>, depth |-> 1,
               upvalues |-> <<>>, cache |-> [f \in DOMAIN Functions |-> Nil]]
  /\ levels = <<>> /\ compiled = {}
  /\ ref = [acts |-> <<>>, frames |-> <<>>, result |-> <<>>]
HostCall ==
  /\ levels = <<>> /\ round < Rounds
  /\ round' = round + 1
  /\ thread' = EnterLua(Push([thread EXCEPT !.top = 1], Closure(main, <<>>)), 1, 1)
  /\ levels' = <<NewLevel(thread')>>
  /\ ref' = Ref!Start(Closure(main, <<>>))
  /\ UNCHANGED <<compiled, settings>>

Next ==
  \/ HostCall
  \/ CountJIT \/ JitEnter \/ InterpretMove \/ InterpretVarArg \/ InterpretForLoop \/ InterpretIndex \/ InterpretCall \/ InterpretTailCall \/ InterpretReturn
  \/ NativeMove \/ NativeForLoop \/ NativeExit \/ NativeCall \/ NativeTailCall \/ NativeReturn
  \/ DriverContinue \/ DriverCallGo \/ DriverCall \/ DriverReturn \/ DriverStep \/ DriverLeave
Spec == Init /\ [][Next]_vars

(* Properties. *)
LuaCalls == SelectSeq(SubSeq(thread.calls, 1, thread.depth), LAMBDA ci : ci.lua)
\* Types, and the layout of frames the comments of stack.go and vm.go
\* assert: every call lies in the stack, every Lua frame in the array the
\* stack is in, where its record says and above its caller's function, the
\* code that runs holds that frame, and every open upvalue is a register of
\* a running call, no two of the same one.
TypeOK ==
  /\ compiled \subseteq DOMAIN Functions
  /\ thread.top <= Len(thread.stack)
  /\ \A d \in 2 .. thread.depth :
       LET ci == thread.calls[d]
       IN  /\ thread.calls[d - 1].function < ci.function
           /\ ci.lua => /\ ci.frame = Slice(thread, Base(ci))
                        /\ ci.function < Base(ci)
           /\ ci.top <= StackLast(thread)
  /\ Interpreter \/ Native => Level.frame = call.frame
  /\ \A u \in OpenAt(thread, 0) :
       /\ FindUpValue(thread, thread.upvalues[u].index) = {u}
       /\ \E d \in 2 .. thread.depth :
            thread.calls[d].lua /\ thread.upvalues[u].index \in Base(thread.calls[d]) .. thread.calls[d].top - 1

SameScalar(v, r) == v.type = r.type /\ v.n = r.n
\* The same value, upvalues included.
Same(v, r) ==
  /\ SameScalar(v, r)
  /\ Len(v.upvalues) = Len(r.upvalues)
  /\ \A k \in DOMAIN v.upvalues : SameScalar(UpValue(thread, v.upvalues[k]), Ref!Cell(ref, r.upvalues[k]))
SameList(vs, rs) == Len(vs) = Len(rs) /\ \A k \in DOMAIN vs : Same(vs[k], rs[k])
ExtraOf(ci) == Slots(thread, ci.function + 1 + Functions[ci.closure.n].params, Base(ci))
Pc == IF Level.mode = "interpreter" THEN call.pc ELSE Level.pc
\* Whoever runs it, the program is where the machine without a stack is:
\* the same calls are active, each at the same instruction with the same
\* registers and extra arguments, the stack's top is where the instruction
\* after it looks for it, and the host gets the same result.
FramesAgree ==
  IF levels = <<>> THEN round > 0 => SameList(Slots(thread, 1, thread.top), ref.result)
  ELSE \E calls \in {LuaCalls} :
    /\ Len(calls) = Len(ref.frames)
    /\ \A k \in DOMAIN calls :
         LET ci == calls[k]
             frame == ref.frames[k]
             act == ref.acts[frame.act]
         IN  /\ SameScalar(ci.closure, frame.f)
             /\ frame.pc = IF k = Len(calls) THEN Pc ELSE ci.pc
             /\ \A r \in Registers : act.registers[r] # Undef => Same(Read(thread, ci.frame, r), act.registers[r])
             /\ Functions[ci.closure.n].vararg => SameList(ExtraOf(ci), act.extra)
    /\ thread.top = IF Last(ref.frames).open = 0 THEN call.top ELSE call.frame.data + Last(ref.frames).open
=============================================================================
