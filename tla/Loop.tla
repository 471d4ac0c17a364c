-------------------------------- MODULE Loop --------------------------------
(* A numeric for loop run by compiled code: from FORPREP through ordinary   *)
(* code, into and out of the kernels planned for it, to the end or an       *)
(* error. Beside it the interpreter runs the same loop, step for step.      *)
EXTENDS Kernel, CompiledCode

CONSTANTS Programs,      \* functions, each with the frames and upvalues it may start with
          Processors,
          Buffers,       \* what each buffer holds at first
          Plans          \* Plans[processor][program][type] is PlanKernel's result

VARIABLES program, processor,
          plans,                   \* the kernels compiled for the loop, by its type
          frame, bufs, upvalue,    \* what compiled code reads and writes
          kernel,                  \* the running kernel's loop type, or "none"
          regs,                    \* the machine registers of its slots
          pc,
          ref                      \* the interpreter's frame, buffers and pc
vars == <<program, processor, plans, frame, bufs, upvalue, kernel, regs, pc, ref>>

f == Programs[program]
Latch == f.latch
Base == f.code[Latch].a
Done == Latch + 1
Raised == 0
Plan == plans[kernel]
Ordinary == kernel = "none"
Running == pc \notin {Done, Raised}

-----------------------------------------------------------------------------
(* The interpreter: what one instruction makes of a machine's frame,        *)
(* buffers and pc.                                                          *)
Intrinsic == [type |-> "function", class |-> "intrinsic", n |-> 0]
Callee == [type |-> "function", class |-> "lua", n |-> 0]
IsBuffer(v) == v.type = "buffer"
\* What the intrinsic computes, and the arguments its code leaves to Go.
Apply(v) == FloatDiv(ToFloat(v), Float(4))
LeftToGo(v) == ~IsFinite(ToFloat(v)) \/ ToFloat(v).n > 6

Fail(m) == [m EXCEPT !.pc = Raised]
Goto(m, to) == [m EXCEPT !.pc = to]
Store(m, r, v) == IF v.type = "error" THEN Fail(m) ELSE [m EXCEPT !.frame[r] = v, !.pc = @ + 1]
RK(m, field) == IF IsConstant(field) THEN Constant(f, field) ELSE m.frame[field]
Jump(m, taken) == Goto(m, IF taken THEN f.code[m.pc + 1].to ELSE m.pc + 2)
LoopRegisters(r) == SubSeq(r, Base, Base + 3)
\* The loop's registers after FORPREP or FORLOOP, and where it goes.
Steps(m, own, on) ==
  IF "type" \in DOMAIN own THEN Fail(m) ELSE IF own = Skip THEN Goto(m, Done)
  ELSE [m EXCEPT !.frame = [r \in DOMAIN @ |-> IF r \in Base .. Base + 3 THEN own.r[r - Base + 1] ELSE @[r]],
                 !.pc = on]
Put(m, n, buf) == IF "type" \in DOMAIN buf THEN Fail(m) ELSE [m EXCEPT !.bufs[n] = buf, !.pc = @ + 1]

Holds(op, x, y) ==
  CASE op = "eq" -> IF IsNumber(x) /\ IsNumber(y) THEN EqualNumbers(x, y) ELSE x = y
    [] op = "lt" -> LessNumbers(x, y)
    [] op = "le" -> LessOrEqualNumbers(x, y)
InterpretLoop(m) == Steps(m, ForLoop(LoopRegisters(m.frame)), f.code[m.pc].to)
Interpret(m) ==
  LET i == f.code[m.pc]
      b == RK(m, i.b)
      c == RK(m, i.c)
  IN  CASE i.op = "move" -> Store(m, i.a, b)
        [] i.op = "loadk" -> Store(m, i.a, b)
        [] i.op \in Operators -> Store(m, i.a, IF IsNumber(b) /\ IsNumber(c) THEN Arith(i.op, b, c) ELSE Error("arithmetic"))
        [] i.op = "unm" -> Store(m, i.a, IF IsNumber(b) THEN Arith("unm", b, Integer(0)) ELSE Error("arithmetic"))
        [] i.op \in Tests -> IF i.op # "eq" /\ ~(IsNumber(b) /\ IsNumber(c)) THEN Fail(m)
                             ELSE Jump(m, Holds(i.op, b, c) = (i.a = 1))
        [] i.op = "jmp" -> Goto(m, i.to)
        [] i.op = "getupval" -> Store(m, i.a, upvalue)
        [] i.op = "call" -> LET x == m.frame[i.a + 1]
                            IN  Store(m, i.a, IF ~IsNumber(x) THEN Error("argument")
                                              ELSE IF m.frame[i.a] = Intrinsic THEN Apply(x) ELSE ToFloat(x))
        [] i.op = "gettable" -> Store(m, i.a, IF IsBuffer(b) THEN BufferAt(m.bufs[b.n], c) ELSE Error("index"))
        [] i.op = "settable" -> IF ~IsBuffer(m.frame[i.a]) THEN Fail(m)
                                ELSE Put(m, m.frame[i.a].n, PutBuffer(m.bufs[m.frame[i.a].n], b, c))
        [] i.op = "forprep" -> IF \E r \in Base .. Base + 2 : ~IsNumber(m.frame[r]) THEN Fail(m)
                               ELSE Steps(m, ForPrep(LoopRegisters(m.frame)), Start(f, Latch))
        [] i.op = "forloop" -> InterpretLoop(m)

Machine == [frame |-> frame, bufs |-> bufs, pc |-> pc]
Interpreted == ref' = Interpret(ref)

-----------------------------------------------------------------------------
(* Ordinary compiled code: what it does not handle, the interpreter runs. *)
Operand(field) == IF IsConstant(field) THEN Const(Constant(f, field)) ELSE Reg(frame[field])
On(amd64, arm64) == IF processor = "amd64" THEN amd64 ELSE arm64
CompiledHere == Compiled(processor, f.code[pc], Operand(f.code[pc].b), Operand(f.code[pc].c), LoopRegisters(frame))
Finish(i, v) ==
  CASE v = Exit -> Interpret(Machine)
    [] v # Exit /\ i.op \in Tests -> Jump(Machine, v.n = 1)
    [] v # Exit /\ i.op \in {"forprep", "forloop"} -> Steps(Machine, v, Start(f, Latch))
    [] OTHER -> Store(Machine, i.a, v)
Become(m) == frame' = m.frame /\ bufs' = m.bufs /\ pc' = m.pc

\* A function that is not the intrinsic may assign the upvalue.
Step ==
  /\ Running /\ Ordinary
  /\ Become(Finish(f.code[pc], CompiledHere))
  /\ Interpreted
  /\ \/ upvalue' = upvalue
     \/ f.code[pc].op = "call" /\ frame[f.code[pc].a] = Callee /\ upvalue' \in f.upvalues
  /\ UNCHANGED <<program, processor, plans, kernel, regs>>

-----------------------------------------------------------------------------
(* Kernels. *)
Guarded(type) ==
  LET plan == plans[type]
  IN  /\ plan.planned
      /\ plan.guarded => upvalue = Intrinsic
      /\ \A r \in DOMAIN plan.buffers :
            IsBuffer(frame[r]) /\ (plan.buffers[r] => bufs[frame[r].n].kind \in {"float64", "float32"})
      /\ \A r \in plan.liveIn : frame[r].type = plan.types[r]
\* The kernel's own loop registers, stepped.
Advanced(slots, step) ==
  IF step = Skip THEN Skip
  ELSE Enter([s \in DOMAIN slots |-> IF s \in {<<Base + k - 1, step.r[k].type>> : k \in 1 .. 4}
                                     THEN step.r[s[1] - Base + 1] ELSE slots[s]])
Stepped(type, slots) ==
  LET own == [k \in 1 .. 4 |-> slots[<<Base + k - 1, type>>]]
  IN  Advanced(slots, On(X!KernelStep(type = "integer", own), A!KernelStep(type = "integer", own)))
\* At the FORLOOP, an integer loop's kernel first; none while the write
\* barrier is on, which Step stands for. Nothing has changed if the loop
\* does not run.
EnterKernel(type) ==
  LET plan == plans[type]
      loaded == [s \in plan.slots |-> IF s[1] \in plan.liveIn /\ plan.types[s[1]] = s[2] THEN frame[s[1]] ELSE Nil]
  IN  /\ Ordinary /\ pc = Latch /\ Guarded(type)
      /\ type = "float" => ~Guarded("integer")
      /\ \E step \in {Stepped(type, loaded)} :
           IF step = Skip THEN kernel' = "none" /\ regs' = regs /\ pc' = Done
           ELSE kernel' = type /\ regs' = step.r /\ pc' = Start(f, Latch)
      /\ ref' = InterpretLoop(ref)
      /\ UNCHANGED <<program, processor, plans, frame, bufs, upvalue>>

In(field) == IF IsConstant(field) THEN Constant(f, field) ELSE regs[<<field, Plan.at[pc][field]>>]
\* What the instruction at pc leaves: a value, a buffer, whether a test
\* jumps, or Exit.
KernelResult ==
  LET i == f.code[pc]
      int == Result(f, i, Plan.at[pc]) = "integer"
  IN  CASE i.op \in {"move", "loadk"} -> In(i.b)
        [] i.op \in {"add", "sub", "mul", "div"} ->
             On(X!KernelArith(i.op, int, In(i.b), In(i.c)), A!KernelArith(i.op, int, In(i.b), In(i.c)))
        [] i.op \in {"mod", "idiv"} -> On(X!KernelDivide(i.op, In(i.b).n, In(i.c).n), A!KernelDivide(i.op, In(i.b).n, In(i.c).n))
        [] i.op = "unm" -> On(X!KernelMinus(In(i.b)), A!KernelMinus(In(i.b)))
        [] i.op \in Tests ->
             Taken(On(X!KernelCompare(i.op, i.a = 1, In(i.b), In(i.c)), A!KernelCompare(i.op, i.a = 1, In(i.b), In(i.c))))
        [] i.op = "call" -> IF LeftToGo(In(i.a + 1)) THEN Exit ELSE Apply(In(i.a + 1))
        [] i.op = "gettable" -> On(X!KernelGetBuffer(bufs[frame[i.b].n], In(i.c).n), A!KernelGetBuffer(bufs[frame[i.b].n], In(i.c).n))
        [] i.op = "settable" -> On(X!KernelSetBuffer(bufs[frame[i.a].n], In(i.b).n, In(i.c)),
                                   A!KernelSetBuffer(bufs[frame[i.a].n], In(i.b).n, In(i.c)))
        [] OTHER -> Nil    \* JMP, and the GETUPVAL whose function was checked on entry
\* The registers the loop writes go back to the frame, those with a type.
Flush(slots, types) ==
  [r \in DOMAIN frame |-> IF r \in Plan.written \cap DOMAIN types THEN slots[<<r, types[r]>>] ELSE frame[r]]
LeaveTo(at) == kernel' = "none" /\ regs' = <<>> /\ pc' = at /\ UNCHANGED <<program, processor, plans, bufs, upvalue>>
\* The ordinary code runs the instruction, and the rest of the iteration. A
\* CALL finds its function in its register again.
SideExit(i) ==
  /\ LET flushed == Flush(regs, Plan.at[pc])
     IN  frame' = IF i.op = "call" THEN [flushed EXCEPT ![i.a] = upvalue] ELSE flushed
  /\ LeaveTo(pc)
  /\ ref' = ref

Computed(i, result) ==
  /\ regs' = IF Writes(i) = {} THEN regs ELSE [regs EXCEPT ![<<i.a, Result(f, i, Plan.at[pc])>>] = result]
  /\ bufs' = IF i.op = "settable" THEN [bufs EXCEPT ![frame[i.a].n] = result] ELSE bufs
  /\ pc' = CASE i.op \in Tests -> (IF result.n = 1 THEN KernelJump(f, pc, Latch) ELSE pc + 2)
             [] i.op = "jmp" -> i.to
             [] OTHER -> pc + 1
  /\ Interpreted
  /\ UNCHANGED <<program, processor, plans, frame, upvalue, kernel>>
KernelInstruction ==
  /\ ~Ordinary /\ pc # Latch
  /\ \E result \in {KernelResult} :
       \/ result # Exit /\ Computed(f.code[pc], result)
       \/ result = Exit /\ SideExit(f.code[pc])

\* The kernel's FORLOOP: another iteration, the end, or no budget left.
KernelLatch ==
  /\ ~Ordinary /\ pc = Latch
  /\ ref' = InterpretLoop(ref)
  /\ \E step \in {Stepped(kernel, regs)} :
       \/ step = Skip /\ frame' = Flush(regs, Plan.at[Latch]) /\ LeaveTo(Done)
       \/ /\ step # Skip /\ regs' = step.r /\ pc' = Start(f, Latch)
          /\ UNCHANGED <<program, processor, plans, frame, bufs, upvalue, kernel>>
       \/ step # Skip /\ frame' = Flush(step.r, Plan.at[Latch]) /\ LeaveTo(Start(f, Latch))

-----------------------------------------------------------------------------
Init ==
  /\ program \in DOMAIN Programs /\ processor \in Processors
  /\ plans = Plans[processor][program]
  /\ frame \in f.frames /\ upvalue \in f.upvalues
  /\ bufs = Buffers
  /\ kernel = "none" /\ regs = <<>> /\ pc = 1
  /\ ref = Machine
Stop == ~Running /\ UNCHANGED vars
Next == Step \/ (\E type \in {"integer", "float"} : EnterKernel(type)) \/ KernelInstruction \/ KernelLatch \/ Stop
Spec == Init /\ [][Next]_vars

-----------------------------------------------------------------------------
\* A machine register holds numbers of the type it is for, and a kernel has
\* no more of either type than the processor.
TypeOK ==
  /\ DOMAIN frame = DOMAIN ref.frame /\ DOMAIN bufs = DOMAIN ref.bufs
  /\ Ordinary => regs = <<>>
  /\ ~Ordinary => /\ \A s \in DOMAIN regs : regs[s] = Nil \/ regs[s].type = s[2]
                  /\ Cardinality({s \in DOMAIN regs : s[2] = "float"}) <= MaxFloats[processor]
                  /\ Cardinality({s \in DOMAIN regs : s[2] = "integer"}) <= MaxInts[processor]

\* A register whose GETUPVAL emitted nothing, until its CALL.
Virtual(r) ==
  \E g \in Start(f, Latch) .. pc - 1 :
     f.code[g].op = "getupval" /\ f.code[g].a = r /\ pc <= IntrinsicCall(f, g, Latch)
\* In a kernel every register planning gives a type at the pc has the value
\* the interpreter has computed there, and buffers are stored to as the
\* interpreter stores (jit_kernel.go: each register lives in a machine
\* register for the whole loop).
KernelAgrees ==
  ~Ordinary =>
    /\ pc = ref.pc /\ bufs = ref.bufs
    /\ \A r \in DOMAIN Plan.at[pc] : ~Virtual(r) => regs[<<r, Plan.at[pc][r]>>] = ref.frame[r]

\* The registers something may read at a pc before it writes them.
Uses(i) ==
  Registers(i) \cup (IF i.op \in {"call", "settable"} THEN {i.a} ELSE {}) \cup (IF i.op = "gettable" THEN {i.b} ELSE {})
LiveAt ==
  LET live[ip \in Start(f, Latch) .. Latch] ==
        IF ip = Latch THEN {}
        ELSE Uses(f.code[ip])
             \cup (UNION {live[to] : to \in Successors(f, ip, Latch)}
                   \ (Writes(f.code[ip]) \cup (IF f.code[ip].op = "getupval" THEN {f.code[ip].a} ELSE {})))
  IN  IF pc \in DOMAIN live THEN live[pc] ELSE {}
\* Outside kernels, at the loop's end and where an error is raised too, the
\* frame has the interpreter's values in the loop's registers, in every
\* local of the enclosing function, and in the temporaries still to be read:
\* what a kernel had in machine registers is back (kernelSideExit, flush).
FrameAgrees ==
  Ordinary =>
    /\ pc = ref.pc /\ bufs = ref.bufs
    /\ \A r \in 1 .. Base - 1 \cup (IF Running THEN Base .. Base + 3 ELSE {}) \cup LiveAt : frame[r] = ref.frame[r]
=============================================================================
