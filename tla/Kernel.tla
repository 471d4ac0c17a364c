------------------------------- MODULE Kernel -------------------------------
(* Which innermost numeric loops compile as kernels, and with which types.  *)
(* A function is its code and the constants; an operand is a register, or   *)
(* a constant's index, negative. A jump has its target, and the latch is    *)
(* the FORLOOP.                                                             *)
EXTENDS Native, SequencesExt, Functions

CONSTANTS MaxFloats, MaxInts    \* machine registers of a class, by processor

Tests == {"eq", "lt", "le"}
Operators == {"add", "sub", "mul", "div", "mod", "idiv"}
IsConstant(field) == field < 0
Constant(f, field) == f.constants[-field]
ConstKind(v) == IF IsNumber(v) THEN v.type ELSE "any"

\* Where the jump at ip, or after the test at ip, goes: forward, closing
\* nothing, in the body or to the latch. Zero otherwise.
KernelJump(f, ip, latch) ==
  LET j == IF f.code[ip].op \in Tests THEN f.code[ip + 1] ELSE f.code[ip]
      at == IF f.code[ip].op \in Tests THEN ip + 1 ELSE ip
  IN  IF j.op = "jmp" /\ j.a = 0 /\ j.to > at /\ j.to <= latch THEN j.to ELSE 0

\* The pcs of a body's instructions, without the JMPs that tests consume.
Start(f, latch) == f.code[latch].to
Body(f, latch) ==
  {ip \in Start(f, latch) .. latch - 1 :
     ~(ip > Start(f, latch) /\ f.code[ip].op = "jmp" /\ f.code[ip - 1].op \in Tests)}
Reads(i) ==
  CASE i.op \in {"move", "unm"} -> <<i.b>>
    [] i.op \in Operators \cup Tests -> <<i.b, i.c>>
    [] i.op = "call" -> <<i.a + 1>>
    [] i.op = "gettable" -> <<i.c>>
    [] i.op = "settable" -> <<i.b, i.c>>
    [] OTHER -> <<>>
Writes(i) == IF i.op \in {"move", "loadk", "unm", "call", "gettable"} \cup Operators THEN {i.a} ELSE {}

\* The CALL that a GETUPVAL feeds, when only arithmetic that leaves its
\* register alone lies between and no jump lands there. Zero otherwise.
IntrinsicCall(f, ip, latch) ==
  LET a == f.code[ip].a
      calls == {j \in ip + 1 .. latch - 1 : f.code[j].op = "call"}
      call == Min(calls)
      landed == {KernelJump(f, from, latch) : from \in Start(f, latch) .. latch - 1}
      Leaves(i) ==
        \/ i.op = "loadk" /\ i.a # a
        \/ i.op \in {"move", "unm"} \cup Operators /\ a \notin {i.a} \cup Range(Reads(i))
  IN  IF /\ calls # {}
         /\ f.code[call].a = a /\ f.code[call].b = 2 /\ f.code[call].c = 2
         /\ \A j \in ip + 1 .. call - 1 : Leaves(f.code[j])
         /\ landed \cap (ip + 1 .. call) = {}
      THEN call ELSE 0

KernelDivisor(v) == IsInt(v) /\ v.n # 0 /\ v.n \in -(2 ^ (ImmediateWidth - 1)) .. 2 ^ (ImmediateWidth - 1) - 1
\* Whether the body instruction at ip may be in a kernel.
Suits(f, ip, latch) ==
  LET i == f.code[ip]
  IN  /\ \A field \in Range(Reads(i)) \cup (IF i.op = "loadk" THEN {i.b} ELSE {}) :
            IsConstant(field) => IsNumber(Constant(f, field))
      /\ CASE i.op \in {"move", "loadk", "add", "sub", "mul", "div", "unm", "gettable", "settable"} -> TRUE
           [] i.op \in {"mod", "idiv"} -> IsConstant(i.c) /\ KernelDivisor(Constant(f, i.c))
           [] i.op \in Tests \cup {"jmp"} -> KernelJump(f, ip, latch) # 0
           [] i.op = "getupval" -> IntrinsicCall(f, ip, latch) # 0
           [] i.op = "call" -> \E g \in Body(f, latch) : f.code[g].op = "getupval" /\ IntrinsicCall(f, g, latch) = ip
           [] OTHER -> FALSE

-----------------------------------------------------------------------------
(* Types. A state gives the types of the registers defined at a pc. *)
Result(f, i, state) ==
  LET KindOf(field) == IF IsConstant(field) THEN ConstKind(Constant(f, field))
                       ELSE IF field \in DOMAIN state THEN state[field] ELSE "any"
  IN  CASE i.op \in {"move", "unm"} -> KindOf(i.b)
        [] i.op = "loadk" -> ConstKind(Constant(f, i.b))
        [] i.op \in {"add", "sub", "mul"} ->
             IF "float" \in {KindOf(i.b), KindOf(i.c)} THEN "float"
             ELSE IF {KindOf(i.b), KindOf(i.c)} = {"integer"} THEN "integer" ELSE "any"
        [] i.op \in {"div", "call", "gettable"} -> "float"
        [] i.op \in {"mod", "idiv"} -> IF KindOf(i.b) = "float" THEN "unfit" ELSE KindOf(i.b)

Conflict == [r \in {-1} |-> "conflict"]
\* Where paths meet, a register some path leaves undefined is undefined; two
\* types conflict; an undecided one takes the other path's.
MergeTypes(states) ==
  LET Merge(out, s) ==
        LET both == DOMAIN out \cap DOMAIN s
        IN  IF Conflict \in {out, s} \/ \E r \in both : "any" \notin {out[r], s[r]} /\ out[r] # s[r] THEN Conflict
            ELSE [r \in both |-> IF out[r] = "any" THEN s[r] ELSE out[r]]
  IN  IF states = <<>> THEN [r \in {} |-> "any"] ELSE FoldLeft(Merge, Head(states), Tail(states))

Override(fn, r, x) == [q \in DOMAIN fn \cup {r} |-> IF q = r THEN x ELSE fn[q]]
\* The state after the instruction at ip, and where control goes from it.
After(f, ip, state) ==
  LET i == f.code[ip]
      t == Result(f, i, state)
  IN  IF state = Conflict \/ Writes(i) = {} THEN state
      ELSE IF t = "unfit" THEN Conflict ELSE Override(state, i.a, t)
Successors(f, ip, latch) ==
  CASE f.code[ip].op \in Tests -> {KernelJump(f, ip, latch), ip + 2}
    [] f.code[ip].op = "jmp" -> {KernelJump(f, ip, latch)}
    [] OTHER -> {ip + 1}

\* The types before each pc of the body and at the latch, from those on
\* entry. Jumps only go forward.
Flow(f, latch, types) ==
  LET before[ip \in Start(f, latch) .. latch] ==
        LET from == {j \in Body(f, latch) : j < ip /\ ip \in Successors(f, j, latch)}
            entry == IF ip = Start(f, latch) THEN <<types>> ELSE <<>>
            paths == SetToSortSeq(from, <)
        IN  MergeTypes(entry \o [k \in 1 .. Len(paths) |-> After(f, paths[k], before[paths[k]])])
  IN  [ip \in DOMAIN before |-> before[ip]]

\* A register nothing decides is a float if arithmetic and comparisons meet
\* it with floats more often than with integers.
Guess(f, latch, at, r) ==
  LET Other(ip) == IF f.code[ip].b = r THEN f.code[ip].c ELSE f.code[ip].b
      meets == {ip \in Body(f, latch) : f.code[ip].op \in Tests \cup {"add", "sub", "mul", "div"}
                                          /\ r \in {f.code[ip].b, f.code[ip].c}}
      KindAt(ip) == IF IsConstant(Other(ip)) THEN ConstKind(Constant(f, Other(ip)))
                    ELSE IF Other(ip) \in DOMAIN at[ip] THEN at[ip][Other(ip)] ELSE "any"
      Count(kind) == Cardinality({ip \in meets : KindAt(ip) = kind})
  IN  IF Count("float") > Count("integer") THEN "float" ELSE "integer"

\* The live-in registers' types: what the body gives them at the end of an
\* iteration, or a guess, one at a time.
RECURSIVE InferTypes(_, _, _)
InferTypes(f, latch, types) ==
  LET at == Flow(f, latch, types)
      end == at[latch]
      undecided == {r \in DOMAIN types : types[r] = "any"}
      decided == {r \in undecided : r \in DOMAIN end /\ end[r] # "any"}
      r == Min(undecided)
  IN  IF \E ip \in DOMAIN at : at[ip] = Conflict THEN Conflict
      ELSE IF decided # {}
      THEN InferTypes(f, latch, [q \in DOMAIN types |-> IF q \in decided THEN end[q] ELSE types[q]])
      ELSE IF undecided # {} THEN InferTypes(f, latch, [types EXCEPT ![r] = Guess(f, latch, at, r)])
      ELSE types

AnyConstant(f, field) == IsConstant(field) /\ IsInt(Constant(f, field))    \* mutant: whatever its float
ExactConstant(f, field) == IsConstant(field) /\ IsInt(Constant(f, field)) /\ FitsFloat(Constant(f, field).n)
\* Whether every instruction can run on its operands' types, and every
\* register ends an iteration with the type it starts with.
CheckTypes(f, latch, types, at, written) ==
  LET KindAt(ip, field) == IF IsConstant(field) THEN ConstKind(Constant(f, field))
                           ELSE IF field \in DOMAIN at[ip] THEN at[ip][field] ELSE "any"
      end == at[latch]
      Fits(ip, i) ==
        CASE i.op \in Tests -> \/ KindAt(ip, i.b) = KindAt(ip, i.c)
                               \/ ExactConstant(f, i.b) \/ ExactConstant(f, i.c)
          [] i.op = "settable" -> KindAt(ip, i.b) = "integer"
          [] i.op = "gettable" -> KindAt(ip, i.c) = "integer"
          [] i.op \in {"jmp", "getupval"} -> TRUE
          [] OTHER -> Result(f, i, at[ip]) # "any"
  IN  /\ \A r \in written : r \in DOMAIN types => r \in DOMAIN end /\ end[r] = types[r]
      /\ \A ip \in Body(f, latch) :
           /\ \A field \in Range(Reads(f.code[ip])) : KindAt(ip, field) # "any"
           /\ Fits(ip, f.code[ip])

-----------------------------------------------------------------------------
(* The registers of a loop. *)
Ops(f, latch) == {f.code[ip] : ip \in Body(f, latch)}
Own(f, latch) == f.code[latch].a .. f.code[latch].a + 3
Registers(i) == {field \in Range(Reads(i)) : ~IsConstant(field)}
Wrote(f, latch) == UNION {Writes(i) : i \in Ops(f, latch)}
Used(f, latch) == Own(f, latch) \cup Wrote(f, latch) \cup UNION {Registers(i) : i \in Ops(f, latch)}
\* What the loop writes back. A float loop's limit stays.
Written(f, latch, intLoop) ==
  LET base == f.code[latch].a
  IN  Wrote(f, latch) \cup {base, base + 3} \cup (IF intLoop THEN {base + 1} ELSE {})
\* The registers indexed as buffers; TRUE for those it reads.
Buffered(f, latch) ==
  LET read == {i.b : i \in {x \in Ops(f, latch) : x.op = "gettable"}}
      stored == {i.a : i \in {x \in Ops(f, latch) : x.op = "settable"}}
  IN  [r \in read \cup stored |-> r \in read]
Calls(f, latch) == {ip \in Body(f, latch) : f.code[ip].op = "call"}
\* Whether a jump from before ip lands after it, so that a write at ip may
\* not happen.
Skipped(f, ip, latch) == \E j \in Start(f, latch) .. ip - 1 : KernelJump(f, j, latch) > ip
ReadFirst(f, latch) ==
  LET First(r) == Min({ip \in Body(f, latch) : r \in Registers(f.code[ip]) \cup Writes(f.code[ip])})
  IN  {r \in Used(f, latch) \ Own(f, latch) : r \in Registers(f.code[First(r)]) \/ Skipped(f, First(r), latch)}
NoneKept(f, latch) == {}    \* mutant: a conditional write is enough
\* A side exit leaves in the middle of an iteration, where an enclosing
\* local still has what the last one gave it.
Kept(f, latch) ==
  IF Calls(f, latch) # {} \/ DOMAIN Buffered(f, latch) # {}
  THEN {r \in Wrote(f, latch) : r < f.code[latch].a} ELSE {}
LiveIn(f, latch) ==
  ReadFirst(f, latch) \cup Kept(f, latch) \cup (f.code[latch].a .. f.code[latch].a + 2)
\* A buffer is in a register that holds no number and no table the function
\* makes.
BuffersSuit(f, latch) ==
  LET buffers == DOMAIN Buffered(f, latch)
  IN  /\ buffers \cap Used(f, latch) = {}
      /\ \A i \in Range(f.code) : i.op = "newtable" => i.a \notin buffers

-----------------------------------------------------------------------------
(* The plan. A machine register holds one register's value of one type. *)
NoKernel == [planned |-> FALSE]
Slots(f, latch, types, at) ==
  {<<r, types[r]>> : r \in DOMAIN types}
  \cup {<<f.code[ip].a, Result(f, f.code[ip], at[ip])>> : ip \in {x \in Body(f, latch) : Writes(f.code[x]) # {}}}
OneMore(slots, processor) ==    \* mutant: a slot too many
  /\ Cardinality({s \in slots : s[2] = "float"}) <= MaxFloats[processor]
  /\ Cardinality({s \in slots : s[2] = "integer"}) <= MaxInts[processor] + 1
Enough(slots, processor) ==
  /\ Cardinality({s \in slots : s[2] = "float"}) <= MaxFloats[processor]
  /\ Cardinality({s \in slots : s[2] = "integer"}) <= MaxInts[processor]
PlanKernel(f, latch, intLoop, processor) ==
  LET loopKind == IF intLoop THEN "integer" ELSE "float"
      written == Written(f, latch, intLoop)
      types == InferTypes(f, latch, [r \in LiveIn(f, latch) \cup Own(f, latch) |->
                                       IF r \in Own(f, latch) THEN loopKind ELSE "any"])
      at == Flow(f, latch, types)
      slots == Slots(f, latch, types, at)
      suits == Start(f, latch) <= latch /\ (\A ip \in Body(f, latch) : Suits(f, ip, latch)) /\ BuffersSuit(f, latch)
  IN  IF suits /\ types # Conflict /\ CheckTypes(f, latch, types, at, written) /\ Enough(slots, processor)
      THEN [planned |-> TRUE, types |-> types, liveIn |-> LiveIn(f, latch), written |-> written, at |-> at,
            slots |-> slots, guarded |-> Calls(f, latch) # {}, buffers |-> Buffered(f, latch)]
      ELSE NoKernel
=============================================================================
