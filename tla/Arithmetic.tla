----------------------------- MODULE Arithmetic -----------------------------
(***************************************************************************)
(* The interpreter's instructions on numbers, as it runs them: specialised *)
(* when a function is loaded, a multiply and the add after it in one       *)
(* dispatch, with fast paths for two floats and two integers.  Beside it   *)
(* the same code runs instruction by instruction as Lua defines it, and at *)
(* every instruction the machine code of both compilers is compared.       *)
(* Operands have no metamethods, but for tables' __eq.                     *)
(***************************************************************************)
EXTENDS CompiledCode

CONSTANTS Programs,   \* [code, constants, frames]
          Numerals    \* what each string holds

\* What compiled functions are made of; registers count from 1, and a constant
\* has a negative field.
Instruction ==
  [op : Arithmetic \cup Bitwise \cup {"unm", "eq", "lt", "le", "jmp", "forprep", "forloop"},
   form : {"generic"}, a : Int, b : Int, c : Int, to : Int, skip : Int]
ASSUME ProgramsAssumption ==
  \A p \in Programs :
    /\ p.code \in Seq(Instruction)
    /\ \A k \in DOMAIN p.code : p.code[k].op = "mul" => \A fr \in p.frames : p.code[k].a \in DOMAIN fr

VARIABLES code, constants,
          exec,       \* the code the interpreter runs
          frame, pc,
          plain       \* the frame and pc of the code as Lua defines it
vars == <<code, constants, exec, frame, pc, plain>>

Raised == 0
IsConstant(field) == field < 0
Running == pc \in DOMAIN code

-----------------------------------------------------------------------------
(* specialise, when the function is loaded. *)
MutantForm(i) ==   \* mutant: a constant on the left is taken for one on the right
  CASE ~IsConstant(i.b) /\ ~IsConstant(i.c) -> [i EXCEPT !.form = "RR"]
    [] ~IsConstant(i.b) /\ IsConstant(i.c)  -> [i EXCEPT !.form = "RK", !.c = -@]
    [] IsConstant(i.b) /\ ~IsConstant(i.c)  -> [i EXCEPT !.form = "RK", !.b = i.c, !.c = -i.b]
    [] OTHER -> i
Form(i) ==
  CASE ~IsConstant(i.b) /\ ~IsConstant(i.c) -> [i EXCEPT !.form = "RR"]
    [] ~IsConstant(i.b) /\ IsConstant(i.c)  -> [i EXCEPT !.form = "RK", !.c = -@]
    [] IsConstant(i.b) /\ ~IsConstant(i.c)  -> [i EXCEPT !.form = "KR", !.b = -@]
    [] OTHER -> i
Fuses(i, next) == i.op = "mul" /\ i.form = "RK" /\ next.op = "add" /\ next.form = "RR" /\ next.b = i.a
FuseMulAdd(c) ==
  [k \in DOMAIN c |-> IF k < Len(c) /\ Fuses(c[k], c[k + 1]) THEN [c[k] EXCEPT !.op = "muladd"] ELSE c[k]]
Specialise(c) == FuseMulAdd([k \in DOMAIN c |-> IF c[k].op \in {"add", "sub", "mul", "div"} THEN Form(c[k]) ELSE c[k]])

-----------------------------------------------------------------------------
(* Operands, and State.arith. *)
RK(m, field) == IF IsConstant(field) THEN constants[-field] ELSE m.frame[field]
B(m, i) == IF i.form = "KR" THEN constants[i.b] ELSE IF i.form = "generic" THEN RK(m, i.b) ELSE m.frame[i.b]
C(m, i) == IF i.form = "RK" THEN constants[i.c] ELSE IF i.form = "generic" THEN RK(m, i.c) ELSE m.frame[i.c]

Numeric(v) == IF IsNumber(v) THEN v ELSE Nil
ToNumeric(v) == IF v.type = "string" THEN ParseNumber(Numerals[v.n]) ELSE Numeric(v)
Converted(op, v) == IF op \in Bitwise THEN Numeric(v) ELSE ToNumeric(v)
OnNumbers(op, x, y) == IF Nil \in {x, y} THEN Error("operand") ELSE Arith(op, x, y)
Mixed(b, c) == IsNumber(b) /\ IsNumber(c) /\ ~(IsInt(b) /\ IsInt(c))
Slow(op, b, c) ==
  IF Mixed(b, c) /\ op \notin Bitwise THEN FloatArith(op, ToFloat(b), ToFloat(c))
  ELSE OnNumbers(op, Converted(op, b), Converted(op, c))

Floats2(b, c) == IsFloat(b) /\ IsFloat(c)
Integers2(b, c) == IsInt(b) /\ IsInt(c)
Fast(op, b, c) ==
  CASE op \notin Bitwise /\ Floats2(b, c) -> FloatArith(op, b, c)
    [] op = "div" /\ ~Floats2(b, c) /\ IsNumber(b) /\ IsNumber(c) -> FloatDiv(ToFloat(b), ToFloat(c))
    [] op \in Bitwise /\ Integers2(b, c) -> Integer(IntBitwise(op, b.n, c.n))
    [] op \notin Bitwise \cup {"div"} /\ Integers2(b, c) /\ (op \in {"mod", "idiv"} => c.n # 0) -> Integer(IntArith(op, b.n, c.n))
    [] OTHER -> Slow(op, b, c)

\* An error stands for a metamethod's answer, and for the order of strings.
MayHaveEq(x, y) == x.type = "table" /\ y.type = "table" /\ x # y /\ "mayHaveEq" \in {x.class, y.class}
Holds(op, x, y) ==
  CASE op = "eq" -> (IF MayHaveEq(x, y) THEN Error("__eq")
                     ELSE Taken(IF IsNumber(x) /\ IsNumber(y) THEN EqualNumbers(x, y) ELSE x = y))
    [] op # "eq" /\ IsNumber(x) /\ IsNumber(y) -> Taken(IF op = "lt" THEN LessNumbers(x, y) ELSE LessOrEqualNumbers(x, y))
    [] OTHER -> Error("order")
FastHolds(op, x, y) ==
  CASE op \in {"lt", "le"} /\ Floats2(x, y) -> Taken(IF op = "lt" THEN FloatLess(x, y) ELSE FloatLessEqual(x, y))
    [] op \in {"lt", "le"} /\ Integers2(x, y) -> Taken(IF op = "lt" THEN x.n < y.n ELSE x.n <= y.n)
    [] OTHER -> Holds(op, x, y)

-----------------------------------------------------------------------------
(* A dispatch of the interpreter. *)
Goto(m, to) == [m EXCEPT !.pc = to]
Store(m, r, v) == IF v.type = "error" THEN Goto(m, Raised) ELSE [m EXCEPT !.frame[r] = v, !.pc = @ + 1]
Jump(m, i, taken) ==
  IF taken.type = "error" THEN Goto(m, Raised)
  ELSE Goto(m, IF (taken.n = 1) = (i.a = 1) THEN code[m.pc + 1].to ELSE m.pc + 2)
Own(m, i) == SubSeq(m.frame, i.a, i.a + 3)
\* FORPREP and FORLOOP, on the loop's four registers.
LoopTo(m, i, own, skip) ==
  IF "type" \in DOMAIN own THEN Goto(m, Raised) ELSE IF own = Skip THEN Goto(m, skip)
  ELSE [m EXCEPT !.frame = [r \in DOMAIN @ |-> IF r \in i.a .. i.a + 3 THEN own.r[r - i.a + 1] ELSE @[r]], !.pc = i.to]
MulAdd(m, i) ==
  LET b == B(m, i)
      c == C(m, i)
      next == exec[m.pc + 1]
      multiplied == Store(m, i.a, FloatMul(b, c))
      d == multiplied.frame[next.c]
  IN  IF ~Floats2(b, c) THEN Store(m, i.a, Slow("mul", b, c))
      ELSE IF IsFloat(d) THEN Store(multiplied, next.a, FloatAdd(multiplied.frame[i.a], d)) ELSE multiplied
Bound(v) == IF IsInt(v) THEN v ELSE ToFloat(ToNumeric(v))
ForPrepared(r) ==
  IF \E k \in 1 .. 3 : ToNumeric(r[k]) = Nil THEN Error("for")
  ELSE ForPrep(<<Bound(r[1]), ToNumeric(r[2]), Bound(r[3]), r[4]>>)
Dispatch(m, i) ==
  CASE i.op \in Arithmetic -> Store(m, i.a, Fast(i.op, B(m, i), C(m, i)))
    [] i.op \in Bitwise -> Store(m, i.a, Fast(i.op, B(m, i), IF i.op = "bnot" THEN B(m, i) ELSE C(m, i)))
    [] i.op = "unm" -> Store(m, i.a, Fast("unm", B(m, i), B(m, i)))
    [] i.op = "muladd" -> MulAdd(m, i)
    [] i.op \in {"eq", "lt", "le"} -> Jump(m, i, FastHolds(i.op, B(m, i), C(m, i)))
    [] i.op = "jmp" -> Goto(m, i.to)
    [] i.op = "forprep" -> LoopTo(m, i, ForPrepared(Own(m, i)), i.skip)
    [] i.op = "forloop" -> LoopTo(m, i, ForLoop(Own(m, i)), m.pc + 1)

(* The same code as Lua defines it. *)
Outcome(m, i) ==
  LET b == RK(m, i.b)
      c == IF i.op \in Unary THEN b ELSE RK(m, i.c)
  IN  CASE i.op \in Arithmetic \cup Bitwise \cup {"unm"} -> OnNumbers(i.op, Converted(i.op, b), Converted(i.op, c))
        [] i.op \in {"eq", "lt", "le"} -> Holds(i.op, b, c)
        [] i.op = "forprep" -> ForPrepared(Own(m, i))
        [] i.op = "forloop" -> ForLoop(Own(m, i))
Define(m) ==
  LET i == code[m.pc]
  IN  CASE i.op = "jmp" -> Goto(m, i.to)
        [] i.op \in {"eq", "lt", "le"} -> Jump(m, i, Outcome(m, i))
        [] i.op \in {"forprep", "forloop"} -> LoopTo(m, i, Outcome(m, i), IF i.op = "forprep" THEN i.skip ELSE m.pc + 1)
        [] OTHER -> Store(m, i.a, Outcome(m, i))

Init ==
  /\ \E program \in Programs :
       code = program.code /\ constants = program.constants /\ frame \in program.frames
  /\ exec = Specialise(code) /\ pc = 1
  /\ plain = [frame |-> frame, pc |-> 1]
Step ==
  /\ Running
  /\ \E m \in {Dispatch([frame |-> frame, pc |-> pc], exec[pc])} :
       /\ frame' = m.frame /\ pc' = m.pc
       /\ plain' = IF exec[pc].op = "muladd" /\ m.pc = pc + 2 THEN Define(Define(plain)) ELSE Define(plain)
  /\ UNCHANGED <<code, constants, exec>>
Stop == ~Running /\ UNCHANGED vars
Next == Step \/ Stop
Spec == Init /\ [][Next]_vars

-----------------------------------------------------------------------------
(* Properties. *)
\* The specialised code, its fast paths and its fused pairs leave the frame
\* and the pc that the code leaves as Lua defines it, instruction by
\* instruction (specialise, fuseMulAdd, State.arith).
SpecialisedAgrees == frame = plain.frame /\ pc = plain.pc

\* What the machine code both compilers emit for an instruction computes is
\* the interpreter's result, or it leaves the instruction to the
\* interpreter. A float loop whose step is NaN is left out: its FORPREP
\* differs.
Tests == {"eq", "lt", "le"}
Result(m, i) ==
  IF i.op \in Tests /\ Outcome(m, i).type = "taken" THEN Taken((Outcome(m, i).n = 1) = (i.a = 1)) ELSE Outcome(m, i)
CodeOf(field) == IF IsConstant(field) THEN Const(constants[-field]) ELSE Reg(frame[field])
CompiledAgrees ==
  Running /\ code[pc].op # "jmp" /\ (code[pc].op = "forprep" => Own(plain, code[pc])[3] # NaN) =>
    \E i \in {code[pc]} : \E own \in {IF i.op \in {"forprep", "forloop"} THEN Own(plain, i) ELSE <<>>} :
      \A processor \in {"amd64", "arm64"} :
        Compiled(processor, i, CodeOf(i.b), CodeOf(IF i.op \in Unary THEN i.b ELSE i.c), own) \in {Exit, Result(plain, i)}

\* A number's exact value in halves, an infinite one beyond every other.
Halves(v) == IF IsInt(v) THEN 2 * v.n ELSE Rank(v)
Below(op, x, y) ==
  /\ ~IsNaN(x) /\ ~IsNaN(y)
  /\ CASE op = "eq" -> Halves(x) = Halves(y)
       [] op = "lt" -> Halves(x) < Halves(y)
       [] op = "le" -> Halves(x) <= Halves(y)
FloorDivide(x, y) == IF y > 0 THEN x \div y ELSE (-x) \div (-y)
Modulo(x, y) == x - y * FloorDivide(x, y)
\* A shift by n to the left, of as many bits as there are.
ShiftBy(x, n) == Wrap(IF n >= 0 THEN Unsigned(x) * 2 ^ n ELSE Unsigned(x) \div 2 ^ (-n))
\* How many of index + step, index + 2 * step, ... are integers within limit.
Iterations(index, step, limit) ==
  Cardinality({k \in 1 .. 2 ^ Width : /\ index + k * step \in Ints
                                      /\ IF step > 0 THEN 2 * (index + k * step) <= Halves(limit)
                                         ELSE 2 * (index + k * step) >= Halves(limit)})
\* The interpreter's numbers are mathematical ones wherever Lua promises it:
\* comparisons of an integer and a float are exact, an integer division and
\* every modulo round toward minus infinity, shifts of any count are
\* logical, and a loop of integers visits each index within its limit once,
\* whatever the limit, and never wraps around (lessIntFloat, FloatMod,
\* IntFloorDiv, ShiftLeft, forLimit, forPrep). A NaN limit, which a loop
\* counting down takes for the least integer as C Lua's does, is left out.
NumbersExact ==
  Running =>
    \E i \in {code[pc]} : \E b \in {RK(plain, i.b)}, c \in {IF i.op \in Unary THEN RK(plain, i.b) ELSE RK(plain, i.c)} :
      /\ i.op \in Tests /\ IsNumber(b) /\ IsNumber(c) => Holds(i.op, b, c) = Taken(Below(i.op, b, c))
      /\ i.op \in {"idiv", "mod"} /\ Integers2(b, c) /\ c.n # 0 =>
           Outcome(plain, i) = Integer(Wrap(IF i.op = "mod" THEN Modulo(b.n, c.n) ELSE FloorDivide(b.n, c.n)))
      /\ i.op = "mod" /\ Mixed(b, c) =>
           LET x == ToFloat(b)
               y == ToFloat(c)
           IN  IsFinite(x) /\ IsFinite(y) /\ y.n # 0 => Outcome(plain, i) = Rounded(Modulo(x.n, y.n), 1)
      /\ i.op \in {"shl", "shr"} /\ IsNumber(b) /\ IsNumber(c) =>
           LET x == ToInteger(b)
               y == ToInteger(c)
           IN  Nil \notin {x, y} => Outcome(plain, i) = Integer(ShiftBy(x.n, IF i.op = "shl" THEN y.n ELSE -y.n))
      /\ i.op = "forprep" =>
           LET r == Own(plain, i)
           IN  IsInt(r[1]) /\ IsInt(r[3]) /\ r[3].n # 0 /\ IsNumber(r[2]) /\ r[2] # NaN =>
                 LET first == IF r[3].n > 0 THEN Halves(r[1]) <= Halves(r[2]) ELSE Halves(r[1]) >= Halves(r[2])
                     own == Outcome(plain, i)
                 IN  IF first THEN Unsigned(own.r[2].n) = Iterations(r[1].n, r[3].n, r[2]) ELSE own = Skip
=============================================================================
