------------------------------- MODULE Amd64 -------------------------------
(* What the code the amd64 compiler emits for numbers computes: first       *)
(* ordinary compiled instructions, which load a frame's values, test their  *)
(* types and may exit to the interpreter, then a loop kernel's, whose       *)
(* operands are machine registers of known types. A conditional jump reads  *)
(* the flags its comparison sets.                                           *)
EXTENDS Native

CONSTANT Sse41    \* whether the processor has ROUNDSD

Ucomisd(x, y) ==
  IF ~Ordered(x, y) THEN {"Z", "P", "C"}
  ELSE IF FloatLess(x, y) THEN {"C"} ELSE IF FloatEqual(x, y) THEN {"Z"} ELSE {}
Parity(flags) == "P" \in flags
IfEqual(flags) == "Z" \in flags
AboveOrEqual(flags) == "C" \notin flags
Above(flags) == AboveOrEqual(flags) /\ ~IfEqual(flags)
Compare(op, jump, x, y) ==
  CASE op = "eq" -> LET f == Ucomisd(x, y)
                    IN  IF jump THEN ~Parity(f) /\ IfEqual(f) ELSE Parity(f) \/ ~IfEqual(f)
    [] op = "lt" -> LET f == Ucomisd(y, x) IN IF jump THEN Above(f) ELSE ~Above(f)
    [] op = "le" -> LET f == Ucomisd(y, x) IN IF jump THEN AboveOrEqual(f) ELSE ~AboveOrEqual(f)

-----------------------------------------------------------------------------
(* Ordinary compiled instructions: a value, or Exit. *)
ArithOn(op, b, c) ==
  LET x == LoadFloat(b, FALSE)  y == LoadFloat(c, FALSE)
  IN  IF NotNumber(b) \/ NotNumber(c) THEN Exit
      ELSE IF op # "div" /\ ~BranchUnlessInteger(b) /\ ~BranchUnlessInteger(c)
      THEN Integer(IntArith(op, b.v.n, c.v.n))
      ELSE IF Exit \in {x, y} THEN Exit ELSE ArithFloats(op, x, y)
MutantIdiv(op, n, d) ==   \* mutant: no test for -1
  LET ax == Quotient(n, d)  dx == Remainder(n, d)
      exact == dx = 0 \/ (dx < 0) = (d < 0)
  IN  IF op = "mod" THEN (IF exact THEN dx ELSE dx + d) ELSE (IF exact THEN ax ELSE ax - 1)
\* IDIV, then one step toward minus infinity when the signs differ.
Idiv(op, n, d) ==
  LET ax == Quotient(n, d)  dx == Remainder(n, d)
      exact == dx = 0 \/ (dx < 0) = (d < 0)
  IN  IF d = -1 THEN (IF op = "mod" THEN 0 ELSE Wrap(-n))
      ELSE IF op = "mod" THEN (IF exact THEN dx ELSE dx + d)
      ELSE (IF exact THEN ax ELSE ax - 1)
Divide(op, b, c) ==
  LET floatsExit == op = "mod" \/ ~Sse41
      x == LoadFloat(b, FALSE)  y == LoadFloat(c, FALSE)
  IN  IF NotNumber(b) \/ NotNumber(c) THEN Exit
      ELSE IF BranchUnlessInteger(b) \/ BranchUnlessInteger(c)
      THEN IF floatsExit \/ Exit \in {x, y} THEN Exit ELSE Floor(FloatDiv(x, y))
      ELSE IF c.const /\ Planned(c.v.n) THEN Integer(DivideByConstant(op, PlanDivide(c.v.n), b.v.n))
      ELSE IF c.v.n = 0 THEN Exit ELSE Integer(Idiv(op, b.v.n, c.v.n))
\* A shift is left if the count is below Width, unsigned, right if its
\* negation is, and else gives 0. CL holds the count.
BitwiseOn(op, b, c) ==
  LET n == IF op = "shr" THEN Wrap(-c.v.n) ELSE c.v.n
      shifted == IF Unsigned(n) < Width THEN Wrap(Unsigned(b.v.n) * 2 ^ Unsigned(n))
                 ELSE IF Unsigned(-n) < Width THEN Wrap(Unsigned(b.v.n) \div 2 ^ Unsigned(-n)) ELSE 0
  IN  IF BranchUnlessInteger(b) \/ BranchUnlessInteger(c) THEN Exit
      ELSE Integer(IF op \in {"shl", "shr"} THEN shifted ELSE IntBitwise(op, b.v.n, c.v.n))
UnaryMinus(b) ==
  IF ~BranchUnlessInteger(b) THEN Integer(Wrap(-b.v.n))
  ELSE IF IsFloat(b.v) THEN Negated(b.v) ELSE Exit
Order(op, jump, b, c) ==
  LET x == LoadFloat(b, TRUE)  y == LoadFloat(c, TRUE)
  IN  IF NotNumber(b) \/ NotNumber(c) THEN Exit
      ELSE IF IsInt(b.v) /\ IsInt(c.v) THEN Taken(CompareInts(op, b.v.n, c.v.n) = jump)
      ELSE IF Exit \in {x, y} THEN Exit ELSE Taken(Compare(op, jump, x, y))
\* EQ on any values. One that is not a number has an identity; class is what
\* else the code reads of it.
Equal(jump, b, c) ==
  LET Result(equal) == Taken(equal = jump)
      number == {b.v.type, c.v.type} \cap {"integer", "float"}
  IN  IF IsFloat(b.v) /\ IsFloat(c.v) THEN Taken(Compare("eq", jump, b.v, c.v))
      ELSE IF number = {"integer", "float"} THEN Exit
      ELSE IF IsInt(b.v) /\ IsInt(c.v) THEN Result(b.v.n = c.v.n)
      ELSE IF number # {} \/ b.v.type # c.v.type THEN Result(FALSE)
      ELSE IF b.v.type = "string"
      THEN IF b.v.class # c.v.class THEN Result(FALSE)
           ELSE IF b.v.class = "long" THEN Exit ELSE Result(b.v.n = c.v.n)
      ELSE IF b.v.n = c.v.n THEN Result(TRUE)
      ELSE IF b.v.type = "userdata" \/ (b.v.type = "table" /\ "mayHaveEq" \in {b.v.class, c.v.class}) THEN Exit
      ELSE Result(FALSE)

\* FORPREP: a limit that is not an integer, or a zero step, exits.
Prep(r) ==
  LET zero == Ucomisd(r[3], Float(0))
      positive == ~Parity(zero) /\ Above(zero)
      past == IF positive THEN Ucomisd(r[1], r[2]) ELSE Ucomisd(r[2], r[1])
  IN  IF IsInt(r[1]) /\ IsInt(r[3])
      THEN IF ~IsInt(r[2]) \/ r[3].n = 0 THEN Exit ELSE PrepInts(r[1].n, r[2].n, r[3].n)
      ELSE IF \E k \in 1 .. 3 : ~IsFloat(r[k]) THEN Exit
      ELSE IF ~Parity(zero) /\ IfEqual(zero) THEN Exit
      ELSE IF ~Parity(past) /\ Above(past) THEN Skip ELSE Enter(<<r[1], r[2], r[3], r[1]>>)
\* FORLOOP's test of a float loop, in ordinary code and in kernels.
ForStep(r) ==
  LET next == FloatAdd(r[1], r[3])
      zero == Ucomisd(r[3], Float(0))
      within == IF Above(zero) THEN Ucomisd(r[2], next) ELSE Ucomisd(next, r[2])
  IN  IF ~Parity(zero) /\ ~Parity(within) /\ AboveOrEqual(within) THEN Enter(<<next, r[2], r[3], next>>) ELSE Skip
Loop(r) ==
  IF IsInt(r[3]) THEN StepInts(r) ELSE IF IsFloat(r[3]) THEN ForStep(r) ELSE Exit

-----------------------------------------------------------------------------
(* A kernel's instructions, on registers whose types planning found. *)
KernelStep(intLoop, r) == IF intLoop THEN StepInts(r) ELSE ForStep(r)
KernelArith(op, int, b, c) ==
  IF int THEN Integer(IntArith(op, b.n, c.n)) ELSE ArithFloats(op, ToFloat(b), ToFloat(c))
\* By a nonzero constant.
KernelDivide(op, n, d) ==
  LET ax == Quotient(n, d)  dx == Remainder(n, d)
      adjusted == dx = 0 \/ (IF d > 0 THEN dx >= 0 ELSE dx < 0)
  IN  Integer(IF d = -1 THEN (IF op = "mod" THEN 0 ELSE Wrap(-n))
              ELSE IF Planned(d) THEN DivideByConstant(op, PlanDivide(d), n)
              ELSE IF op = "mod" THEN (IF adjusted THEN dx ELSE Wrap(dx + d))
              ELSE (IF adjusted THEN ax ELSE Wrap(ax - 1)))
KernelMinus(b) == IF IsInt(b) THEN Integer(Wrap(-b.n)) ELSE Negated(b)
KernelCompare(op, jump, b, c) ==
  IF IsInt(b) /\ IsInt(c) THEN CompareInts(op, b.n, c.n) = jump
  ELSE Compare(op, jump, ToFloat(b), ToFloat(c))
\* Whether a key is outside a buffer, by an unsigned comparison.
Outside(buf, key) == Unsigned(key) >= Len(buf.data)
KernelGetBuffer(buf, key) == IF Outside(buf, key) THEN Exit ELSE buf.data[key + 1]
\* An integer buffer given a float leaves the kernel.
KernelSetBuffer(buf, key, v) ==
  IF Outside(buf, key) \/ (buf.kind \in {"int32", "uint8"} /\ ~IsInt(v)) THEN Exit
  ELSE [buf EXCEPT !.data[key + 1] = Stored(buf.kind, v)]
=============================================================================
