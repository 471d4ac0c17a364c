------------------------------- MODULE Arm64 -------------------------------
(* What the code the arm64 compiler emits for numbers computes; see Amd64,  *)
(* whose operators these stand beside. The processor differs: its division  *)
(* does not trap, and a comparison sets four flags, of which an unordered   *)
(* one sets carry and overflow.                                             *)
EXTENDS Native

Fcmp(x, y) ==
  IF ~Ordered(x, y) THEN {"C", "V"}
  ELSE IF FloatLess(x, y) THEN {"N"} ELSE IF FloatEqual(x, y) THEN {"Z", "C"} ELSE {"C"}
Cmp(x, y) ==
  (IF x = y THEN {"Z"} ELSE {}) \cup (IF Wrap(x - y) < 0 THEN {"N"} ELSE {})
  \cup (IF Wrap(x - y) # x - y THEN {"V"} ELSE {}) \cup (IF Unsigned(x) >= Unsigned(y) THEN {"C"} ELSE {})
Holds(cond, flags) ==
  LET less == ("N" \in flags) # ("V" \in flags)
  IN  CASE cond = "EQ" -> "Z" \in flags
        [] cond = "NE" -> "Z" \notin flags
        [] cond = "MI" -> "N" \in flags
        [] cond = "PL" -> "N" \notin flags
        [] cond = "LS" -> "C" \notin flags \/ "Z" \in flags
        [] cond = "HI" -> "C" \in flags /\ "Z" \notin flags
        [] cond = "LT" -> less
        [] cond = "GE" -> ~less
        [] cond = "LE" -> less \/ "Z" \in flags
        [] cond = "GT" -> ~less /\ "Z" \notin flags
Negations ==
  {<<"EQ", "NE">>, <<"NE", "EQ">>, <<"MI", "PL">>, <<"PL", "MI">>, <<"LS", "HI">>,
   <<"HI", "LS">>, <<"LT", "GE">>, <<"GE", "LT">>, <<"LE", "GT">>, <<"GT", "LE">>}
Negate(cond) == (CHOOSE pair \in Negations : pair[1] = cond)[2]
When(op, int) ==
  CASE op = "eq" -> "EQ"
    [] op = "lt" -> IF int THEN "LT" ELSE "MI"
    [] op = "le" -> IF int THEN "LE" ELSE "LS"
Branch(op, jump, int, flags) == Holds(IF jump THEN When(op, int) ELSE Negate(When(op, int)), flags)

-----------------------------------------------------------------------------
(* Ordinary compiled instructions: a value, or Exit. *)
ArithOn(op, b, c) ==
  LET x == LoadFloat(b, FALSE)  y == LoadFloat(c, FALSE)
  IN  IF NotNumber(b) \/ NotNumber(c) THEN Exit
      ELSE IF op # "div" /\ ~BranchUnlessInteger(b) /\ ~BranchUnlessInteger(c)
      THEN Integer(IntArith(op, b.v.n, c.v.n))
      ELSE IF Exit \in {x, y} THEN Exit ELSE ArithFloats(op, x, y)
Sdiv(n, d) == Wrap(Quotient(n, d))
Msub(q, d, n) == Wrap(n - q * d)
Floored(op, n, d) ==
  LET q == Sdiv(n, d)  r == Msub(q, d, n)
      exact == r = 0 \/ (r < 0) = (d < 0)
  IN  IF op = "mod" THEN (IF exact THEN r ELSE Wrap(r + d)) ELSE (IF exact THEN q ELSE Wrap(q - 1))
Divide(op, b, c) ==
  LET x == LoadFloat(b, FALSE)  y == LoadFloat(c, FALSE)
      minusOne == IF op = "mod" THEN 0 ELSE Wrap(-b.v.n)
  IN  IF NotNumber(b) \/ NotNumber(c) THEN Exit
      ELSE IF BranchUnlessInteger(b) \/ BranchUnlessInteger(c)
      THEN IF op = "mod" \/ Exit \in {x, y} THEN Exit ELSE Floor(FloatDiv(x, y))
      ELSE IF c.const /\ Planned(c.v.n) THEN Integer(DivideByConstant(op, PlanDivide(c.v.n), b.v.n))
      ELSE IF c.v.n = 0 THEN Exit
      ELSE Integer(IF c.v.n = -1 THEN minusOne ELSE Floored(op, b.v.n, c.v.n))
BitwiseOn(op, b, c) ==
  LET n == IF op = "shr" THEN Wrap(-c.v.n) ELSE c.v.n
      shifted == CASE Unsigned(n) < Width -> Wrap(Unsigned(b.v.n) * 2 ^ Unsigned(n))
                   [] Unsigned(n) >= Width /\ Unsigned(-n) < Width -> Wrap(Unsigned(b.v.n) \div 2 ^ Unsigned(-n))
                   [] OTHER -> 0
  IN  IF BranchUnlessInteger(b) \/ BranchUnlessInteger(c) THEN Exit
      ELSE Integer(IF op \in {"shl", "shr"} THEN shifted ELSE IntBitwise(op, b.v.n, c.v.n))
UnaryMinus(b) ==
  IF ~BranchUnlessInteger(b) THEN Integer(Wrap(-b.v.n))
  ELSE IF IsFloat(b.v) THEN Negated(b.v) ELSE Exit
Order(op, jump, b, c) ==
  LET x == LoadFloat(b, TRUE)  y == LoadFloat(c, TRUE)
  IN  IF NotNumber(b) \/ NotNumber(c) THEN Exit
      ELSE IF IsInt(b.v) /\ IsInt(c.v) THEN Taken(Branch(op, jump, TRUE, Cmp(b.v.n, c.v.n)))
      ELSE IF Exit \in {x, y} THEN Exit ELSE Taken(Branch(op, jump, FALSE, Fcmp(x, y)))
Equal(jump, b, c) ==
  LET Result(equal) == Taken(equal = jump)
      number == {b.v.type, c.v.type} \cap {"integer", "float"}
  IN  IF IsFloat(b.v) /\ IsFloat(c.v) THEN Result(Holds("EQ", Fcmp(b.v, c.v)))
      ELSE IF number = {"integer", "float"} THEN Exit
      ELSE IF IsInt(b.v) /\ IsInt(c.v) THEN Result(b.v.n = c.v.n)
      ELSE IF number # {} \/ b.v.type # c.v.type THEN Result(FALSE)
      ELSE IF b.v.type = "string"
      THEN IF b.v.class # c.v.class THEN Result(FALSE)
           ELSE IF b.v.class = "long" THEN Exit ELSE Result(b.v.n = c.v.n)
      ELSE IF b.v.n = c.v.n THEN Result(TRUE)
      ELSE IF b.v.type = "userdata" \/ (b.v.type = "table" /\ "mayHaveEq" \in {b.v.class, c.v.class}) THEN Exit
      ELSE Result(FALSE)
Prep(r) ==
  LET zero == Fcmp(r[3], Float(0))
      past == IF Holds("GT", zero) THEN Fcmp(r[2], r[1]) ELSE Fcmp(r[1], r[2])
  IN  IF IsInt(r[1]) /\ IsInt(r[3])
      THEN IF ~IsInt(r[2]) \/ r[3].n = 0 THEN Exit ELSE PrepInts(r[1].n, r[2].n, r[3].n)
      ELSE IF (\E k \in 1 .. 3 : ~IsFloat(r[k])) \/ Holds("EQ", zero) THEN Exit
      ELSE IF Holds("MI", past) THEN Skip ELSE Enter(<<r[1], r[2], r[3], r[1]>>)
ForStep(r) ==
  LET next == FloatAdd(r[1], r[3])
      zero == Fcmp(r[3], Float(0))
      within == \/ Holds("GT", zero) /\ Holds("LS", Fcmp(next, r[2]))
                \/ Holds("LS", zero) /\ Holds("LS", Fcmp(r[2], next))
  IN  IF within THEN Enter(<<next, r[2], r[3], next>>) ELSE Skip
Loop(r) ==
  IF IsInt(r[3]) THEN StepInts(r) ELSE IF IsFloat(r[3]) THEN ForStep(r) ELSE Exit

-----------------------------------------------------------------------------
(* A kernel's instructions. *)
KernelStep(intLoop, r) == IF intLoop THEN StepInts(r) ELSE ForStep(r)
KernelArith(op, int, b, c) ==
  IF int THEN Integer(IntArith(op, b.n, c.n)) ELSE ArithFloats(op, ToFloat(b), ToFloat(c))
KernelDivide(op, n, d) ==
  LET q == Sdiv(n, d)  r == Msub(q, d, n)
      adjusted == r = 0 \/ (IF d > 0 THEN r >= 0 ELSE r < 0)
  IN  Integer(IF Planned(d) THEN DivideByConstant(op, PlanDivide(d), n)
              ELSE IF op = "mod" THEN (IF adjusted THEN r ELSE Wrap(r + d))
              ELSE (IF adjusted THEN q ELSE Wrap(q - 1)))
KernelMinus(b) == IF IsInt(b) THEN Integer(Wrap(-b.n)) ELSE Negated(b)
KernelCompare(op, jump, b, c) ==
  IF IsInt(b) /\ IsInt(c) THEN Branch(op, jump, TRUE, Cmp(b.n, c.n))
  ELSE Branch(op, jump, FALSE, Fcmp(ToFloat(b), ToFloat(c)))
Outside(buf, key) == Unsigned(key) >= Len(buf.data)
KernelGetBuffer(buf, key) == IF Outside(buf, key) THEN Exit ELSE buf.data[key + 1]
KernelSetBuffer(buf, key, v) ==
  IF Outside(buf, key) \/ (buf.kind \in {"int32", "uint8"} /\ ~IsInt(v)) THEN Exit
  ELSE [buf EXCEPT !.data[key + 1] = Stored(buf.kind, v)]
=============================================================================
