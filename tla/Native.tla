------------------------------- MODULE Native -------------------------------
(* What the two compilers' code for numbers has in common: operands in a   *)
(* frame or among the constants, tests of their types, and integer         *)
(* division by a constant, which both do with a multiply.                   *)
EXTENDS Numbers

CONSTANT ImmediateWidth

\* The instruction is left to the interpreter.
Exit == [type |-> "exit", class |-> "finite", n |-> 0]
\* Whether the jump after a test is taken.
Taken(taken) == [type |-> "taken", class |-> "finite", n |-> IF taken THEN 1 ELSE 0]

Reg(v) == [v |-> v, const |-> FALSE]
Const(v) == [v |-> v, const |-> TRUE]
\* The number type of a constant operand; a register's is not known.
Kind(o) == IF o.const THEN o.v.type ELSE "any"
NotNumber(o) == o.const /\ ~IsNumber(o.v)
BranchUnlessInteger(o) == ~IsInt(o.v)
\* The integers whose float is exact, tested by one unsigned comparison.
InExactRange(n) == Unsigned(n + 2 ^ Precision) <= 2 ^ (Precision + 1)
LoadFloat(o, exact) ==
  CASE Kind(o) = "float" -> o.v
    [] Kind(o) = "integer" -> IF exact /\ ~FitsFloat(o.v.n) THEN Exit ELSE ToFloat(o.v)
    [] OTHER -> IF IsFloat(o.v) THEN o.v
                ELSE IF ~IsInt(o.v) \/ (exact /\ ~InExactRange(o.v.n)) THEN Exit ELSE ToFloat(o.v)
ArithFloats(op, x, y) ==
  CASE op = "add" -> FloatAdd(x, y)
    [] op = "sub" -> FloatAdd(x, Negated(y))
    [] op = "mul" -> FloatMul(x, y)
    [] op = "div" -> FloatDiv(x, y)
CompareInts(op, x, y) == CASE op = "eq" -> x = y [] op = "lt" -> x < y [] op = "le" -> x <= y

\* The multiplier and shift of a divisor: 2^p / |nc| and 2^p / |d| double
\* until the first passes what is left of the second.
MagicSigned(d) ==
  LET ad == IF d < 0 THEN -d ELSE d
      t == -MinInt + (IF d < 0 THEN 1 ELSE 0)
      anc == (t - 1) - (t % ad)
      Double(qr, by) == IF 2 * qr[2] >= by THEN <<2 * qr[1] + 1, 2 * qr[2] - by>> ELSE <<2 * qr[1], 2 * qr[2]>>
      Powers(by) ==
        LET f[p \in Width - 1 .. 2 * Width] ==
              IF p = Width - 1 THEN <<(-MinInt) \div by, (-MinInt) % by>> ELSE Double(f[p - 1], by)
        IN  f
      q1 == Powers(anc)
      q2 == Powers(ad)
      Done(p) == LET delta == ad - q2[p][2] IN q1[p][1] > delta \/ (q1[p][1] = delta /\ q1[p][2] # 0)
      p == Min({x \in Width .. 2 * Width : Done(x)})
      m == Wrap(q2[p][1] + 1)
  IN  [magic |-> IF d < 0 THEN Wrap(-m) ELSE m, shift |-> p - Width]
\* Zero, one, minus one and the least integer keep the divide instruction, as
\* do divisors that do not fit an immediate.
Planned(d) ==
  /\ d \notin {0, 1, -1, MinInt}
  /\ -(2 ^ (ImmediateWidth - 1)) <= d /\ d < 2 ^ (ImmediateWidth - 1)
PlanDivide(d) ==
  LET m == MagicSigned(d)
      logs == {k \in 1 .. Width - 2 : 2 ^ k = d}
  IN  IF logs # {}
      THEN [d |-> d, pow2 |-> TRUE, magic |-> 0, shift |-> Min(logs), addN |-> FALSE, subN |-> FALSE]
      ELSE [d |-> d, pow2 |-> FALSE, magic |-> m.magic, shift |-> m.shift,
            addN |-> d > 0 /\ m.magic < 0, subN |-> d < 0 /\ m.magic > 0]
\* The quotient toward zero, by the high half of a product, and the
\* remainder; one step toward minus infinity when their signs differ.
DivideByConstant(op, plan, n) ==
  LET hi == Wrap((n * plan.magic) \div 2 ^ Width)
      added == IF plan.addN THEN Wrap(hi + n) ELSE IF plan.subN THEN Wrap(hi - n) ELSE hi
      shifted == added \div 2 ^ plan.shift
      signed == IF plan.d > 0 THEN n ELSE shifted
      q == Wrap(shifted + (IF signed < 0 THEN 1 ELSE 0))
      r == Wrap(n - q * plan.d)
      floored == r = 0 \/ (r < 0) = (plan.d < 0)
  IN  IF plan.pow2
      THEN IF op = "mod" THEN FromBits(Bits(n) \cap Bits(plan.d - 1)) ELSE n \div 2 ^ plan.shift
      ELSE IF op = "mod" THEN (IF floored THEN r ELSE Wrap(r + plan.d))
      ELSE (IF floored THEN q ELSE Wrap(q - 1))

\* FORPREP of an integer loop: the count of iterations left, by an unsigned
\* division.
PrepInts(init, limit, step) ==
  IF (step > 0 /\ init > limit) \/ (step < 0 /\ init < limit) THEN Skip
  ELSE LET count == IF step > 0 THEN Unsigned(limit - init) \div step
                    ELSE Unsigned(init - limit) \div Unsigned(Wrap(-(step + 1)) + 1)
       IN  Enter(<<Integer(init), Integer(Wrap(count)), Integer(step), Integer(init)>>)
\* FORLOOP of an integer loop counts down.
StepInts(r) ==
  LET next == Integer(Wrap(r[1].n + r[3].n))
  IN  IF r[2].n = 0 THEN Skip ELSE Enter(<<next, Integer(Wrap(r[2].n - 1)), r[3], next>>)
=============================================================================
