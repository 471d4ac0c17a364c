------------------------------ MODULE Numbers ------------------------------
(* Lua's numbers as the interpreter computes with them, at a small width: *)
(* integers of Width bits, which wrap around, and floats of Precision      *)
(* bits, which round. A float is held in halves: 3 is 1.5. Precision is    *)
(* small enough that most integers have no float, as above 2^53. A zero    *)
(* has no sign.                                                            *)
EXTENDS Integers, Sequences, FiniteSetsExt

CONSTANTS Width, Precision, MaxExponent

MinInt == -(2 ^ (Width - 1))
MaxInt == 2 ^ (Width - 1) - 1
Ints == MinInt .. MaxInt
Wrap(n) == ((n - MinInt) % 2 ^ Width) + MinInt
Unsigned(n) == n % 2 ^ Width

Integer(n) == [type |-> "integer", class |-> "finite", n |-> n]
Float(h) == [type |-> "float", class |-> "finite", n |-> h]
Inf == [type |-> "float", class |-> "inf", n |-> 1]
NegInf == [type |-> "float", class |-> "inf", n |-> -1]
NaN == [type |-> "float", class |-> "nan", n |-> 0]
Nil == [type |-> "nil", class |-> "finite", n |-> 0]
Error(what) == [type |-> "error", class |-> what, n |-> 0]
IsInt(v) == v.type = "integer"
IsFloat(v) == v.type = "float"
IsNumber(v) == v.type \in {"integer", "float"}
IsFinite(f) == f.class = "finite"

\* The float of some bits nearest to p / q halves, to even when two are.
RoundedTo(bits, p, q) ==
  LET a == IF p < 0 THEN -p ELSE p
      Fits(e) == a < 2 ^ bits * q * 2 ^ e
      Nearest(d) == LET m == a \div d  rest == 2 * (a % d)
                    IN  IF rest > d \/ (rest = d /\ m % 2 = 1) THEN m + 1 ELSE m
      infinite == IF p < 0 THEN NegInf ELSE Inf
  IN  IF ~Fits(MaxExponent) THEN infinite
      ELSE LET e == Min({x \in 0 .. MaxExponent : Fits(x)})
               h == Nearest(q * 2 ^ e) * 2 ^ e
           IN  IF h >= 2 ^ (bits + MaxExponent) THEN infinite
               ELSE Float(IF p < 0 THEN -h ELSE h)
Rounded(p, q) == RoundedTo(Precision, p, q)

FiniteFloats ==
  {Float(s * m * 2 ^ e) : s \in {-1, 1}, m \in 0 .. 2 ^ Precision - 1, e \in 0 .. MaxExponent}
Floats == FiniteFloats \cup {Inf, NegInf, NaN}
Numbers == {Integer(n) : n \in Ints} \cup Floats

\* Go's / and %, toward zero.
Quotient(a, b) ==
  LET Abs(x) == IF x < 0 THEN -x ELSE x
      q == Abs(a) \div Abs(b)
  IN  IF (a < 0) = (b < 0) THEN q ELSE -q
Remainder(a, b) == a - b * Quotient(a, b)

ToFloat(v) == IF IsInt(v) THEN Rounded(2 * v.n, 1) ELSE v
\* An integer, or Nil.
FloatToInteger(f) ==
  IF IsFinite(f) /\ f.n >= 2 * MinInt /\ f.n < 2 * (MaxInt + 1) /\ f.n % 2 = 0
  THEN Integer(f.n \div 2) ELSE Nil
ToInteger(v) == IF IsInt(v) THEN v ELSE FloatToInteger(v)

-----------------------------------------------------------------------------
(* Floats. *)
Sign(f) == IF f.n > 0 THEN 1 ELSE IF f.n < 0 THEN -1 ELSE 0
Infinite(sign) == IF sign = 0 THEN NaN ELSE IF sign > 0 THEN Inf ELSE NegInf
IsNaN(f) == f.class = "nan"
IsInf(f) == f.class = "inf"
Negated(f) == [f EXCEPT !.n = -@]

FloatAdd(a, b) ==
  IF IsNaN(a) \/ IsNaN(b) THEN NaN
  ELSE IF IsInf(a) /\ IsInf(b) THEN IF a = b THEN a ELSE NaN
  ELSE IF IsInf(a) THEN a
  ELSE IF IsInf(b) THEN b
  ELSE Rounded(a.n + b.n, 1)
FloatMul(a, b) ==
  IF IsNaN(a) \/ IsNaN(b) THEN NaN
  ELSE IF IsInf(a) \/ IsInf(b) THEN Infinite(Sign(a) * Sign(b))
  ELSE Rounded(a.n * b.n, 2)
FloatDiv(a, b) ==
  IF IsNaN(a) \/ IsNaN(b) \/ (IsInf(a) /\ IsInf(b)) THEN NaN
  ELSE IF IsInf(a) THEN Infinite(IF b.n < 0 THEN -Sign(a) ELSE Sign(a))
  ELSE IF IsInf(b) THEN Float(0)
  ELSE IF b.n = 0 THEN Infinite(Sign(a))
  ELSE Rounded(2 * a.n * Sign(b), b.n * Sign(b))
Floor(f) == IF IsFinite(f) THEN Float(2 * (f.n \div 2)) ELSE f
Ceil(f) == Negated(Floor(Negated(f)))
\* C's fmod, which is exact.
Fmod(a, b) ==
  IF IsNaN(a) \/ IsNaN(b) \/ IsInf(a) \/ b.n = 0 THEN NaN
  ELSE IF IsInf(b) THEN a
  ELSE Float(Remainder(a.n, b.n))
FloatMod(a, b) ==
  LET m == Fmod(a, b)
  IN  IF (m.n > 0 /\ b.n < 0) \/ (m.n < 0 /\ b # m /\ b.n > 0) THEN FloatAdd(m, b) ELSE m

FloatArith(op, a, b) ==
  CASE op = "add" -> FloatAdd(a, b)
    [] op = "sub" -> FloatAdd(a, Negated(b))
    [] op = "mul" -> FloatMul(a, b)
    [] op = "div" -> FloatDiv(a, b)
    [] op = "mod" -> FloatMod(a, b)
    [] op = "idiv" -> Floor(FloatDiv(a, b))
    [] op = "unm" -> Negated(a)

\* NaN makes every comparison false.
Ordered(a, b) == ~IsNaN(a) /\ ~IsNaN(b)
Rank(f) == IF IsInf(f) THEN f.n * 2 ^ (Precision + MaxExponent) ELSE f.n
FloatLess(a, b) == Ordered(a, b) /\ Rank(a) < Rank(b)
FloatLessEqual(a, b) == Ordered(a, b) /\ Rank(a) <= Rank(b)
FloatEqual(a, b) == Ordered(a, b) /\ a = b

-----------------------------------------------------------------------------
(* Integers. *)
IntFloorDiv(a, b) ==
  IF b = -1 THEN Wrap(-a)
  ELSE IF Remainder(a, b) # 0 /\ (a < 0) # (b < 0) THEN Quotient(a, b) - 1
  ELSE Quotient(a, b)
IntMod(a, b) ==
  LET m == Remainder(a, b)
  IN  IF b = -1 THEN 0 ELSE IF m # 0 /\ (m < 0) # (b < 0) THEN m + b ELSE m

Bits(n) == {k \in 0 .. Width - 1 : (Unsigned(n) \div 2 ^ k) % 2 = 1}
FromBits(bits) == Wrap(MapThenSumSet(LAMBDA k : 2 ^ k, bits))
ShiftLeft(a, n) ==
  CASE n <= -Width \/ n >= Width -> 0
    [] n >= 0 /\ n < Width -> Wrap(Unsigned(a) * 2 ^ n)
    [] OTHER -> Wrap(Unsigned(a) \div 2 ^ (-n))
IntBitwise(op, a, b) ==
  CASE op = "band" -> FromBits(Bits(a) \cap Bits(b))
    [] op = "bor" -> FromBits(Bits(a) \cup Bits(b))
    [] op = "bxor" -> FromBits((Bits(a) \ Bits(b)) \cup (Bits(b) \ Bits(a)))
    [] op = "shl" -> ShiftLeft(a, b)
    [] op = "shr" -> ShiftLeft(a, Wrap(-b))
    [] op = "bnot" -> FromBits((0 .. Width - 1) \ Bits(a))
IntArith(op, a, b) ==
  CASE op = "add" -> Wrap(a + b)
    [] op = "sub" -> Wrap(a - b)
    [] op = "mul" -> Wrap(a * b)
    [] op = "idiv" -> IntFloorDiv(a, b)
    [] op = "mod" -> IntMod(a, b)
    [] op = "unm" -> Wrap(-a)

Bitwise == {"band", "bor", "bxor", "shl", "shr", "bnot"}
Arithmetic == {"add", "sub", "mul", "div", "mod", "idiv"}
Unary == {"unm", "bnot"}

-----------------------------------------------------------------------------
(* The operators on any two numbers, and their errors. *)
Arith(op, a, b) ==
  IF op \in Bitwise
  THEN LET x == ToInteger(a)  y == IF op = "bnot" THEN Integer(0) ELSE ToInteger(b)
       IN  IF Nil \in {x, y} THEN Error("no integer representation") ELSE Integer(IntBitwise(op, x.n, y.n))
  ELSE IF op # "div" /\ IsInt(a) /\ (IsInt(b) \/ op = "unm")
  THEN IF op \in {"idiv", "mod"} /\ b.n = 0
       THEN Error(IF op = "idiv" THEN "divide by zero" ELSE "n%0")
       ELSE Integer(IntArith(op, a.n, b.n))
  ELSE FloatArith(op, ToFloat(a), ToFloat(b))

\* A string's numeral: its sign, whether it is hexadecimal, its digits, and
\* whether a point or an exponent makes it a float.
Digits(numeral) ==
  LET base == IF numeral.hex THEN 16 ELSE 10
      value[k \in 0 .. Len(numeral.digits)] == IF k = 0 THEN 0 ELSE base * value[k - 1] + numeral.digits[k]
  IN  value[Len(numeral.digits)]
Numeral(numeral) ==
  LET n == Digits(numeral)
  IN  CASE numeral.digits = <<>> -> Nil
        [] numeral.float -> Rounded(2 * n, 1)
        [] ~numeral.float /\ numeral.hex -> Integer(Wrap(n))
        [] OTHER -> IF n > MaxInt THEN Rounded(2 * n, 1) ELSE Integer(n)
ParseNumber(numeral) ==
  LET v == Numeral(numeral)
  IN  CASE numeral.negative /\ ~numeral.hex /\ ~numeral.float /\ Digits(numeral) = -MinInt -> Integer(MinInt)
        [] v # Nil /\ numeral.negative /\ IsInt(v) -> Integer(Wrap(-v.n))
        [] v # Nil /\ numeral.negative /\ ~IsInt(v) -> Negated(v)
        [] OTHER -> v

-----------------------------------------------------------------------------
(* Comparisons, exact between an integer and a float. *)
FitsFloat(i) == -(2 ^ Precision) <= i /\ i <= 2 ^ Precision
MutantLessIntFloat(i, f) == FloatLess(ToFloat(Integer(i)), f)   \* mutant: every integer is rounded to a float
LessIntFloat(i, f) ==
  LET fi == FloatToInteger(Ceil(f))
  IN  IF FitsFloat(i) THEN FloatLess(ToFloat(Integer(i)), f)
      ELSE IF fi # Nil THEN i < fi.n ELSE FloatLess(Float(0), f)
LessOrEqualIntFloat(i, f) ==
  LET fi == FloatToInteger(Floor(f))
  IN  IF FitsFloat(i) THEN FloatLessEqual(ToFloat(Integer(i)), f)
      ELSE IF fi # Nil THEN i <= fi.n ELSE FloatLess(Float(0), f)
LessFloatInt(f, i) ==
  LET fi == FloatToInteger(Floor(f))
  IN  IF FitsFloat(i) THEN FloatLess(f, ToFloat(Integer(i)))
      ELSE IF fi # Nil THEN fi.n < i ELSE FloatLess(f, Float(0))
LessOrEqualFloatInt(f, i) ==
  LET fi == FloatToInteger(Ceil(f))
  IN  IF FitsFloat(i) THEN FloatLessEqual(f, ToFloat(Integer(i)))
      ELSE IF fi # Nil THEN fi.n <= i ELSE FloatLess(f, Float(0))
LessNumbers(a, b) ==
  CASE IsInt(a) /\ IsInt(b) -> a.n < b.n
    [] IsFloat(a) /\ IsFloat(b) -> FloatLess(a, b)
    [] IsInt(a) /\ IsFloat(b) -> LessIntFloat(a.n, b)
    [] IsFloat(a) /\ IsInt(b) -> LessFloatInt(a, b.n)
LessOrEqualNumbers(a, b) ==
  CASE IsInt(a) /\ IsInt(b) -> a.n <= b.n
    [] IsFloat(a) /\ IsFloat(b) -> FloatLessEqual(a, b)
    [] IsInt(a) /\ IsFloat(b) -> LessOrEqualIntFloat(a.n, b)
    [] IsFloat(a) /\ IsInt(b) -> LessOrEqualFloatInt(a, b.n)
FloatEqualsInteger(f, i) == FloatToInteger(f) = Integer(i)
EqualNumbers(a, b) ==
  CASE IsFloat(a) /\ IsFloat(b) -> FloatEqual(a, b)
    [] IsFloat(a) /\ IsInt(b) -> FloatEqualsInteger(a, b.n)
    [] IsInt(a) /\ IsFloat(b) -> FloatEqualsInteger(b, a.n)
    [] OTHER -> a = b

-----------------------------------------------------------------------------
(* The numeric for loop, on its registers: index, limit, step, variable. *)
Skip == [skip |-> TRUE, r |-> <<>>]
Enter(r) == [skip |-> FALSE, r |-> r]

ForLimit(init, limit, step) ==
  LET f == IF step < 0 THEN Ceil(limit) ELSE Floor(limit)
      clipped == IF FloatLess(Float(0), limit) THEN Integer(MaxInt) ELSE Integer(MinInt)
      none == IsFloat(limit) /\ FloatToInteger(f) = Nil /\ (step < 0) = (clipped.n > 0)
      last == IF IsInt(limit) THEN limit ELSE IF FloatToInteger(f) # Nil THEN FloatToInteger(f) ELSE clipped
  IN  [last |-> last.n,
       skip |-> none \/ (step > 0 /\ init > last.n) \/ (step <= 0 /\ init < last.n)]
ForPrep(r) ==
  LET init == r[1]  limit == r[2]  step == r[3]
      bound == ForLimit(init.n, limit, step.n)
      count == IF step.n > 0 THEN Unsigned(bound.last - init.n) \div step.n
               ELSE Unsigned(init.n - bound.last) \div (-(step.n + 1) + 1)
      fi == ToFloat(init)  fl == ToFloat(limit)  fs == ToFloat(step)
  IN  CASE IsInt(init) /\ IsInt(step) ->
             (IF step.n = 0 THEN Error("step is zero")
              ELSE IF bound.skip THEN Skip
              ELSE Enter(<<init, Integer(Wrap(count)), step, init>>))
        [] OTHER ->
             (IF fs = Float(0) THEN Error("step is zero")
              ELSE IF \/ FloatLess(Float(0), fs) /\ FloatLess(fl, fi)
                      \/ FloatLess(fs, Float(0)) /\ FloatLess(fi, fl)
              THEN Skip ELSE Enter(<<fi, fl, fs, fi>>))
ForLoop(r) ==
  LET next == FloatAdd(r[1], r[3])  int == Integer(Wrap(r[1].n + r[3].n))
  IN  CASE IsInt(r[3]) ->
             (IF r[2].n = 0 THEN Skip ELSE Enter(<<int, Integer(Wrap(Unsigned(r[2].n) - 1)), r[3], int>>))
        [] OTHER ->
             (IF \/ FloatLess(Float(0), r[3]) /\ FloatLessEqual(next, r[2])
                 \/ FloatLessEqual(r[3], Float(0)) /\ FloatLessEqual(r[2], next)
              THEN Enter(<<next, r[2], r[3], next>>) ELSE Skip)

-----------------------------------------------------------------------------
(* Buffers: userdata that hold floats of two precisions or integers of two *)
(* widths.                                                                  *)
Stored(kind, v) ==
  CASE kind = "float64" -> ToFloat(v)
    [] kind = "float32" -> (IF IsFinite(ToFloat(v)) THEN RoundedTo(Precision - 1, ToFloat(v).n, 1) ELSE ToFloat(v))
    [] kind = "int32" -> Integer(((v.n - (MinInt \div 2)) % 2 ^ (Width - 1)) + (MinInt \div 2))
    [] kind = "uint8" -> Integer(v.n % 2 ^ (Width - 2))
InBuffer(buf, key) == 0 <= key /\ key < Len(buf.data)
BufferAt(buf, key) ==
  LET k == ToInteger(key)
  IN  IF k = Nil \/ ~InBuffer(buf, k.n) THEN Nil ELSE buf.data[k.n + 1]
\* The buffer with an element stored, or an error.
PutBuffer(buf, key, v) ==
  LET k == ToInteger(key)
      x == IF buf.kind \in {"float64", "float32"} THEN v ELSE ToInteger(v)
  IN  IF k = Nil THEN Error("not an integer index")
      ELSE IF ~InBuffer(buf, k.n) THEN Error("out of range")
      ELSE IF ~IsNumber(v) THEN Error("not a number")
      ELSE IF x = Nil THEN Error("no integer representation")
      ELSE [buf EXCEPT !.data[k.n + 1] = Stored(buf.kind, x)]
=============================================================================
