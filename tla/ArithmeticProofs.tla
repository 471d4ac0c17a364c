-------------------------- MODULE ArithmeticProofs --------------------------
(***************************************************************************)
(* Specialised code computes what the code it was made from defines, in    *)
(* any program and at any widths. The numbers themselves stay unopened:    *)
(* what counts is which operation is applied to which operands.            *)
(***************************************************************************)
EXTENDS Arithmetic, TLAPS

\* Sums and products of floats are floats, so neither is taken for an error.
LEMMA RoundedIsFloat == \A p, q : Rounded(p, q).type = "float"
BY DEF Rounded, RoundedTo, Float, Inf, NegInf

LEMMA SumIsFloat == ASSUME NEW x, NEW y, IsFloat(x), IsFloat(y) PROVE FloatAdd(x, y).type = "float"
BY RoundedIsFloat DEF FloatAdd, IsFloat, NaN, Inf

LEMMA ProductIsFloat == ASSUME NEW x, NEW y, IsFloat(x), IsFloat(y) PROVE FloatMul(x, y).type = "float"
BY RoundedIsFloat DEF FloatMul, Infinite, NaN, Inf, NegInf

LEMMA OnTwoNumbers ==
  ASSUME NEW op, NEW b, NEW c, IsNumber(b), IsNumber(c)
  PROVE  OnNumbers(op, Converted(op, b), Converted(op, c)) = Arith(op, b, c)
BY DEF OnNumbers, Converted, ToNumeric, Numeric, IsNumber, Nil

\* State.arith computes what an operator is on converted operands.
LEMMA SlowIsDefined ==
  ASSUME NEW op, NEW b, NEW c, op \in Unary => b = c
  PROVE  Slow(op, b, c) = OnNumbers(op, Converted(op, b), Converted(op, c))
<1>1. CASE Mixed(b, c) /\ op \notin Bitwise
  <2>1. ~(IsInt(b) /\ (IsInt(c) \/ op = "unm"))
    BY <1>1 DEF Mixed, Unary
  <2> QED
    BY <1>1, <2>1, OnTwoNumbers DEF Slow, Mixed, Arith
<1>2. CASE ~(Mixed(b, c) /\ op \notin Bitwise)
  BY <1>2 DEF Slow
<1> QED
  BY <1>1, <1>2

\* So do the fast paths.
LEMMA FastIsDefined ==
  ASSUME NEW op \in Arithmetic \cup Bitwise \cup {"unm"}, NEW b, NEW c, op \in Unary => b = c
  PROVE  Fast(op, b, c) = OnNumbers(op, Converted(op, b), Converted(op, c))
<1> USE DEF IsInt, IsFloat, IsNumber, Nil
<1>1. IsNumber(b) /\ IsNumber(c) => OnNumbers(op, Converted(op, b), Converted(op, c)) = Arith(op, b, c)
  BY OnTwoNumbers
<1>2. CASE op \notin Bitwise /\ Floats2(b, c)
  BY <1>1, <1>2 DEF Fast, Floats2, Integers2, Arith, ToFloat
<1>3. CASE op = "div" /\ ~Floats2(b, c) /\ IsNumber(b) /\ IsNumber(c)
  BY <1>1, <1>3 DEF Fast, Floats2, Arith, FloatArith, Bitwise
<1>4. CASE op \in Bitwise /\ Integers2(b, c)
  <2>1. ToInteger(b) = b /\ ToInteger(c) = c /\ Nil # Integer(0) /\ b # Nil /\ c # Nil
    BY <1>4 DEF Integers2, ToInteger, Integer
  <2>2. CASE op = "bnot"
    BY <1>1, <1>4, <2>1, <2>2 DEF Fast, Integers2, Floats2, Arith, IntBitwise, Bitwise
  <2>3. CASE op # "bnot"
    BY <1>1, <1>4, <2>1, <2>3 DEF Fast, Integers2, Floats2, Arith, Bitwise
  <2> QED
    BY <2>2, <2>3
<1>5. CASE /\ op \notin Bitwise \cup {"div"} /\ Integers2(b, c)
           /\ op \in {"mod", "idiv"} => c.n # 0
  BY <1>1, <1>5 DEF Fast, Integers2, Floats2, Arith
<1>6. Slow(op, b, c) = OnNumbers(op, Converted(op, b), Converted(op, c))
  BY SlowIsDefined
<1> QED
  BY <1>2, <1>3, <1>4, <1>5, <1>6 DEF Fast

\* So do those of comparisons.
LEMMA FastHoldsIsDefined ==
  ASSUME NEW op \in {"eq", "lt", "le"}, NEW b, NEW c
  PROVE  FastHolds(op, b, c) = Holds(op, b, c)
BY DEF FastHolds, Holds, Floats2, Integers2, IsInt, IsFloat, IsNumber, LessNumbers, LessOrEqualNumbers

-----------------------------------------------------------------------------
(* What specialise keeps of an instruction. *)
SameOperands(i, j) ==
  /\ j.a = i.a /\ j.to = i.to /\ j.skip = i.skip
  /\ \/ j.form = "generic" /\ j.b = i.b /\ j.c = i.c
     \/ j.form = "RR" /\ j.b = i.b /\ j.c = i.c /\ ~IsConstant(i.b) /\ ~IsConstant(i.c)
     \/ j.form = "RK" /\ j.b = i.b /\ j.c = -i.c /\ ~IsConstant(i.b) /\ IsConstant(i.c)
     \/ j.form = "KR" /\ j.b = -i.b /\ j.c = i.c /\ IsConstant(i.b) /\ ~IsConstant(i.c)

Fields == {"op", "form", "a", "b", "c", "to", "skip"}
LEMMA FormKeeps ==
  ASSUME NEW i \in Instruction
  PROVE  DOMAIN Form(i) = Fields /\ Form(i).op = i.op /\ SameOperands(i, Form(i))
BY DEF Form, SameOperands, Instruction, Fields

\* A fused pair is a multiply and an add that reads the product.
FusedAt(c, s, k) ==
  /\ c[k].op = "mul" /\ s[k].form = "RK"
  /\ k + 1 \in DOMAIN c /\ c[k + 1].op = "add"
  /\ s[k + 1].a = c[k + 1].a /\ s[k + 1].b = c[k].a
  /\ SameOperands(c[k + 1], s[k + 1]) /\ s[k + 1].form = "RR"

LEMMA SpecialiseKeeps ==
  ASSUME NEW c \in Seq(Instruction), NEW k \in DOMAIN c
  PROVE  /\ SameOperands(c[k], Specialise(c)[k])
         /\ \/ Specialise(c)[k].op = c[k].op /\ c[k].op # "muladd"
            \/ Specialise(c)[k].op = "muladd" /\ FusedAt(c, Specialise(c), k)
<1> DEFINE formed == [n \in DOMAIN c |-> IF c[n].op \in {"add", "sub", "mul", "div"} THEN Form(c[n]) ELSE c[n]]
<1>1. \A n \in DOMAIN c : c[n] \in Instruction
  OBVIOUS
<1>2. \A n \in DOMAIN c : DOMAIN formed[n] = Fields /\ formed[n].op = c[n].op /\ SameOperands(c[n], formed[n])
  <2> SUFFICES ASSUME NEW n \in DOMAIN c
               PROVE DOMAIN formed[n] = Fields /\ formed[n].op = c[n].op /\ SameOperands(c[n], formed[n])
    OBVIOUS
  <2>1. CASE c[n].op \in {"add", "sub", "mul", "div"}
    <3>1. formed[n] = Form(c[n])
      BY <2>1
    <3> QED
      BY ONLY <1>1, <3>1, FormKeeps, n \in DOMAIN c
  <2>2. CASE c[n].op \notin {"add", "sub", "mul", "div"}
    <3>1. formed[n] = c[n]
      BY <2>2
    <3>2. DOMAIN c[n] = Fields /\ c[n].form = "generic"
      BY <1>1 DEF Instruction, Fields
    <3> QED
      BY ONLY <3>1, <3>2 DEF SameOperands
  <2> QED
    BY ONLY <2>1, <2>2
<1>3. DOMAIN c = 1 .. Len(c) /\ Len(c) \in Nat /\ DOMAIN formed = 1 .. Len(c) /\ Len(formed) = Len(c)
  OBVIOUS
<1> HIDE DEF formed
<1>4. Specialise(c) = FuseMulAdd(formed)
  BY DEF Specialise, formed
<1>5. \A n \in DOMAIN c :
        FuseMulAdd(formed)[n] = IF n < Len(c) /\ Fuses(formed[n], formed[n + 1])
                                THEN [formed[n] EXCEPT !.op = "muladd"] ELSE formed[n]
  BY <1>3 DEF FuseMulAdd
<1>6. \A n \in DOMAIN c : c[n].op # "muladd"
  BY <1>1 DEF Instruction, Arithmetic, Bitwise
<1>7. CASE k < Len(c) /\ Fuses(formed[k], formed[k + 1])
  <2>1. k + 1 \in DOMAIN c /\ k + 1 # k
    BY <1>3, <1>7
  <2>2. Specialise(c)[k] = [formed[k] EXCEPT !.op = "muladd"]
    BY <1>4, <1>5, <1>7
  <2>3. Specialise(c)[k + 1] = formed[k + 1]
    BY <1>2, <1>4, <1>5, <1>7, <2>1 DEF Fuses
  <2>4. /\ Specialise(c)[k].op = "muladd" /\ Specialise(c)[k].form = "RK"
        /\ SameOperands(c[k], Specialise(c)[k])
    BY <1>2, <1>7, <2>2 DEF Fuses, SameOperands, Fields
  <2>5. SameOperands(c[k + 1], Specialise(c)[k + 1])
    BY <1>2, <2>1, <2>3
  <2>6. FusedAt(c, Specialise(c), k)
    BY <1>2, <1>7, <2>1, <2>3, <2>4, <2>5 DEF Fuses, FusedAt, SameOperands
  <2> QED
    BY <2>4, <2>6
<1>8. CASE ~(k < Len(c) /\ Fuses(formed[k], formed[k + 1]))
  BY <1>2, <1>4, <1>5, <1>6, <1>8
<1> QED
  BY <1>7, <1>8

LEMMA OperandsKept ==
  ASSUME NEW m, NEW i, NEW j, i.b \in Int, i.c \in Int, SameOperands(i, j)
  PROVE  B(m, j) = RK(m, i.b) /\ C(m, j) = RK(m, i.c)
BY DEF SameOperands, B, C, RK, IsConstant

-----------------------------------------------------------------------------
(* One dispatch. *)
Machine(m, D) == m = [x \in {"frame", "pc"} |-> m[x]] /\ DOMAIN m.frame = D

LEMMA GotoKeeps ==
  ASSUME NEW D, NEW m, Machine(m, D), NEW to
  PROVE  Machine(Goto(m, to), D)
BY DEF Machine, Goto

LEMMA StoreKeeps ==
  ASSUME NEW D, NEW m, Machine(m, D), NEW r, NEW v
  PROVE  Machine(Store(m, r, v), D)
<1> DEFINE held == [m.frame EXCEPT ![r] = v]
           next == m.pc + 1
<1>1. CASE v.type = "error"
  BY <1>1, GotoKeeps DEF Store
<1>2. CASE v.type # "error"
  <2>1. Store(m, r, v) = [m EXCEPT !.frame = held, !.pc = next]
    BY <1>2 DEF Store, Machine
  <2>2. DOMAIN held = D
    BY DEF Machine
  <2> HIDE DEF held, next
  <2> QED
    BY <2>1, <2>2 DEF Machine
<1> QED
  BY <1>1, <1>2

LEMMA StoreFloat ==
  ASSUME NEW D, NEW m, Machine(m, D), NEW r, NEW v, v.type = "float"
  PROVE  /\ Store(m, r, v).pc = m.pc + 1
         /\ r \in D => Store(m, r, v).frame[r] = v
         /\ \A q \in D : q # r => Store(m, r, v).frame[q] = m.frame[q]
BY DEF Machine, Store

LEMMA JumpKeeps ==
  ASSUME NEW D, NEW m, Machine(m, D), NEW i, NEW taken
  PROVE  Machine(Jump(m, i, taken), D)
BY GotoKeeps DEF Jump

LEMMA LoopToKeeps ==
  ASSUME NEW D, NEW m, Machine(m, D), NEW i, NEW own, NEW skip
  PROVE  Machine(LoopTo(m, i, own, skip), D)
<1> DEFINE held == [r \in D |-> IF r \in i.a .. i.a + 3 THEN own.r[r - i.a + 1] ELSE m.frame[r]]
<1>1. CASE "type" \in DOMAIN own \/ own = Skip
  BY <1>1, GotoKeeps DEF LoopTo
<1>2. CASE ~("type" \in DOMAIN own \/ own = Skip)
  <2>1. LoopTo(m, i, own, skip) = [m EXCEPT !.frame = held, !.pc = i.to]
    BY <1>2 DEF LoopTo, Machine
  <2>2. DOMAIN held = D
    OBVIOUS
  <2> HIDE DEF held
  <2> QED
    BY <2>1, <2>2 DEF Machine
<1> QED
  BY <1>1, <1>2

LEMMA DefineKeeps ==
  ASSUME NEW D, NEW m, Machine(m, D)
  PROVE  Machine(Define(m), D)
<1> DEFINE i == code[m.pc]
           skip == IF i.op = "forprep" THEN i.skip ELSE m.pc + 1
<1>1. /\ Machine(Goto(m, i.to), D) /\ Machine(Jump(m, i, Outcome(m, i)), D)
      /\ Machine(LoopTo(m, i, Outcome(m, i), skip), D) /\ Machine(Store(m, i.a, Outcome(m, i)), D)
  BY GotoKeeps, StoreKeeps, JumpKeeps, LoopToKeeps
<1> QED
  BY <1>1 DEF Define

\* What an instruction leaves as Lua defines it, by its operator.
LEMMA DefineIs ==
  ASSUME NEW m, NEW i \in Instruction, code[m.pc] = i
  PROVE  /\ i.op \in Arithmetic \cup Bitwise \cup {"unm"} =>
              LET b == RK(m, i.b)
                  c == IF i.op \in Unary THEN b ELSE RK(m, i.c)
              IN  Define(m) = Store(m, i.a, OnNumbers(i.op, Converted(i.op, b), Converted(i.op, c)))
         /\ i.op \in {"eq", "lt", "le"} => Define(m) = Jump(m, i, Holds(i.op, RK(m, i.b), RK(m, i.c)))
         /\ i.op = "jmp" => Define(m) = Goto(m, i.to)
         /\ i.op = "forprep" => Define(m) = LoopTo(m, i, ForPrepared(Own(m, i)), i.skip)
         /\ i.op = "forloop" => Define(m) = LoopTo(m, i, ForLoop(Own(m, i)), m.pc + 1)
<1>1. CASE i.op \in Arithmetic \cup Bitwise \cup {"unm"}
  <2>1. i.op \notin {"eq", "lt", "le", "jmp", "forprep", "forloop"}
    BY <1>1 DEF Arithmetic, Bitwise
  <2> QED
    BY <1>1, <2>1 DEF Define, Outcome
<1>2. CASE i.op \in {"eq", "lt", "le"}
  BY <1>2 DEF Define, Outcome, Arithmetic, Bitwise, Unary
<1>3. CASE i.op = "jmp"
  BY <1>3 DEF Define, Arithmetic, Bitwise
<1>4. CASE i.op = "forprep"
  BY <1>4 DEF Define, Outcome, Arithmetic, Bitwise
<1>5. CASE i.op = "forloop"
  BY <1>5 DEF Define, Outcome, Arithmetic, Bitwise
<1> QED
  BY <1>1, <1>2, <1>3, <1>4, <1>5 DEF Instruction

\* An instruction that is not fused does what it is defined to.
LEMMA DispatchIsDefined ==
  ASSUME NEW m, NEW i \in Instruction, code[m.pc] = i, NEW j, j.op = i.op, SameOperands(i, j)
  PROVE  Dispatch(m, j) = Define(m)
<1>1. B(m, j) = RK(m, i.b) /\ C(m, j) = RK(m, i.c)
  BY OperandsKept DEF Instruction
<1>2. j.a = i.a /\ j.to = i.to /\ j.skip = i.skip
  BY DEF SameOperands
<1>3. /\ Own(m, j) = Own(m, i)
      /\ \A taken : Jump(m, j, taken) = Jump(m, i, taken)
      /\ \A own, skip : LoopTo(m, j, own, skip) = LoopTo(m, i, own, skip)
  BY <1>2 DEF Own, Jump, LoopTo
<1>4. CASE i.op \in Arithmetic \cup Bitwise \cup {"unm"}
  <2> DEFINE b == RK(m, i.b)
             c == IF i.op \in Unary THEN b ELSE RK(m, i.c)
  <2>1. Define(m) = Store(m, i.a, OnNumbers(i.op, Converted(i.op, b), Converted(i.op, c)))
    BY <1>4, DefineIs
  <2>2. Fast(i.op, b, c) = OnNumbers(i.op, Converted(i.op, b), Converted(i.op, c))
    BY <1>4, FastIsDefined
  <2>3. Dispatch(m, j) = Store(m, i.a, Fast(i.op, b, c))
    BY <1>1, <1>2, <1>4 DEF Dispatch, Arithmetic, Bitwise, Unary
  <2> QED
    BY <2>1, <2>2, <2>3
<1>5. CASE i.op \in {"eq", "lt", "le"}
  <2>1. Dispatch(m, j) = Jump(m, j, FastHolds(i.op, B(m, j), C(m, j)))
    BY <1>5 DEF Dispatch, Arithmetic, Bitwise
  <2> QED
    BY <1>1, <1>3, <1>5, <2>1, DefineIs, FastHoldsIsDefined
<1>6. CASE i.op = "jmp"
  BY <1>2, <1>6, DefineIs DEF Dispatch, Arithmetic, Bitwise
<1>7. CASE i.op = "forprep"
  <2>1. Dispatch(m, j) = LoopTo(m, j, ForPrepared(Own(m, j)), j.skip)
    BY <1>7 DEF Dispatch, Arithmetic, Bitwise
  <2> QED
    BY <1>2, <1>3, <1>7, <2>1, DefineIs
<1>8. CASE i.op = "forloop"
  <2>1. Dispatch(m, j) = LoopTo(m, j, ForLoop(Own(m, j)), m.pc + 1)
    BY <1>8 DEF Dispatch, Arithmetic, Bitwise
  <2> QED
    BY <1>2, <1>3, <1>8, <2>1, DefineIs
<1> QED
  BY <1>4, <1>5, <1>6, <1>7, <1>8 DEF Instruction

\* A fused pair does what the multiply is defined to, or the multiply and then
\* the add; where it stops says which.
LEMMA MulAddIsDefined ==
  ASSUME NEW D, NEW m, Machine(m, D), code \in Seq(Instruction), exec = Specialise(code),
         m.pc \in DOMAIN code, code[m.pc].a \in D, exec[m.pc].op = "muladd"
  PROVE  \/ Dispatch(m, exec[m.pc]) = Define(m) /\ Define(m).pc # m.pc + 2
         \/ Dispatch(m, exec[m.pc]) = Define(Define(m)) /\ Define(Define(m)).pc = m.pc + 2
<1> DEFINE i == code[m.pc]
           j == exec[m.pc]
           add == code[m.pc + 1]
           next == exec[m.pc + 1]
           b == RK(m, i.b)
           c == RK(m, i.c)
           product == Store(m, i.a, FloatMul(b, c))
<1>1. i \in Instruction /\ SameOperands(i, j) /\ FusedAt(code, exec, m.pc) /\ m.pc \in Nat /\ m.pc # 0
  BY SpecialiseKeeps
<1>2. add \in Instruction /\ add.op = "add" /\ SameOperands(add, next) /\ next.b = i.a /\ i.op = "mul"
  BY <1>1 DEF FusedAt
<1>3. next.a = add.a /\ next.b = add.b /\ next.c = add.c /\ ~IsConstant(add.b) /\ ~IsConstant(add.c) /\ j.a = i.a
  BY <1>1, <1>2 DEF FusedAt, SameOperands
<1>4. B(m, j) = b /\ C(m, j) = c
  BY <1>1, OperandsKept DEF Instruction
<1>5. Dispatch(m, j) = MulAdd(m, j)
  BY DEF Dispatch, Arithmetic, Bitwise
<1>6. Define(m) = Store(m, i.a, OnNumbers("mul", Converted("mul", b), Converted("mul", c)))
  BY <1>1, <1>2, DefineIs DEF Arithmetic, Unary
<1>7. Slow("mul", b, c) = OnNumbers("mul", Converted("mul", b), Converted("mul", c))
  BY SlowIsDefined DEF Unary
<1>8. \A v : Store(m, i.a, v).pc \in {0, m.pc + 1}
  BY DEF Store, Goto, Raised, Machine
<1>9. CASE ~Floats2(b, c)
  <2>1. Dispatch(m, j) = Store(m, i.a, Slow("mul", b, c))
    BY <1>3, <1>4, <1>5, <1>9 DEF MulAdd
  <2> QED
    BY <1>1, <1>6, <1>7, <1>8, <2>1
<1>10. CASE Floats2(b, c)
  <2>1. FloatMul(b, c).type = "float"
    BY <1>10, ProductIsFloat DEF Floats2
  <2>2. OnNumbers("mul", Converted("mul", b), Converted("mul", c)) = FloatMul(b, c)
    <3>1. Fast("mul", b, c) = FloatMul(b, c)
      BY <1>10 DEF Fast, FloatArith, Bitwise, Floats2, Integers2, IsInt, IsFloat
    <3> QED
      BY <3>1, FastIsDefined DEF Arithmetic, Unary
  <2>3. Define(m) = product
    BY <1>6, <2>2
  <2>4. Machine(product, D) /\ product.pc = m.pc + 1 /\ product.frame[i.a] = FloatMul(b, c)
    BY <2>1, StoreKeeps, StoreFloat
  <2> DEFINE d == product.frame[next.c]
  <2> HIDE DEF product
  <2>5. CASE ~IsFloat(d)
    <3>1. Dispatch(m, j) = product
      BY <1>3, <1>4, <1>5, <1>10, <2>5 DEF MulAdd, product
    <3> QED
      BY <1>1, <2>3, <2>4, <3>1
  <2>6. CASE IsFloat(d)
    <3>1. Dispatch(m, j) = Store(product, add.a, FloatAdd(product.frame[i.a], d))
      BY <1>3, <1>4, <1>5, <1>10, <2>6 DEF MulAdd, product
    <3>2. RK(product, add.b) = product.frame[i.a] /\ RK(product, add.c) = d
      BY <1>2, <1>3 DEF RK
    <3>3. Define(product) =
            Store(product, add.a, OnNumbers("add", Converted("add", product.frame[i.a]), Converted("add", d)))
      BY <1>2, <2>4, <3>2, DefineIs DEF Arithmetic, Unary
    <3>4. IsFloat(product.frame[i.a]) /\ IsFloat(d)
      BY <2>1, <2>4, <2>6 DEF IsFloat
    <3>5. Fast("add", product.frame[i.a], d) = FloatAdd(product.frame[i.a], d)
      BY <3>4 DEF Fast, FloatArith, Bitwise, Floats2, Integers2, IsInt, IsFloat
    <3>6. Define(product) = Store(product, add.a, FloatAdd(product.frame[i.a], d))
      BY <3>3, <3>5, FastIsDefined DEF Arithmetic, Unary
    <3>7. Store(product, add.a, FloatAdd(product.frame[i.a], d)).pc = product.pc + 1
      BY <2>4, <3>4, SumIsFloat, StoreFloat
    <3> QED
      BY <1>1, <2>3, <2>4, <3>1, <3>6, <3>7
  <2> QED
    BY <2>5, <2>6
<1> QED
  BY <1>9, <1>10

-----------------------------------------------------------------------------
\* Inductive: the interpreter's frame and pc are the plain ones, which keep
\* their shape, and it runs what specialise made of the code.
Inv ==
  /\ code \in Seq(Instruction) /\ exec = Specialise(code)
  /\ \A k \in DOMAIN code : code[k].op = "mul" => code[k].a \in DOMAIN frame
  /\ Machine(plain, DOMAIN frame)
  /\ SpecialisedAgrees

LEMMA MachineIs ==
  ASSUME NEW D, NEW m, Machine(m, D)
  PROVE  m = [frame |-> m.frame, pc |-> m.pc]
BY DEF Machine

LEMMA InitInv == Init => Inv
<1> SUFFICES ASSUME Init PROVE Inv
  OBVIOUS
<1>1. PICK program \in Programs : code = program.code /\ frame \in program.frames
  BY DEF Init
<1>2. plain.frame = frame /\ plain.pc = pc /\ plain = [x \in {"frame", "pc"} |-> plain[x]]
  BY DEF Init
<1> QED
  BY <1>1, <1>2, ProgramsAssumption DEF Init, Inv, Machine, SpecialisedAgrees

LEMMA StepInv == Inv /\ Step => Inv'
<1> SUFFICES ASSUME Inv, Step PROVE Inv'
  OBVIOUS
<1> DEFINE m == Dispatch(plain, exec[pc])
           two == exec[pc].op = "muladd" /\ m.pc = pc + 2
<1>1. /\ pc \in DOMAIN code /\ pc = plain.pc /\ frame = plain.frame /\ Machine(plain, DOMAIN frame)
      /\ code \in Seq(Instruction) /\ exec = Specialise(code) /\ code[pc] \in Instruction
  BY DEF Inv, Step, Running, SpecialisedAgrees
<1>2. plain = [frame |-> frame, pc |-> pc]
  BY <1>1, MachineIs
<1>3. /\ frame' = m.frame /\ pc' = m.pc /\ code' = code /\ exec' = exec
      /\ plain' = IF two THEN Define(Define(plain)) ELSE Define(plain)
  BY <1>2 DEF Step
<1>4. m = IF two THEN Define(Define(plain)) ELSE Define(plain)
  <2>1. CASE exec[pc].op = "muladd"
    <3>1. code[pc].a \in DOMAIN frame
      BY <1>1, <2>1, SpecialiseKeeps DEF FusedAt, Inv
    <3> QED
      BY <1>1, <2>1, <3>1, MulAddIsDefined
  <2>2. CASE exec[pc].op # "muladd"
    BY <1>1, <2>2, SpecialiseKeeps, DispatchIsDefined
  <2> QED
    BY <2>1, <2>2
<1>5. Machine(Define(plain), DOMAIN frame) /\ Machine(Define(Define(plain)), DOMAIN frame)
  BY <1>1, DefineKeeps
<1>6. plain' = m /\ Machine(m, DOMAIN frame)
  BY <1>3, <1>4, <1>5
<1> HIDE DEF m
<1>7. DOMAIN frame' = DOMAIN frame /\ Machine(plain', DOMAIN frame')
  BY <1>3, <1>6 DEF Machine
<1>8. \A k \in DOMAIN code' : code'[k].op = "mul" => code'[k].a \in DOMAIN frame'
  BY <1>3, <1>7 DEF Inv
<1>9. SpecialisedAgrees'
  BY <1>3, <1>6 DEF SpecialisedAgrees
<1> QED
  BY <1>1, <1>3, <1>7, <1>8, <1>9 DEF Inv

LEMMA NextInv == Inv /\ [Next]_vars => Inv'
<1> SUFFICES ASSUME Inv, [Next]_vars PROVE Inv'
  OBVIOUS
<1>1. CASE Step
  BY <1>1, StepInv
<1>2. CASE UNCHANGED vars
  BY <1>2 DEF Inv, vars, Machine, SpecialisedAgrees
<1> QED
  BY <1>1, <1>2 DEF Next, Stop

\* Whatever the program, its constants and the widths of numbers, code that is
\* specialised, with fast paths and with a multiply and an add in one dispatch,
\* leaves the frame and the pc that the code itself defines (specialise,
\* fuseMulAdd, arith).
THEOREM SpecialisedIsExact == Spec => []SpecialisedAgrees
<1>1. Inv => SpecialisedAgrees
  BY DEF Inv
<1> QED
  BY InitInv, NextInv, <1>1, PTL DEF Spec
=============================================================================
