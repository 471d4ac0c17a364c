-------------------------------- MODULE CodeGen --------------------------------
(***************************************************************************)
(* The code generator: instructions emitted in one pass, with registers    *)
(* allocated as a stack, expressions kept open as descriptors until it is  *)
(* known where their value goes, and jumps without a target yet linked in  *)
(* lists through the instructions.  A function being compiled is a record  *)
(* f, whose field e describes the current expression; each operator here   *)
(* returns f after it.                                                     *)
(***************************************************************************)
EXTENDS Integers, SequencesExt

\* Values are tuples, told apart by their first element.
Nil == <<"nil">>
False == <<"false">>
True == <<"true">>
Num(n) == <<"number", n>>
Falsy(v) == v \in {Nil, False}
Bool(b) == IF b THEN True ELSE False

\* An operand is a register, a constant or the upvalue _ENV.
Reg(r) == <<"R", r>>
Const(v) == <<"K", v>>
Env == <<"U", 0>>
IsReg(o) == o[1] = "R"

NoJump == 0
NoRegister == -1
MultipleReturns == -1
Tests == {"EQ", "LT", "LE", "TEST", "TESTSET"}

\* An instruction; live is how many local variables are active there, as the
\* debug information has it.  A JMP has in b its target, or the next of its
\* list, and in a one more than the register to close from.
Ins(op, a, b, c, live) == [op |-> op, a |-> a, b |-> b, c |-> c, live |-> live]

Expr(kind, info) ==
  [kind |-> kind, info |-> info, v |-> Nil, tab |-> Env, idx |-> Env, t |-> NoJump, f |-> NoJump]
Void == Expr("void", 0)
Constant(v) ==
  CASE v = Nil -> Expr("nil", 0) [] v = True -> Expr("true", 0) [] v = False -> Expr("false", 0)
    [] OTHER -> [Expr(IF v[1] = "number" THEN "number" ELSE "constant", 0) EXCEPT !.v = v]
HasJumps(e) == e.t # e.f
MultiRet(e) == e.kind \in {"call", "vararg"}

NewFunction ==
  [code |-> <<>>, e |-> Void, ts |-> <<>>, jumpPC |-> NoJump, lastTarget |-> 1, free |-> 0, active |-> 0,
   names |-> <<>>, maxStack |-> 2, blocks |-> <<>>, labels |-> <<>>, gotos |-> <<>>,
   captures |-> FALSE, sane |-> TRUE]

Here(f) == Len(f.code) + 1
Pc(f) == Len(f.code)
At(f, e) == [f EXCEPT !.e = e]
Expect(f, cond) == [f EXCEPT !.sane = @ /\ cond]

-----------------------------------------------------------------------------
(* Jump lists.                                                             *)
RECURSIVE JumpsOf(_, _)
JumpsOf(code, list) == IF list = NoJump THEN {} ELSE {list} \union JumpsOf(code, code[list].b)

\* The test a jump depends on, if there is one.
Control(code, pc) == IF pc > 1 /\ code[pc-1].op \in Tests THEN pc - 1 ELSE pc

NeedValue(code, list) == \E pc \in JumpsOf(code, list) : code[Control(code, pc)].op # "TESTSET"

\* A TESTSET stores the value it tests where that is wanted.
PatchTestRegister(i, register) ==
  IF register # NoRegister /\ register # i.b THEN [i EXCEPT !.a = register]
  ELSE [i EXCEPT !.op = "TEST", !.a = i.b, !.b = 0]

\* Jumps of the list that have a value to give put it in register and go to
\* target, the others to defaultTarget.
PatchListHelper(code, list, target, register, defaultTarget) ==
  LET pcs == JumpsOf(code, list)
      sets == {pc \in pcs : code[Control(code, pc)].op = "TESTSET"}
  IN [i \in DOMAIN code |->
        IF i \in pcs THEN [code[i] EXCEPT !.b = IF i \in sets THEN target ELSE defaultTarget]
        ELSE IF i + 1 \in sets THEN PatchTestRegister(code[i], register) ELSE code[i]]

\* removeValues
RemoveValues(code, list) ==
  [i \in DOMAIN code |->
     IF i + 1 \in JumpsOf(code, list) /\ code[i].op = "TESTSET" THEN PatchTestRegister(code[i], NoRegister)
     ELSE code[i]]

\* Concatenate: the list, and the code with its link.
Joined(l1, l2) == IF l1 = NoJump THEN l2 ELSE l1
Linked(code, l1, l2) ==
  IF NoJump \in {l1, l2} THEN code
  ELSE [i \in DOMAIN code |->
          IF i \in JumpsOf(code, l1) /\ code[i].b = NoJump THEN [code[i] EXCEPT !.b = l2] ELSE code[i]]

Label(f) == [f EXCEPT !.lastTarget = Here(f)]

PatchToHere(f, list) ==
  [Label(f) EXCEPT !.code = Linked(@, f.jumpPC, list), !.jumpPC = Joined(@, list)]

PatchList(f, list, target) ==
  IF target = Here(f) THEN PatchToHere(f, list)
  ELSE [f EXCEPT !.code = PatchListHelper(@, list, target, NoRegister, target)]

\* Jumps of the list also close from register level.
PatchClose(f, list, level) ==
  [f EXCEPT !.code = [i \in DOMAIN @ |->
     IF i \in JumpsOf(f.code, list) THEN [@[i] EXCEPT !.a = level + 1] ELSE @[i]]]

-----------------------------------------------------------------------------
(* Emission.                                                               *)
DischargeJumpPC(f) ==
  [f EXCEPT !.code = PatchListHelper(@, f.jumpPC, Here(f), NoRegister, Here(f)), !.jumpPC = NoJump]

Emit(f, op, a, b, c) ==
  LET g == DischargeJumpPC(f) IN [g EXCEPT !.code = Append(@, Ins(op, a, b, c, f.active))]

\* Jump takes over the jumps to here.
Jump(f) == [f EXCEPT !.code = Append(@, Ins("JMP", 0, f.jumpPC, 0, f.active)), !.jumpPC = NoJump]

ConditionalJump(f, op, a, b, c) == Jump(Emit(f, op, a, b, c))

\* Mutant: a LOADNIL is extended though jumps come here.
MutantLoadNil(f, from, n) ==
  LET prev == Last(f.code)
  IN IF f.code # <<>> /\ prev.op = "LOADNIL" /\ prev.a <= from /\ from <= prev.a + prev.b + 1
       THEN [f EXCEPT !.code[Pc(f)].b = from + n - 1 - prev.a] ELSE Emit(f, "LOADNIL", from, n - 1, 0)

LoadNil(f, from, n) ==
  LET prev == Last(f.code)
      last == from + n - 1
      lo == Min({from, prev.a})
      hi == Max({last, prev.a + prev.b})
  IN IF /\ Here(f) > f.lastTarget /\ f.code # <<>> /\ prev.op = "LOADNIL"
        /\ (prev.a <= from /\ from <= prev.a + prev.b + 1) \/ (from <= prev.a /\ prev.a <= last + 1)
       THEN [f EXCEPT !.code[Pc(f)].a = lo, !.code[Pc(f)].b = hi - lo]
     ELSE Emit(f, "LOADNIL", from, n - 1, 0)

-----------------------------------------------------------------------------
(* Registers.                                                              *)

ReserveRegisters(f, n) == [f EXCEPT !.free = @ + n, !.maxStack = Max({@, f.free + n})]
CheckStack(f, n) == [f EXCEPT !.maxStack = Max({@, f.free + n})]

\* Only the last register in use is freed.
FreeOperand(f, o) ==
  IF IsReg(o) /\ o[2] >= f.active THEN Expect([f EXCEPT !.free = @ - 1], o[2] = f.free - 1) ELSE f
FreeExpression(f, e) == IF e.kind = "nonreloc" THEN FreeOperand(f, Reg(e.info)) ELSE f

-----------------------------------------------------------------------------
(* From a descriptor to a register or an operand.                          *)
SetReturns(f, count) ==
  IF f.e.kind = "call" THEN [f EXCEPT !.code[f.e.info].c = count + 1]
  ELSE IF f.e.kind = "vararg"
    THEN ReserveRegisters([f EXCEPT !.code[f.e.info].b = count + 1, !.code[f.e.info].a = f.free], 1)
  ELSE f

SetReturn(f) ==
  IF f.e.kind = "call" THEN [f EXCEPT !.e.kind = "nonreloc", !.e.info = f.code[f.e.info].a]
  ELSE IF f.e.kind = "vararg" THEN [f EXCEPT !.code[f.e.info].b = 2, !.e.kind = "reloc"]
  ELSE f

Relocatable(f) == [f EXCEPT !.e.kind = "reloc", !.e.info = Pc(f)]

DischargeVariables(f) ==
  LET e == f.e
  IN CASE e.kind = "local" -> [f EXCEPT !.e.kind = "nonreloc"]
       [] e.kind = "indexed" ->
            Relocatable(Emit(FreeOperand(FreeOperand(f, e.idx), e.tab),
                             IF IsReg(e.tab) THEN "GETTABLE" ELSE "GETTABUP", 0, e.tab, e.idx))
       [] MultiRet(e) -> SetReturn(f)
       [] OTHER -> f

DischargeToRegister(f, r) ==
  LET d == DischargeVariables(f)
      e == d.e
      g == CASE e.kind = "nil" -> LoadNil(d, r, 1)
             [] e.kind = "false" -> Emit(d, "LOADBOOL", r, 0, 0)
             [] e.kind = "true" -> Emit(d, "LOADBOOL", r, 1, 0)
             [] e.kind \in {"constant", "number"} -> Emit(d, "LOADK", r, e.v, 0)
             [] e.kind = "reloc" -> [d EXCEPT !.code[e.info].a = r]
             [] e.kind = "nonreloc" /\ e.info # r -> Emit(d, "MOVE", r, e.info, 0)
             [] OTHER -> d
  IN IF e.kind \in {"void", "jump"} THEN d ELSE [g EXCEPT !.e.kind = "nonreloc", !.e.info = r]

DischargeToAnyRegister(f) ==
  IF f.e.kind = "nonreloc" THEN f ELSE DischargeToRegister(ReserveRegisters(f, 1), f.free)

\* Where an expression's jumps come out: those with a value in register r
\* already at the end, the others by way of a load of false or true.
ExpressionToRegister(f, r) ==
  LET d == DischargeToRegister(f, r)
      e == d.e
      isJump == e.kind = "jump"
      g == IF isJump THEN [d EXCEPT !.code = Linked(@, e.t, e.info), !.e.t = Joined(@, e.info)] ELSE d
      loads == NeedValue(g.code, g.e.t) \/ NeedValue(g.code, g.e.f)
      over == IF isJump THEN g ELSE Jump(g)
      both == Emit(Label(Emit(Label(over), "LOADBOOL", r, 0, 1)), "LOADBOOL", r, 1, 0)
      h == IF loads THEN PatchToHere(both, IF isJump THEN NoJump ELSE Pc(over)) ELSE g
      end == Label(h)
      patched == PatchListHelper(
                   PatchListHelper(end.code, e.f, Here(h), r, IF loads THEN Pc(both) - 1 ELSE NoJump),
                   g.e.t, Here(h), r, IF loads THEN Pc(both) ELSE NoJump)
  IN At(IF HasJumps(g.e) THEN [end EXCEPT !.code = patched] ELSE g, Expr("nonreloc", r))

ExpressionToNextRegister(f) ==
  LET d == DischargeVariables(f)
      g == FreeExpression(d, d.e)
  IN ExpressionToRegister(ReserveRegisters(g, 1), g.free)

ExpressionToAnyRegister(f) ==
  LET d == DischargeVariables(f)
  IN IF d.e.kind = "nonreloc" /\ ~HasJumps(d.e) THEN d
     ELSE IF d.e.kind = "nonreloc" /\ d.e.info >= d.active THEN ExpressionToRegister(d, d.e.info)
     ELSE ExpressionToNextRegister(d)

ExpressionToValue(f) == IF HasJumps(f.e) THEN ExpressionToAnyRegister(f) ELSE DischargeVariables(f)

ValueOf(e) ==
  CASE e.kind = "nil" -> Nil [] e.kind = "true" -> True [] e.kind = "false" -> False [] OTHER -> e.v
IsConstant(e) == e.kind \in {"nil", "true", "false", "number", "constant"}
Operand(e) == IF e.kind = "constant" THEN Const(e.v) ELSE Reg(e.info)

\* expressionToRegisterOrConstant; the operand is then Operand(e).
ToRegisterOrConstant(f) ==
  LET d == ExpressionToValue(f)
  IN IF IsConstant(d.e) THEN [d EXCEPT !.e.v = ValueOf(d.e), !.e.kind = "constant"]
     ELSE ExpressionToAnyRegister(d)

\* Store the current expression in variable v.
StoreVariable(f, v) ==
  IF v.kind = "local" THEN ExpressionToRegister(FreeExpression(f, f.e), v.info)
  ELSE LET g == ToRegisterOrConstant(f)
       IN FreeExpression(Emit(g, IF IsReg(v.tab) THEN "SETTABLE" ELSE "SETTABUP", v.tab, v.idx, Operand(g.e)), g.e)

\* Method call: the function and its receiver in two new registers.
Self(f, key) ==
  LET g == ExpressionToAnyRegister(f)
      h == FreeExpression(g, g.e)
  IN At(Emit(ReserveRegisters(h, 2), "SELF", h.free, Reg(g.e.info), Const(key)), Expr("nonreloc", h.free))

\* The field k of table t, k being the current expression.
Indexed(f, t) ==
  LET g == ToRegisterOrConstant(f)
  IN At(g, [Expr("indexed", 0) EXCEPT !.tab = IF t.kind = "upvalue" THEN Env ELSE Reg(t.info), !.idx = Operand(g.e)])

-----------------------------------------------------------------------------
(* Conditions.                                                             *)
InvertJump(f, pc) == [f EXCEPT !.code[Control(f.code, pc)].a = 1 - @]

JumpOnCondition(f, cond) ==
  LET i == f.code[f.e.info]
      g == DischargeToAnyRegister(f)
  IN IF f.e.kind = "reloc" /\ i.op = "NOT"
       THEN ConditionalJump([f EXCEPT !.code = Front(@)], "TEST", i.b, 0, 1 - cond)
     ELSE ConditionalJump(FreeExpression(g, g.e), "TESTSET", NoRegister, g.e.info, cond)

GoIfTrue(f) ==
  LET d == DischargeVariables(f)
      g == CASE d.e.kind = "jump" -> InvertJump(d, d.e.info)
             [] d.e.kind \in {"constant", "number", "true"} -> d
             [] OTHER -> JumpOnCondition(d, 0)
      pc == IF d.e.kind = "jump" THEN d.e.info
            ELSE IF d.e.kind \in {"constant", "number", "true"} THEN NoJump ELSE Pc(g)
      h == [g EXCEPT !.code = Linked(@, g.e.f, pc), !.e.f = Joined(@, pc)]
  IN [PatchToHere(h, h.e.t) EXCEPT !.e.t = NoJump]

GoIfFalse(f) ==
  LET d == DischargeVariables(f)
      g == IF d.e.kind \in {"jump", "nil", "false"} THEN d ELSE JumpOnCondition(d, 1)
      pc == IF d.e.kind = "jump" THEN d.e.info
            ELSE IF d.e.kind \in {"nil", "false"} THEN NoJump ELSE Pc(g)
      h == [g EXCEPT !.code = Linked(@, g.e.t, pc), !.e.t = Joined(@, pc)]
  IN [PatchToHere(h, h.e.f) EXCEPT !.e.f = NoJump]

EncodeNot(f) ==
  LET d == DischargeVariables(f)
      r == DischargeToAnyRegister(d)
      g == CASE d.e.kind \in {"nil", "false"} -> [d EXCEPT !.e.kind = "true"]
             [] d.e.kind \in {"constant", "number", "true"} -> [d EXCEPT !.e.kind = "false"]
             [] d.e.kind = "jump" -> InvertJump(d, d.e.info)
             [] OTHER -> Relocatable(Emit(FreeExpression(r, r.e), "NOT", 0, r.e.info, 0))
  IN [g EXCEPT !.e.f = g.e.t, !.e.t = g.e.f, !.code = RemoveValues(RemoveValues(@, g.e.f), g.e.t)]

-----------------------------------------------------------------------------
(* Operators.                                                              *)
IsNumeral(e) == e.kind = "number" /\ ~HasJumps(e)
Comparisons == [x \in {"==", "<", "<=", "~=", ">", ">="} |->
  CASE x \in {"==", "~="} -> "EQ" [] x \in {"<", ">"} -> "LT" [] OTHER -> "LE"]
Swapped == {">", ">="}

Above(o1, o2) == ~IsReg(o1) \/ (IsReg(o2) /\ o1[2] > o2[2])

\* Mutant: freed in the order of the operands.
MutantFreeBoth(f, e1, e2) == FreeExpression(FreeExpression(f, e1), e2)

\* Free the operands of e1 and e2, the higher register first.
FreeBoth(f, e1, e2) ==
  IF Above(Operand(e1), Operand(e2)) THEN FreeExpression(FreeExpression(f, e1), e2)
  ELSE FreeExpression(FreeExpression(f, e2), e1)

\* e1 op the current expression, folded when both are numerals.
EncodeArithmetic(f, op, e1) ==
  LET g == ToRegisterOrConstant(f)
      h == ToRegisterOrConstant(At(g, e1))
  IN IF op = "ADD" /\ IsNumeral(e1) /\ IsNumeral(f.e) THEN At(f, Constant(Num(e1.v[2] + f.e.v[2])))
     ELSE Relocatable(Emit(FreeBoth(h, h.e, g.e), op, 0, Operand(h.e), Operand(g.e)))

Unary(f, op) ==
  LET g == ExpressionToAnyRegister(f)
  IN IF op = "UNM" /\ IsNumeral(f.e) THEN At(f, Constant(Num(-f.e.v[2])))
     ELSE Relocatable(Emit(FreeExpression(g, g.e), op, 0, Reg(g.e.info), 0))

EncodeComparison(f, op, e1) ==
  LET g == ToRegisterOrConstant(At(f, e1))
      h == ToRegisterOrConstant(At(g, f.e))
      freed == FreeExpression(FreeExpression(h, h.e), g.e)
      swap == op \in Swapped
      j == ConditionalJump(freed, Comparisons[op], IF op = "~=" THEN 0 ELSE 1,
                           Operand(IF swap THEN h.e ELSE g.e), Operand(IF swap THEN g.e ELSE h.e))
  IN At(j, Expr("jump", Pc(j)))

\* Concatenation extends that of its right operand to the register before.
EncodeConcat(f, e1) ==
  LET g == ExpressionToValue(f)
      h == ExpressionToNextRegister(g)
  IN IF g.e.kind = "reloc" /\ g.code[g.e.info].op = "CONCAT"
       THEN At(FreeExpression(Expect([g EXCEPT !.code[g.e.info].b = e1.info], e1.info = g.code[g.e.info].b - 1), e1),
               Expr("reloc", g.e.info))
     ELSE Relocatable(Emit(FreeExpression(FreeExpression(h, h.e), e1), "CONCAT", 0, e1.info, h.e.info))

Prefix(op, f) == IF op = "not" THEN EncodeNot(f) ELSE Unary(f, IF op = "-" THEN "UNM" ELSE "LEN")

Infix(op, f) ==
  CASE op = "and" -> GoIfTrue(f)
    [] op = "or" -> GoIfFalse(f)
    [] op = ".." -> ExpressionToNextRegister(f)
    [] op = "+" /\ IsNumeral(f.e) -> f
    [] OTHER -> ToRegisterOrConstant(f)

Postfix(op, e1, f) ==
  LET d == DischargeVariables(f)
  IN CASE op = "and" -> [d EXCEPT !.code = Linked(@, d.e.f, e1.f), !.e.f = Joined(@, e1.f)]
       [] op = "or" -> [d EXCEPT !.code = Linked(@, d.e.t, e1.t), !.e.t = Joined(@, e1.t)]
       [] op = ".." -> EncodeConcat(f, e1)
       [] op = "+" -> EncodeArithmetic(f, "ADD", e1)
       [] OTHER -> EncodeComparison(f, op, e1)
=============================================================================
