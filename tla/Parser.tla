-------------------------------- MODULE Parser --------------------------------
(***************************************************************************)
(* The parser, which compiles as it reads.  Programs are given as trees,   *)
(* except that an expression is the sequence of its operands and operators *)
(* as they stand in the source, grouped here by their priorities.          *)
(*                                                                         *)
(* Operands: a value; a name; dots; an index of a key; a call or method    *)
(* call; parentheses; a table constructor; and a getter, the function      *)
(* that returns the local variable it names, which stands for closures.    *)
(***************************************************************************)
EXTENDS CodeGen

CONSTANT ListItemsPerFlush  \* 50 in the code

ASSUME FlushAssumption == ListItemsPerFlush \in Nat \ {0}

-----------------------------------------------------------------------------
(* Local variables, blocks, labels and gotos.                              *)
Block(f) == Last(f.blocks)

EnterBlock(f, isLoop) ==
  [Expect(f, f.free = f.active) EXCEPT
     !.blocks = Append(@, [firstLabel |-> Len(f.labels), firstGoto |-> Len(f.gotos), active |-> f.active,
                           up |-> FALSE, loop |-> isLoop, tbc |-> f.blocks # <<>> /\ Block(f).tbc])]

MakeLocals(f, names) == [f EXCEPT !.names = @ \o names]
AdjustLocalVariables(f, n) == [f EXCEPT !.active = @ + n]

\* A goto that would enter the scope of a local variable is an error.
CloseGoto(f, i, l) ==
  LET g == f.gotos[i]
  IN [PatchList(Expect(f, g.active >= l.active), g.pc, l.pc) EXCEPT !.gotos = RemoveAt(@, i)]

LabelsNamed(f, name) == {n \in Block(f).firstLabel + 1 .. Len(f.labels) : f.labels[n].name = name}

\* findLabel, of the current block
FindLabel(f, i) ==
  LET g == f.gotos[i]
      found == LabelsNamed(f, g.name)
      l == f.labels[Min(found)]
  IN IF found = {} THEN f
     ELSE CloseGoto(IF g.active > l.active THEN PatchClose(f, g.pc, l.active) ELSE f, i, l)

MakeGoto(f, name) ==
  LET g == Jump(f)
      h == [g EXCEPT !.gotos = Append(@, [name |-> name, pc |-> Pc(g), active |-> g.active])]
  IN FindLabel(h, Len(h.gotos))

RECURSIVE FindGotosFrom(_, _, _)
FindGotosFrom(f, l, i) ==
  IF i > Len(f.gotos) THEN f
  ELSE IF f.gotos[i].name = l.name THEN FindGotosFrom(CloseGoto(f, i, l), l, i)
  ELSE FindGotosFrom(f, l, i + 1)
FindGotos(f, l) == FindGotosFrom(f, l, Block(f).firstGoto + 1)

\* A label at the end of its block is outside the scope of its variables.
MakeLabel(f, name, atEnd) ==
  LET g == Label(f)
      l == [name |-> name, pc |-> Here(g), active |-> IF atEnd THEN Block(f).active ELSE f.active]
  IN FindGotos([g EXCEPT !.labels = Append(@, l)], l)

\* Mutant: a goto out of a block closes nothing.
MutantMovedOut(f, b, i) == [f EXCEPT !.gotos[i].active = Min({@, b.active})]

\* A goto that leaves block b closes b's variables, if any is captured.
MovedOut(f, b, i) ==
  LET g == f.gotos[i]
      closed == IF g.active > b.active /\ b.up THEN PatchClose(f, g.pc, b.active) ELSE f
  IN [closed EXCEPT !.gotos[i].active = Min({@, b.active})]

RECURSIVE MoveGotosOut(_, _, _)
MoveGotosOut(f, b, i) ==
  IF i > Len(f.gotos) THEN f
  ELSE LET g == FindLabel(MovedOut(f, b, i), i)
       IN MoveGotosOut(g, b, IF Len(g.gotos) < Len(f.gotos) THEN i ELSE i + 1)

\* The breaks of a loop's block close what the block does.
BreaksClose(f, b) ==
  FoldLeft(LAMBDA g, goto : IF goto.name = "break" /\ goto.active > b.active
                              THEN PatchClose(g, goto.pc, b.active) ELSE g,
           f, SubSeq(f.gotos, b.firstGoto + 1, Len(f.gotos)))

LeaveBlock(f) ==
  LET b == Block(f)
      inner == Len(f.blocks) > 1
      j == Jump(f)
      closed == IF inner /\ b.up THEN PatchToHere(PatchClose(j, Pc(j), b.active), Pc(j)) ELSE f
      breaks == IF ~b.loop THEN closed
                ELSE MakeLabel(IF b.up THEN BreaksClose(closed, b) ELSE closed, "break", FALSE)
      left == [breaks EXCEPT !.blocks = Front(@), !.names = SubSeq(@, 1, b.active), !.active = b.active,
                             !.free = b.active, !.labels = SubSeq(@, 1, b.firstLabel)]
  IN IF inner THEN MoveGotosOut(left, b, b.firstGoto + 1)
     ELSE Expect(left, Len(f.gotos) = b.firstGoto)

\* The local variable name has this register, from zero, or else is global.
LocalNamed(f, name) == {i \in 1 .. f.active : f.names[i] = name}
SingleVariable(f, name) ==
  IF LocalNamed(f, name) # {} THEN At(f, Expr("local", Max(LocalNamed(f, name)) - 1))
  ELSE Indexed(At(f, Constant(<<"string", name>>)), Expr("upvalue", 0))

\* A variable that a closure captures marks the block that declares it.
Captured(f, r) ==
  LET owner == Max({n \in DOMAIN f.blocks : f.blocks[n].active <= r})
  IN [f EXCEPT !.blocks[owner].up = TRUE, !.captures = TRUE]

ToBeClosed(f, r, swapped) ==
  LET g == [f EXCEPT !.blocks[Len(f.blocks)].up = TRUE, !.blocks[Len(f.blocks)].tbc = TRUE]
  IN Emit(g, "TBC", r, IF swapped THEN 1 ELSE 0, 0)

-----------------------------------------------------------------------------
(* Expressions.                                                            *)
UnaryOps == {"not", "-", "#"}
Left == [x \in {"+", "..", "==", "<", "<=", "~=", ">", ">=", "and", "or"} |->
  CASE x = "+" -> 10 [] x = ".." -> 9 [] x = "and" -> 2 [] x = "or" -> 1 [] OTHER -> 3]
Right == [Left EXCEPT ![".."] = 8]
UnaryPriority == 12

RECURSIVE Expression(_, _), SubExpression(_, _), Operators(_, _), Simple(_, _), ExpressionList(_, _),
          FunctionArguments(_, _), Constructor(_, _, _, _, _)

\* The operand or operators at the head of f.ts.
SubExpression(f, limit) ==
  LET x == Head(f.ts)
      g == [f EXCEPT !.ts = Tail(@)]
  IN Operators(IF x.is = "op" THEN Prefix(x.op, SubExpression(g, UnaryPriority)) ELSE Simple(g, x), limit)

Operators(f, limit) ==
  IF f.ts = <<>> \/ Left[Head(f.ts).op] <= limit THEN f
  ELSE LET op == Head(f.ts).op
           g == Infix(op, [f EXCEPT !.ts = Tail(@)])
       IN Operators(Postfix(op, g.e, SubExpression(g, Right[op])), limit)

Expression(f, ts) == [SubExpression([f EXCEPT !.ts = ts], 0) EXCEPT !.ts = f.ts]

\* Every expression but the last goes to a register of its own.
ExpressionList(f, list) ==
  IF Len(list) = 1 THEN Expression(f, list[1])
  ELSE ExpressionList(ExpressionToNextRegister(Expression(f, list[1])), Tail(list))

\* A call of the function in the register that f.e names.
FunctionArguments(f, args) ==
  LET base == f.e.info
      g == IF args = <<>> THEN At(f, Void) ELSE LET l == ExpressionList(f, args) IN SetReturns(l, MultipleReturns)
      multi == MultiRet(g.e)
      h == IF multi \/ args = <<>> THEN g ELSE ExpressionToNextRegister(g)
      call == Emit(h, "CALL", base, IF multi THEN 0 ELSE h.free - base, 2)
  IN At([call EXCEPT !.free = base + 1], Expr("call", Pc(call)))

SetList(f, base, count, stored) ==
  [Emit(f, "SETLIST", base, stored, (count - 1) \div ListItemsPerFlush + 1) EXCEPT !.free = base + 1]

\* Items from the n-th on; pending of the array items have no place yet.
Constructor(f, t, items, arrayCount, pending) ==
  LET flushed == IF f.e.kind = "void" THEN f ELSE ExpressionToNextRegister(f)
      full == f.e.kind # "void" /\ pending = ListItemsPerFlush
      g == At(IF full THEN SetList(flushed, t, arrayCount, pending) ELSE flushed, Void)
      left == IF full THEN 0 ELSE pending
      item == Head(items)
      key == ToRegisterOrConstant(ExpressionToValue(Expression(g, item.key)))
      field == ToRegisterOrConstant(Expression(key, item.value))
      stored == Emit(field, "SETTABLE", Reg(t), Operand(key.e), Operand(field.e))
  IN IF items # <<>> /\ item.key # <<>>
       THEN Constructor(At([stored EXCEPT !.free = g.free], Void), t, Tail(items), arrayCount, left)
     ELSE IF items # <<>>
       THEN Constructor(Expression(g, item.value), t, Tail(items), arrayCount + 1, left + 1)
     ELSE IF pending = 0 THEN f
     ELSE IF MultiRet(f.e) THEN LET m == SetReturns(f, MultipleReturns) IN SetList(m, t, arrayCount, 0)
     ELSE SetList(flushed, t, arrayCount, pending)

Simple(f, x) ==
  CASE x.is = "value" -> At(f, Constant(x.v))
    [] x.is = "dots" -> LET g == Emit(f, "VARARG", 0, 1, 0) IN At(g, Expr("vararg", Pc(g)))
    [] x.is = "name" -> SingleVariable(f, x.name)
    [] x.is = "paren" -> DischargeVariables(Expression(f, x.e))
    [] x.is = "index" ->
         LET t == ExpressionToAnyRegister(Simple(f, x.of))
         IN Indexed(ExpressionToValue(Expression(t, x.key)), t.e)
    [] x.is = "call" -> FunctionArguments(ExpressionToNextRegister(Simple(f, x.of)), x.args)
    [] x.is = "method" -> FunctionArguments(Self(Simple(f, x.of), x.key), x.args)
    [] x.is = "getter" ->
         LET g == Captured(f, SingleVariable(f, x.name).e.info)
         IN ExpressionToNextRegister(Relocatable(Emit(g, "CLOSURE", 0, SingleVariable(f, x.name).e.info, 0)))
    [] x.is = "table" ->
         LET t == ExpressionToNextRegister(Relocatable(Emit(f, "NEWTABLE", 0, 0, 0)))
         IN At(Constructor(At(t, Void), t.e.info, x.items, 0, 0), t.e)

-----------------------------------------------------------------------------
(* Statements.                                                             *)
\* The values of expressions, the last of them current, made as many as the
\* variables, in the next registers.
AdjustAssignment(f, variables, expressions) ==
  LET extra == variables - expressions
      returns == Max({extra + 1, 0})
      s == SetReturns(f, returns)
      g == IF expressions > 0 THEN ExpressionToNextRegister(f) ELSE f
  IN IF MultiRet(f.e) THEN (IF returns > 1 THEN ReserveRegisters(s, returns - 1) ELSE s)
     ELSE IF extra > 0 THEN LoadNil(ReserveRegisters(g, extra), g.free, extra) ELSE g

\* A local variable assigned here may be the table or key of an earlier
\* target: that then uses a copy.
CheckConflict(f, targets) ==
  LET local == Reg(f.e.info)
      Uses(t) == f.e.kind = "local" /\ t.kind = "indexed" /\ local \in {t.tab, t.idx}
      Copy(o) == IF o = local THEN Reg(f.free) ELSE o
  IN IF \E t \in ToSet(targets) : Uses(t)
       THEN [f |-> At(ReserveRegisters(Emit(f, "MOVE", f.free, f.e.info, 0), 1), f.e),
             targets |-> [i \in DOMAIN targets |->
                IF Uses(targets[i]) THEN [targets[i] EXCEPT !.tab = Copy(@), !.idx = Copy(@)] ELSE targets[i]]]
     ELSE [f |-> f, targets |-> targets]

RECURSIVE Targets(_, _, _), StoreAll(_, _)
Targets(f, done, rest) ==
  IF rest = <<>> THEN [f |-> f, targets |-> done]
  ELSE LET g == Simple(f, Head(rest))
           c == IF g.e.kind = "indexed" \/ done = <<>> THEN [f |-> g, targets |-> done]
                ELSE CheckConflict(g, done)
       IN Targets(c.f, Append(c.targets, g.e), Tail(rest))

StoreAll(f, targets) ==
  IF targets = <<>> THEN f
  ELSE StoreAll(StoreVariable(At(f, Expr("nonreloc", f.free - 1)), Last(targets)), Front(targets))

Assignment(f, left, right) ==
  LET t == Targets(f, <<>>, left)
      g == ExpressionList(t.f, right)
      adjusted == AdjustAssignment(g, Len(left), Len(right))
      trimmed == [adjusted EXCEPT !.free = @ - Max({0, Len(right) - Len(left)})]
  IN IF Len(left) = Len(right) THEN StoreAll(StoreVariable(SetReturn(g), Last(t.targets)), Front(t.targets))
     ELSE StoreAll(trimmed, t.targets)

\* Return, of n values, the last of them current
Return(f, n) ==
  LET m == SetReturns(f, MultipleReturns)
      tail == f.e.kind = "call" /\ n = 1 /\ ~Block(f).tbc
      any == ExpressionToAnyRegister(f)
      next == ExpressionToNextRegister(f)
  IN IF MultiRet(f.e)
       THEN Emit(IF tail THEN Expect([m EXCEPT !.code[f.e.info].op = "TAILCALL"], m.code[f.e.info].a = f.active)
                 ELSE m, "RETURN", f.active, 0, 0)
     ELSE IF n = 1 THEN Emit(any, "RETURN", any.e.info, 2, 0)
     ELSE Emit(Expect(next, n = next.free - f.active), "RETURN", f.active, n + 1, 0)

\* condition: jumps when false are in the list e.f.
Condition(f, ts) ==
  LET g == Expression(f, ts) IN GoIfTrue(IF g.e.kind = "nil" THEN At(g, Constant(False)) ELSE g)

RECURSIVE Statement(_, _, _), Statements(_, _, _, _), BlockOf(_, _), TestThen(_, _, _)

\* The statements from the i-th; inUntil where their scope extends to a
\* repeat's condition.
Statements(f, list, i, inUntil) ==
  IF i > Len(list) THEN f
  ELSE LET atEnd == ~inUntil /\ \A n \in i .. Len(list) : list[n].do = "label"
           g == Statement(f, list[i], atEnd)
       IN Statements([Expect(g, g.maxStack >= g.free /\ g.free >= g.active) EXCEPT !.free = g.active],
                     list, i + 1, inUntil)

BlockOf(f, body) == LeaveBlock(Statements(EnterBlock(f, FALSE), body, 1, FALSE))

ForBody(f, base, n, body, numeric) ==
  LET g == AdjustLocalVariables(f, 3)
      h == IF numeric THEN g ELSE [ToBeClosed(g, base + 2, TRUE) EXCEPT !.free = @ - 1]
      prepared == IF numeric THEN Emit(h, "FORPREP", base, NoJump, 0) ELSE Jump(h)
      prep == Pc(prepared)
      opened == ReserveRegisters(AdjustLocalVariables(EnterBlock(prepared, FALSE), n), n)
      closed == PatchToHere(LeaveBlock(BlockOf(opened, body)), prep)
      loop == IF numeric THEN Emit(closed, "FORLOOP", base, NoJump, 0)
              ELSE Emit(Emit(closed, "TFORCALL", base, 0, n), "TFORLOOP", base, NoJump, 0)
  IN PatchList(loop, Pc(loop), prep + 1)

ForState == <<"(for state)", "(for state)", "(for state)">>

ForNumeric(f, s) ==
  LET g == MakeLocals(EnterBlock(f, TRUE), Append(ForState, s.name))
      h == ExpressionToNextRegister(ExpressionList(g, s.exprs))
      step == IF Len(s.exprs) = 3 THEN h ELSE ReserveRegisters(Emit(h, "LOADK", h.free, Num(1), 0), 1)
  IN LeaveBlock(ForBody(step, f.free, 1, s.body, TRUE))

ForList(f, s) ==
  LET g == MakeLocals(EnterBlock(f, TRUE), ForState \o s.names)
      h == CheckStack(AdjustAssignment(ExpressionList(g, s.exprs), 4, Len(s.exprs)), 2)
  IN LeaveBlock(ForBody(h, f.free, Len(s.names), s.body, FALSE))

\* The i-th and later tests of an if; escapes are the jumps to its end.
TestThen(f, s, escapes) ==
  LET c == Condition(f, Head(s.tests).cond)
      g == BlockOf(c, Head(s.tests).body)
      more == Len(s.tests) > 1 \/ s.otherwise # <<>>
      j == Jump(g)
      out == IF more THEN [j EXCEPT !.code = Linked(@, escapes, Pc(j))] ELSE g
      list == IF more THEN Joined(escapes, Pc(j)) ELSE escapes
      next == PatchToHere(out, c.e.f)
  IN IF Len(s.tests) > 1 THEN TestThen(next, [s EXCEPT !.tests = Tail(@)], list)
     ELSE PatchToHere(IF s.otherwise # <<>> THEN BlockOf(next, s.otherwise) ELSE next, list)

\* Mutant: the loop starts where its body ends.
MutantWhile(f, s) ==
  LET c == Condition(Label(f), s.cond)
      body == BlockOf(EnterBlock(c, TRUE), s.body)
      j == Jump(Label(body))
  IN PatchToHere(LeaveBlock(PatchList(j, Pc(j), Here(body))), c.e.f)

While(f, s) ==
  LET top == Label(f)
      c == Condition(top, s.cond)
      j == Jump(BlockOf(EnterBlock(c, TRUE), s.body))
  IN PatchToHere(LeaveBlock(PatchList(j, Pc(j), Here(top))), c.e.f)

Repeat(f, s) ==
  LET top == Label(f)
      c == Condition(Statements(EnterBlock(EnterBlock(top, TRUE), FALSE), s.body, 1, TRUE), s.cond)
      closed == IF Block(c).up THEN PatchClose(c, c.e.f, Block(c).active) ELSE c
  IN LeaveBlock(PatchList(LeaveBlock(closed), c.e.f, Here(top)))

\* close is which of the names is to be closed, or 0.
Local(f, s) ==
  LET g == MakeLocals(f, s.names)
      e == IF s.exprs = <<>> THEN At(g, Void) ELSE ExpressionList(g, s.exprs)
      h == AdjustLocalVariables(AdjustAssignment(e, Len(s.names), Len(s.exprs)), Len(s.names))
  IN IF s.close > 0 THEN ToBeClosed(h, f.active + s.close - 1, FALSE) ELSE h

Statement(f, s, atEnd) ==
  CASE s.do = "local" -> Local(f, s)
    [] s.do = "assign" -> Assignment(f, s.left, s.right)
    [] s.do = "call" -> LET g == Simple(f, s.e) IN [g EXCEPT !.code[g.e.info].c = 1]
    [] s.do = "do" -> BlockOf(f, s.body)
    [] s.do = "if" -> TestThen(f, s, NoJump)
    [] s.do = "while" -> While(f, s)
    [] s.do = "repeat" -> Repeat(f, s)
    [] s.do = "for" -> ForNumeric(f, s)
    [] s.do = "forin" -> ForList(f, s)
    [] s.do = "break" -> MakeGoto(f, "break")
    [] s.do = "goto" -> MakeGoto(f, s.name)
    [] s.do = "label" -> MakeLabel(f, s.name, atEnd)
    [] s.do = "return" -> IF s.exprs = <<>> THEN Emit(f, "RETURN", f.active, 1, 0)
                          ELSE Return(ExpressionList(f, s.exprs), Len(s.exprs))

\* A main function, whose arguments are its dots.
Compile(body) ==
  LeaveBlock(Emit(Statements(EnterBlock(NewFunction, FALSE), body, 1, FALSE), "RETURN", 0, 1, 0))
=============================================================================
