-------------------------------- MODULE Meaning --------------------------------
(***************************************************************************)
(* What a program means, from the program alone: variables are cells with  *)
(* a scope, expressions are evaluated left to right, and leaving a scope   *)
(* closes its to-be-closed variables, the last declared first.  Programs   *)
(* are as in Parser.  s is the state of an evaluation: the world, the      *)
(* variables in scope, the contents of all cells, the cells captured so    *)
(* far, and how the last statement ended.                                  *)
(***************************************************************************)
EXTENDS World

Start(yes) == [w |-> NewWorld(yes), scope |-> <<>>, cells |-> <<>>, captured |-> <<>>, out |-> <<"normal">>]
Normal(s) == s.out = <<"normal">>
With(s, v) == [s |-> s, v |-> v]

Dots == <<<<"string", "dots1">>, <<"string", "dots2">>>>
First(values) == IF values = <<>> THEN Nil ELSE values[1]
Adjusted(values, n) == [i \in 1 .. n |-> IF i <= Len(values) THEN values[i] ELSE Nil]

Visible(s, name) == {i \in DOMAIN s.scope : s.scope[i].name = name}
CellOf(s, name) == s.scope[Max(Visible(s, name))].cell
Declare(s, name, value, tbc) ==
  [s EXCEPT !.cells = Append(@, value), !.scope = Append(@, [name |-> name, cell |-> Len(s.cells) + 1, tbc |-> tbc])]
DeclareAll(s, names, values, tbc) ==
  FoldLeftDomain(LAMBDA r, i : Declare(r, names[i], values[i], i = tbc), s, names)

\* Leave the scope of all variables but the first n.
Leave(s, n) ==
  LET leaving == SubSeq(s.scope, n + 1, Len(s.scope))
      close(w, x) == IF x.tbc THEN Closed(w, s.cells[x.cell]) ELSE w
  IN [s EXCEPT !.w = FoldLeft(close, @, Reverse(leaving)), !.scope = SubSeq(@, 1, n)]

Get(s, t, k) == With([s EXCEPT !.w = Read(@, t, k)], Field(s.w, t, k))
Set(s, t, k, v) == [s EXCEPT !.w = Write(@, t, k, v)]

Apply(s, fn, args) ==
  LET results == Results(s.w, fn, args, IF fn[1] = "getter" THEN s.cells[s.captured[fn[2]]] ELSE Nil)
  IN With([s EXCEPT !.w = Called(@, fn, args, results)], results)

-----------------------------------------------------------------------------
(* Expressions.                                                            *)
Binary == <<{"or"}, {"and"}, {"<", ">", "<=", ">=", "~=", "=="}, {".."}, {"+"}>>

\* Where the binary operators of level n stand: after an operand.
Splits(ts, n) == {i \in 2 .. Len(ts) : ts[i].is = "op" /\ ts[i].op \in Binary[n] /\ ts[i-1].is # "op"}

RECURSIVE Eval(_, _), Values(_, _), Operation(_, _, _, _), Prefixed(_, _, _), EvalList(_, _), OperandValues(_, _),
          Fill(_, _, _, _)

Relation(s, op, x, y) ==
  LET o == CASE op \in {"==", "~="} -> "EQ" [] op \in {"<", ">"} -> "LT" [] OTHER -> "LE"
      l == IF op \in {">", ">="} THEN y ELSE x
      r == IF op \in {">", ">="} THEN x ELSE y
  IN With([s EXCEPT !.w = Compared(@, o, l, r)], Bool(Holds(s.w, o, l, r) # (op = "~=")))

Operation(s, op, left, right) ==
  LET l == Eval(s, left)
      r == Eval(l.s, right)
  IN CASE op = "and" -> IF Falsy(l.v) THEN l ELSE r
       [] op = "or" -> IF Falsy(l.v) THEN r ELSE l
       [] op = "+" -> With(r.s, Computed("ADD", l.v, r.v))
       [] op = ".." -> With(r.s, <<"CONCAT", l.v, r.v>>)
       [] OTHER -> Relation(r.s, op, l.v, r.v)

Prefixed(s, op, ts) ==
  LET r == Eval(s, ts)
  IN CASE op = "not" -> With(r.s, Bool(Falsy(r.v)))
       [] op = "-" -> With(r.s, Computed("UNM", r.v, r.v))
       [] op = "#" -> With(r.s, <<"LEN", r.v, r.v>>)

Eval(s, ts) ==
  LET levels == {n \in DOMAIN Binary : Splits(ts, n) # {}}
      n == Min(levels)
      i == IF ".." \in Binary[n] THEN Min(Splits(ts, n)) ELSE Max(Splits(ts, n))
      r == Values(s, ts)
  IN IF levels # {} THEN Operation(s, ts[i].op, SubSeq(ts, 1, i - 1), SubSeq(ts, i + 1, Len(ts)))
     ELSE With(r.s, First(r.v))

\* All values of an expression: more or less than one of a call or of dots.
Values(s, ts) ==
  IF Len(ts) = 1 THEN OperandValues(s, ts[1])
  ELSE LET r == IF ts[1].is = "op" /\ \A n \in DOMAIN Binary : Splits(ts, n) = {}
                  THEN Prefixed(s, ts[1].op, Tail(ts)) ELSE Eval(s, ts)
       IN With(r.s, <<r.v>>)

EvalList(s, list) ==
  IF list = <<>> THEN With(s, <<>>)
  ELSE IF Len(list) = 1 THEN Values(s, list[1])
  ELSE LET x == Eval(s, list[1])
           rest == EvalList(x.s, Tail(list))
       IN With(rest.s, <<x.v>> \o rest.v)

\* Items of a constructor; n array items came before.
Fill(s, t, items, n) ==
  IF items = <<>> THEN s
  ELSE LET item == Head(items)
           k == Eval(s, item.key)
           v == Eval(k.s, item.value)
           all == Values(s, item.value)
           values == IF Len(items) = 1 THEN all.v ELSE <<First(all.v)>>
       IN IF item.key # <<>> THEN Fill(Set(v.s, t, k.v, v.v), t, Tail(items), n)
          ELSE [Fill(all.s, t, Tail(items), n + 1) EXCEPT
                  !.w.heap = [i \in {<<t, Num(n + j)>> : j \in DOMAIN values} |-> values[i[2][2] - n]] @@ @]

OperandValues(s, x) ==
  CASE x.is = "value" -> With(s, <<x.v>>)
    [] x.is = "dots" -> With(s, Dots)
    [] x.is = "name" ->
         IF Visible(s, x.name) # {} THEN With(s, <<s.cells[CellOf(s, x.name)]>>)
         ELSE LET g == Get(s, Globals, <<"string", x.name>>) IN With(g.s, <<g.v>>)
    [] x.is = "paren" -> LET r == Eval(s, x.e) IN With(r.s, <<r.v>>)
    [] x.is = "index" ->
         LET t == Eval(s, <<x.of>>)
             k == Eval(t.s, x.key)
             g == Get(k.s, t.v, k.v)
         IN With(g.s, <<g.v>>)
    [] x.is = "call" ->
         LET f == Eval(s, <<x.of>>)
             args == EvalList(f.s, x.args)
         IN Apply(args.s, f.v, args.v)
    [] x.is = "method" ->
         LET t == Eval(s, <<x.of>>)
             f == Get(t.s, t.v, x.key)
             args == EvalList(f.s, x.args)
         IN Apply(args.s, f.v, <<t.v>> \o args.v)
    [] x.is = "getter" ->
         LET c == CellOf(s, x.name)
             known == {i \in DOMAIN s.captured : s.captured[i] = c}
         IN IF known # {} THEN With(s, <<<<"getter", Min(known)>>>>)
            ELSE With([s EXCEPT !.captured = Append(@, c)], <<<<"getter", Len(s.captured) + 1>>>>)
    [] x.is = "table" ->
         LET made == NewTableIn(s.w)
         IN With(Fill([s EXCEPT !.w = made], TableOf(made), x.items, 0), <<TableOf(made)>>)

-----------------------------------------------------------------------------
(* Statements.                                                             *)
RECURSIVE Exec(_, _), Run(_, _, _, _), Scoped(_, _), Places(_, _), Store(_, _, _), FirstTrue(_, _),
          WhileTrue(_, _), RepeatUntil(_, _), Count(_, _, _, _), Iterate(_, _, _)

Declared(list, n) == FoldLeftDomain(LAMBDA d, i : IF i < n /\ list[i].do = "local" THEN d + Len(list[i].names) ELSE d,
                                    0, list)

\* The statements of a block from the i-th, where the block's own variables
\* come after the first n.  A goto to a label of the block leaves the scope
\* of what is declared after it; at its end, of all the block declares.
Run(s, list, i, n) ==
  IF i > Len(list) THEN s
  ELSE LET r == Exec(s, list[i])
           labels == {j \in DOMAIN list : list[j].do = "label" /\ r.out = <<"goto", list[j].name>>}
           j == Min(labels)
           kept == IF \A m \in j .. Len(list) : list[m].do = "label" THEN 0 ELSE Declared(list, j)
       IN IF Normal(r) THEN Run(r, list, i + 1, n)
          ELSE IF labels # {} THEN Run([Leave(r, n + kept) EXCEPT !.out = <<"normal">>], list, j + 1, n)
          ELSE r

Scoped(s, list) == Leave(Run(s, list, 1, Len(s.scope)), Len(s.scope))

\* After a loop: a break ends there.
Ended(s) == IF s.out = <<"break">> THEN [s EXCEPT !.out = <<"normal">>] ELSE s

\* Where assigned values go: a variable's cell, or a table's key.
Places(s, left) ==
  IF left = <<>> THEN With(s, <<>>)
  ELSE LET x == Head(left)
           t == Eval(s, <<x.of>>)
           k == Eval(t.s, x.key)
           named == IF Visible(s, x.name) # {} THEN <<"cell", CellOf(s, x.name)>>
                    ELSE <<"field", Globals, <<"string", x.name>>>>
           rest == Places(IF x.is = "name" THEN s ELSE k.s, Tail(left))
       IN With(rest.s, <<IF x.is = "name" THEN named ELSE <<"field", t.v, k.v>>>> \o rest.v)

Store(s, places, values) ==
  IF places = <<>> THEN s
  ELSE LET p == Last(places)
           v == values[Len(places)]
       IN Store(IF p[1] = "cell" THEN [s EXCEPT !.cells[p[2]] = v] ELSE Set(s, p[2], p[3], v), Front(places), values)

FirstTrue(s, st) ==
  LET c == Eval(s, st.tests[1].cond)
  IN IF ~Falsy(c.v) THEN Scoped(c.s, st.tests[1].body)
     ELSE IF Len(st.tests) > 1 THEN FirstTrue(c.s, [st EXCEPT !.tests = Tail(@)]) ELSE Scoped(c.s, st.otherwise)

WhileTrue(s, st) ==
  LET c == Eval(s, st.cond)
      r == Scoped(c.s, st.body)
  IN IF Falsy(c.v) THEN c.s ELSE IF Normal(r) THEN WhileTrue(r, st) ELSE r

\* The body's variables are in scope in the condition.
RepeatUntil(s, st) ==
  LET n == Len(s.scope)
      r == Run(s, st.body, 1, n)
      c == Eval(r, st.cond)
      left == Leave(c.s, n)
  IN IF ~Normal(r) THEN Leave(r, n) ELSE IF Falsy(c.v) THEN RepeatUntil(left, st) ELSE left

Count(s, st, i, range) ==
  IF (range[3] > 0 /\ i > range[2]) \/ (range[3] < 0 /\ i < range[2]) THEN s
  ELSE LET n == Len(s.scope)
           r == Leave(Scoped(Declare(s, st.name, Num(i), FALSE), st.body), n)
       IN IF Normal(r) THEN Count(r, st, i + range[3], range) ELSE r

Iterate(s, st, it) ==
  LET n == Len(s.scope)
      r == Apply(s, it[1], <<it[2], it[3]>>)
      vars == Adjusted(r.v, Len(st.names))
      body == Leave(Scoped(DeclareAll(r.s, st.names, vars, 0), st.body), n)
  IN IF vars[1] = Nil THEN r.s
     ELSE IF Normal(body) THEN Iterate(body, st, [it EXCEPT ![3] = vars[1]]) ELSE body

Exec(s, st) ==
  CASE st.do = "local" ->
         LET r == EvalList(s, st.exprs) IN DeclareAll(r.s, st.names, Adjusted(r.v, Len(st.names)), st.close)
    [] st.do = "assign" ->
         LET p == Places(s, st.left)
             r == EvalList(p.s, st.right)
         IN Store(r.s, p.v, Adjusted(r.v, Len(st.left)))
    [] st.do = "call" -> OperandValues(s, st.e).s
    [] st.do = "do" -> Scoped(s, st.body)
    [] st.do = "if" -> FirstTrue(s, st)
    [] st.do = "while" -> Ended(WhileTrue(s, st))
    [] st.do = "repeat" -> Ended(RepeatUntil(s, st))
    [] st.do = "for" ->
         LET r == EvalList(s, st.exprs)
         IN Ended(Count(r.s, st, r.v[1][2], [i \in 1 .. 3 |-> IF i <= Len(r.v) THEN r.v[i][2] ELSE 1]))
    [] st.do = "forin" ->
         LET r == EvalList(s, st.exprs)
             it == Adjusted(r.v, 4)
         IN Ended(Leave(Iterate(Declare(r.s, "", it[4], TRUE), st, it), Len(s.scope)))
    [] st.do = "break" -> [s EXCEPT !.out = <<"break">>]
    [] st.do = "goto" -> [s EXCEPT !.out = <<"goto", st.name>>]
    [] st.do = "label" -> s
    [] st.do = "return" -> LET r == EvalList(s, st.exprs) IN [r.s EXCEPT !.out = <<"return", r.v>>]

\* The events of a program, its results last.
MeaningOf(body, yes) ==
  LET s == Scoped(Start(yes), body)
  IN Append(s.w.trace, <<"return", IF Normal(s) THEN <<>> ELSE s.out[2]>>)
=============================================================================
