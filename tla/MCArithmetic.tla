---------------------------- MODULE MCArithmetic ----------------------------
(* Instructions for TLC: each operator on two registers with every pair of *)
(* numbers, on a constant with some, the pairs of a multiply and an add    *)
(* that specialise may fuse, and empty loops with every choice of index,   *)
(* limit and step among numbers at the edges.                              *)
EXTENDS Arithmetic

I(op, a, b, c) == [op |-> op, form |-> "generic", a |-> a, b |-> b, c |-> c, to |-> 0, skip |-> 0]
To(i, to) == [i EXCEPT !.to = to]
Str(n, class) == [type |-> "string", class |-> class, n |-> n]
Table(n, class) == [type |-> "table", class |-> class, n |-> n]
Digit(negative, hex, float, digits) == [negative |-> negative, hex |-> hex, float |-> float, digits |-> digits]
\* "3", "-16", "16", "-0x1f", "2.0" and one that is no numeral.
MCNumerals == <<Digit(FALSE, FALSE, FALSE, <<3>>), Digit(TRUE, FALSE, FALSE, <<1, 6>>), Digit(FALSE, FALSE, FALSE, <<1, 6>>),
                Digit(TRUE, TRUE, FALSE, <<1, 15>>), Digit(FALSE, FALSE, TRUE, <<2>>), Digit(FALSE, FALSE, FALSE, <<>>)>>
Others == {Nil} \cup {Str(n, "short") : n \in 1 .. 4} \cup {Str(n, "long") : n \in 5 .. 6}
          \cup {Table(n, "mayHaveEq") : n \in 1 .. 2} \cup {Table(3, "noEq")}
Some == {Integer(n) : n \in {-16, -15, -4, -1, 0, 1, 3, 8, 11, 15}} \cup {Float(n) : n \in {-32, -3, 0, 1, 6, 14, 28, 32}}
        \cup {Inf, NegInf, NaN}
Few == {Integer(-16), Integer(-1), Integer(3), Integer(11), Float(3), Float(14), NaN, Str(1, "short")}

Ops == (Arithmetic \cup Bitwise) \ {"bnot"}
Compares(op, a, b, c) == <<I(op, a, b, c), To(I("jmp", 1, 1, 1), 4), I("unm", 1, 1, 1)>>
Frames(xs, ys) == {<<x, y, Nil>> : x \in xs, y \in ys}
On(c, constant, frames) == [code |-> c, constants |-> constant, frames |-> frames]
Registers ==
  {On(<<I(op, 3, 1, 2)>>, <<>>, Frames(Numbers, Numbers) \cup Frames(Others, Some) \cup Frames(Some, Others)) : op \in Ops}
  \cup {On(<<I(op, 3, 1, 1)>>, <<>>, Frames(Numbers \cup Others, {Nil})) : op \in Unary}
  \cup {On(Compares(op, 1, 1, 2), <<>>, Frames(Numbers \cup Others, Numbers \cup Others)) : op \in Tests}
Constants ==
  {On(<<I(op, 3, 1, -2)>>, <<Nil, k>>, Frames(Some, {Nil})) : op \in Ops, k \in Some \cup {Integer(n) : n \in -7 .. 7}}
  \cup {On(<<I(op, 3, -1, 2)>>, <<k, Nil>>, Frames({Nil}, Some)) : op \in Ops, k \in Some}
  \cup {On(<<I(op, 3, -1, -2)>>, <<j, k>>, Frames({Nil}, {Nil})) : op \in Ops, j \in Few, k \in Few}
  \cup {On(Compares(op, 0, 1, -2), <<Nil, k>>, Frames(Some, {Nil})) : op \in Tests, k \in Some \cup {Str(1, "short"), Str(5, "long")}}
\* b * k, then its sum with c; a jump over the multiply; other pairs that
\* only look alike.
Fused ==
  {On(<<I("mul", t, 1, -1), I("add", a, t, c)>>, <<k>>, {<<x, y, z>> : x \in Few, y \in Few, z \in {Float(1), Integer(3)}}) :
     t \in 1 .. 3, a \in 1 .. 3, c \in 1 .. 3, k \in {Float(3), Float(14), Integer(3)}}
  \cup {On(<<I("lt", 1, 1, 2), To(I("jmp", 1, 1, 1), 4), I("mul", 3, 1, -1), I("add", 1, 3, 2)>>, <<Float(3)>>,
           {<<x, y, Float(6)>> : x \in Few, y \in Few}),
        On(<<I("mul", 3, 1, -1), I("add", 1, 2, 3)>>, <<Float(3)>>, Frames(Few, Few)),
        On(<<I("mul", 3, 1, -1), I("add", 1, 3, -1)>>, <<Float(3)>>, Frames(Few, Few)),
        On(<<I("mul", 3, -1, 1), I("add", 1, 3, 2)>>, <<Float(3)>>, Frames(Few, Few))}
ForLoops ==
  {On(<<[To(I("forprep", 1, 1, 1), 2) EXCEPT !.skip = 3], To(I("forloop", 1, 1, 1), 2)>>, <<>>,
      {<<index, limit, step, Nil>> : index \in Some, limit \in Some \cup {Nil}, step \in Some}
      \cup {<<index, limit, step, Nil>> : index \in Few, limit \in Few \cup Others, step \in Few \cup {Nil}})}
MCPrograms == Registers \cup Constants \cup Fused \cup ForLoops
=============================================================================
