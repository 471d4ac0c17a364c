---------------------------- MODULE CompiledCode ----------------------------
(* The ordinary compiled code of one instruction, on either processor. *)
EXTENDS Native

X == INSTANCE Amd64 WITH Sse41 <- TRUE
A == INSTANCE Arm64

\* What the code for i makes of its operands and a loop's own registers.
Compiled(processor, i, b, c, own) ==
  LET On(amd64, arm64) == IF processor = "amd64" THEN amd64 ELSE arm64
  IN  CASE i.op \in {"add", "sub", "mul", "div"} -> On(X!ArithOn(i.op, b, c), A!ArithOn(i.op, b, c))
        [] i.op \in {"mod", "idiv"} -> On(X!Divide(i.op, b, c), A!Divide(i.op, b, c))
        [] i.op \in Bitwise -> On(X!BitwiseOn(i.op, b, c), A!BitwiseOn(i.op, b, c))
        [] i.op = "unm" -> On(X!UnaryMinus(b), A!UnaryMinus(b))
        [] i.op = "eq" -> On(X!Equal(i.a = 1, b, c), A!Equal(i.a = 1, b, c))
        [] i.op \in {"lt", "le"} -> On(X!Order(i.op, i.a = 1, b, c), A!Order(i.op, i.a = 1, b, c))
        [] i.op = "forprep" -> On(X!Prep(own), A!Prep(own))
        [] i.op = "forloop" -> On(X!Loop(own), A!Loop(own))
        [] OTHER -> Exit
=============================================================================
