------------------------------- MODULE MCLoop -------------------------------
(* Loops for TLC: registers 1 and 2 are locals of the enclosing function,  *)
(* 3 to 6 the loop's, 7 to 9 the body's.                                    *)
EXTENDS Loop

I(op, a, b, c) == [op |-> op, a |-> a, b |-> b, c |-> c, to |-> 0]
JmpTo(to) == [op |-> "jmp", a |-> 0, b |-> 0, c |-> 0, to |-> to]
Buffer(n) == [type |-> "buffer", class |-> "finite", n |-> n]

\* The constants of every body: -1 is 1.5, -2 is 3, -3 is -1, -4 is a
\* power of two, -5 has no exact float, -6 is 0.
MCConstants == <<Float(3), Integer(3), Integer(-1), Integer(4), Integer(11), Integer(0), Integer(-3)>>

\* Index, limit and step of a loop: integers, floats, a float limit, and
\* loops whose count or whose next index would overflow.
IntLoops == {<<Integer(1), Integer(3), Integer(1)>>, <<Integer(13), Integer(15), Integer(1)>>,
             <<Integer(15), Integer(-16), Integer(-15)>>}
FloatLoops == {<<Float(1), Float(4), Float(2)>>, <<Integer(1), Float(6), Float(2)>>, <<Float(4), Float(-2), Float(-3)>>}
OtherLoops == {<<Integer(1), Float(5), Integer(1)>>, <<Integer(3), Integer(1), Integer(1)>>}
Locals == {<<Integer(2), Integer(15)>>, <<Float(5), Float(-4)>>, <<Integer(2), Float(3)>>, <<Float(1), Integer(11)>>,
           <<NaN, Float(2)>>, <<Nil, Integer(1)>>}
Starts(locals, loops) ==
  {l \o o \o <<Nil, Integer(9), Float(7), Nil>> : l \in locals, o \in loops}
Function(body, frames, upvalues) ==
  LET latch == Len(body) + 2
  IN  [code |-> <<I("forprep", 3, 0, 0)>> \o body
                 \o <<[op |-> "forloop", a |-> 3, b |-> 0, c |-> 0, to |-> 2]>>,
       latch |-> latch, constants |-> MCConstants, frames |-> frames, upvalues |-> upvalues]
AnyNumbers == Starts(Locals, IntLoops \cup FloatLoops \cup OtherLoops)
Numeric(body) == Function(body, AnyNumbers, {Nil})
Calling(body) == Function(body, Starts(Locals, IntLoops \cup FloatLoops), {Intrinsic, Callee})
Indexing(body) ==
  Function(body, Starts({<<v, Buffer(k)>> : v \in {Integer(2), Float(3), NaN}, k \in 1 .. 3} \cup {<<Float(1), Float(1)>>},
                        {<<Integer(0), Integer(2), Integer(1)>>, <<Integer(1), Integer(-2), Integer(-1)>>,
                         <<Float(0), Float(4), Float(2)>>}), {Nil})

Loops == <<
  \* s = s + i
  Numeric(<<I("add", 1, 1, 6)>>),
  \* local t = i * i; n = n - t; t = i / 3; s = s + t, an integer then a float
  Numeric(<<I("mul", 7, 6, 6), I("sub", 2, 2, 7), I("div", 7, 6, -2), I("add", 1, 1, 7)>>),
  \* if i < 3 then s = i end
  Numeric(<<I("lt", 0, 6, -2), JmpTo(5), I("move", 1, 6, 0)>>),
  \* local t = if s <= n then i else -i; s = s + t
  Numeric(<<I("le", 0, 1, 2), JmpTo(6), I("move", 7, 6, 0), JmpTo(7), I("unm", 7, 6, 0), I("add", 1, 1, 7)>>),
  \* local t = if i == 3 then 1.5 else 3: two types
  Numeric(<<I("eq", 0, 6, -2), JmpTo(6), I("loadk", 7, -1, 0), JmpTo(7), I("loadk", 7, -2, 0), I("add", 1, 1, 7)>>),
  \* s = s + (i // 3) * (i % 4) - i // -1, and -i % -3
  Numeric(<<I("idiv", 7, 6, -2), I("mod", 8, 6, -4), I("mul", 7, 7, 8), I("idiv", 8, 6, -3), I("sub", 7, 7, 8),
            I("unm", 8, 6, 0), I("mod", 8, 8, -7), I("add", 1, 7, 8)>>),
  \* if s <= 3 then n = n + 1.5 end; if s <= 11 then n = n - 1 end; s = s + 1.5
  Numeric(<<I("le", 0, 1, -2), JmpTo(5), I("add", 2, 2, -1)>>),
  Function(<<I("le", 0, 1, -5), JmpTo(5), I("add", 2, 2, -3), I("add", 1, 1, -1)>>,
           Starts(Locals \cup {<<Float(20), Integer(1)>>}, IntLoops), {Nil}),
  \* more integers than amd64 has registers for
  Numeric(<<I("add", 7, 6, 2), I("add", 8, 6, 1), I("mul", 1, 7, 8), I("add", 2, 2, -3)>>),
  \* s = f(i)
  Calling(<<I("getupval", 7, 1, 0), I("move", 8, 6, 0), I("call", 7, 2, 2), I("add", 1, 1, 7)>>),
  \* n = f(i * 1.5), then s = s + 1.5
  Calling(<<I("getupval", 7, 1, 0), I("mul", 8, 6, -1), I("call", 7, 2, 2), I("move", 2, 7, 0), I("add", 1, 1, -1)>>),
  \* local t = i * 1.5; s = s + t; t = f(s); n = t
  Calling(<<I("mul", 7, 6, -1), I("add", 1, 1, 7), I("getupval", 7, 1, 0), I("move", 8, 1, 0), I("call", 7, 2, 2),
            I("move", 2, 7, 0)>>),
  \* if i < 3 then s = f(s) end
  Calling(<<I("lt", 0, 6, -2), JmpTo(8), I("getupval", 7, 1, 0), I("move", 8, 1, 0), I("call", 7, 2, 2),
            I("move", 1, 7, 0)>>),
  \* s = s + b[i], s = b[0] * i
  Indexing(<<I("gettable", 7, 2, 6), I("add", 1, 1, 7)>>),
  Indexing(<<I("gettable", 7, 2, -6), I("mul", 1, 7, 6)>>),
  \* b[i] = i * 1.5; s = i, and b[i] = b[i] + s
  Indexing(<<I("mul", 7, 6, -1), I("settable", 2, 6, 7), I("move", 1, 6, 0)>>),
  Indexing(<<I("gettable", 7, 2, 6), I("add", 7, 7, 1), I("settable", 2, 6, 7)>>),
  \* b[i] = i * i; b[i] = s; s = 3
  Indexing(<<I("mul", 7, 6, 6), I("settable", 2, 6, 7)>>),
  Indexing(<<I("settable", 2, 6, 1), I("loadk", 1, -2, 0)>>)
>>
MCBuffers == << [kind |-> "float64", data |-> <<Float(1), Float(14)>>],
                [kind |-> "float32", data |-> <<Float(3), Float(2), NaN>>],
                [kind |-> "uint8", data |-> <<Integer(7), Integer(1)>>] >>
MCProcessors == {"amd64", "arm64"}
MCMaxFloats == [amd64 |-> 9, arm64 |-> 24]
MCMaxInts == [amd64 |-> 7, arm64 |-> 13]
MCPrograms == Loops
LoopPlans ==
  [p \in MCProcessors |-> [n \in DOMAIN Loops |->
     [type \in {"integer", "float"} |-> PlanKernel(Loops[n], Loops[n].latch, type = "integer", p)]]]
MCPlans == LET compiled == LoopPlans IN compiled
=============================================================================
