------------------------------ MODULE MCFrames ------------------------------
(* Frames for TLC: a library of small functions, and programs that call     *)
(* them.                                                                    *)
EXTENDS Frames

Op(op, a, b, c) == [op |-> op, a |-> a, b |-> b, c |-> c, k |-> Nil]
Load(a, n) == [op |-> "loadk", a |-> a, b |-> 0, c |-> 0, k |-> Number(n)]
Const(a, f) == [op |-> "loadk", a |-> a, b |-> 0, c |-> 0, k |-> f]
Move(a, b) == Op("move", a, b, 0)
GetUp(a, u) == Op("getup", a, u, 0)
SetUp(a, u) == Op("setup", a, u, 0)
Make(a, f) == Op("closure", a, f, 0)
Call(a, b, c) == Op("call", a, b, c)
TailCall(a, b) == Op("tailcall", a, b, 0)
Give(a, b) == Op("return", a, b, 0)
Rest(a, b) == Op("vararg", a, b, 0)
Index(a, b, c) == Op("index", a, b, c)
ForLoop(a, body) == Op("forloop", a, body, 0)
Local(r) == [local |-> TRUE, index |-> r]
Outer(u) == [local |-> FALSE, index |-> u]
Proto(params, size, vararg, upvalues, code) ==
  [params |-> params, size |-> size, vararg |-> vararg, upvalues |-> upvalues, code |-> code,
   kids |-> \E k \in DOMAIN code : code[k].op = "closure"]

\* The library.
Swap == 1       \* function(x, y) return y, x end
Count == 2      \* function() local old = <outer>; <outer> = 5; return old end
Pass == 3       \* function(...) return ... end
Wide == 4       \* function(x) more locals than the stack has room for
Forward == 5    \* function(f, x) return f(x) end
Counter == 6    \* function(x) local f = count over x; f(); return f end
Second == 7     \* function(a, ...) local x = ...; return x, a end
Twice == 8      \* function(f) local x, y = apply(f, 3); return x, y end
Kept == 9       \* function(x) return (count over x)() end
Reader == 10    \* count, over an upvalue of the function around it
Maker == 12     \* function(x) return function() return reader over x end end
Relay == 13     \* function(f, ...) return f(1) end
Answer == 14    \* function(x) return more(7) end
Thrower == 25   \* function(x) error(count over x) end
Indexer == 26   \* function(t) return t[t] end
Risky == 27     \* function(f, x) local y = wide(x); return f(y) end
Library == <<
  Proto(2, 4, FALSE, <<>>, <<Move(2, 1), Move(3, 0), Give(2, 3)>>),
  Proto(0, 2, FALSE, <<Local(0)>>, <<GetUp(0, 1), Load(1, 5), SetUp(1, 1), Give(0, 2)>>),
  Proto(0, 2, TRUE, <<>>, <<Rest(1, 0), Give(1, 0)>>),
  Proto(1, 9, FALSE, <<>>, <<Load(5, 7), Move(8, 0), Move(6, 5), Give(5, 5)>>),
  Proto(2, 4, FALSE, <<>>, <<Move(2, 0), Move(3, 1), TailCall(2, 2), Give(2, 0)>>),
  Proto(1, 3, FALSE, <<>>, <<Make(1, Count), Move(2, 1), Call(2, 1, 1), Give(1, 2)>>),
  Proto(1, 4, TRUE, <<>>, <<Rest(2, 2), Move(3, 0), Give(2, 3)>>),
  Proto(1, 4, FALSE, <<>>, <<Const(1, Apply), Move(2, 0), Load(3, 3), Call(1, 3, 3), Give(1, 3)>>),
  Proto(1, 3, FALSE, <<>>, <<Make(1, Count), Move(2, 1), TailCall(2, 1), Give(2, 0)>>),
  Proto(0, 2, FALSE, <<Outer(1)>>, <<GetUp(0, 1), Load(1, 5), SetUp(1, 1), Give(0, 2)>>),
  Proto(0, 1, FALSE, <<Local(0)>>, <<Make(0, Reader), Give(0, 2)>>),
  Proto(1, 2, FALSE, <<>>, <<Make(1, 11), Give(1, 2)>>),
  Proto(1, 4, TRUE, <<>>, <<Move(2, 0), Load(3, 1), TailCall(2, 2), Give(2, 0)>>),
  Proto(1, 3, FALSE, <<>>, <<Const(1, More), Load(2, 7), Call(1, 2, 0), Give(1, 0)>>),
  \* 15: local a, b, c = swap(1); local d = wide(2); return b, c
  Proto(0, 6, FALSE, <<>>, <<Make(0, Swap), Make(1, Wide), Move(2, 0), Load(3, 1), Call(2, 2, 4), Move(4, 1), Load(5, 2),
                             Call(4, 2, 2), Move(5, 3), Give(3, 3)>>),
  \* 16: local g, h = counter(1), counter(2); return h(), g()
  Proto(0, 5, FALSE, <<>>, <<Make(0, Counter), Move(1, 0), Load(2, 1), Call(1, 2, 2), Move(2, 0), Load(3, 2),
                             Call(2, 2, 2), Call(2, 1, 2), Move(3, 1), Call(3, 1, 2), Give(2, 3)>>),
  \* 17: local x = forward(counter, 4)(); return x, forward(kept, 1)
  Proto(0, 6, FALSE, <<>>, <<Make(0, Kept), Make(1, Counter), Make(2, Forward), Move(3, 2), Move(4, 1), Load(5, 4),
                             Call(3, 3, 2), Call(3, 1, 2), Move(1, 3), Move(3, 0), Load(4, 1), Move(0, 1), Call(2, 3, 2),
                             Move(1, 2), Give(0, 3)>>),
  \* 18: return pass(second(1, 2, 3))
  Proto(0, 7, FALSE, <<>>, <<Make(0, Pass), Make(1, Second), Move(2, 0), Move(3, 1), Load(4, 1), Load(5, 2), Load(6, 3),
                             Call(3, 4, 0), Call(2, 0, 3), Give(2, 3)>>),
  \* 19: local x, y = twice(swap); return apply(twice, swap)
  Proto(0, 5, FALSE, <<>>, <<Make(0, Swap), Make(1, Twice), Move(2, 1), Move(3, 0), Call(2, 2, 3), Const(2, Apply),
                             Move(3, 1), Move(4, 0), TailCall(2, 3), Give(2, 0)>>),
  \* 20: local x = t[6]; return t, t(x)
  Proto(0, 5, FALSE, <<>>, <<Const(0, Object(1)), Load(1, 6), Index(2, 0, 1), Move(3, 0), Move(4, 2), Call(3, 2, 3), Give(2, 4)>>),
  \* 21: local x = u[6]; x = u(x); return apply(u, more(x))
  Proto(0, 6, FALSE, <<>>, <<Const(0, Object(2)), Load(1, 6), Index(2, 0, 1), Move(3, 0), Move(4, 2), Call(3, 2, 2), Move(2, 3),
                             Const(3, Apply), Move(4, 0), Const(5, More), Call(5, 1, 0), Call(3, 0, 2), TailCall(0, 2), Give(0, 0)>>),
  \* 22: local f, g = maker(1), maker(2); return f()(), f()(), g()()
  Proto(0, 6, FALSE, <<>>, <<Make(0, Maker), Move(1, 0), Load(2, 1), Call(1, 2, 2), Move(2, 0), Load(3, 2), Call(2, 2, 2),
                             Move(3, 1), Call(3, 1, 2), Call(3, 1, 2), Move(4, 1), Call(4, 1, 2), Call(4, 1, 2), Move(5, 2),
                             Call(5, 1, 2), Call(5, 1, 2), Give(3, 4)>>),
  \* 23: return relay(answer, 8)
  Proto(0, 5, FALSE, <<>>, <<Make(0, Relay), Make(1, Answer), Move(2, 0), Move(3, 1), Load(4, 8), Call(2, 3, 3), Give(2, 3)>>),
  \* 24: local f, g = maker(1)(), maker(1)(); f(); return g()
  Proto(0, 4, FALSE, <<>>, <<Make(0, Maker), Move(1, 0), Load(2, 1), Call(1, 2, 2), Call(1, 1, 2), Move(2, 0), Load(3, 1),
                             Call(2, 2, 2), Call(2, 1, 2), Move(3, 1), Call(3, 1, 1), Call(2, 1, 2), Give(2, 2)>>),
  Proto(1, 4, FALSE, <<>>, <<Make(1, Count), Const(2, Raise), Move(3, 1), Call(2, 2, 1), Give(1, 1)>>),
  Proto(1, 2, FALSE, <<>>, <<Index(1, 0, 0), Give(1, 2)>>),
  Proto(2, 5, FALSE, <<>>, <<Make(2, Wide), Move(3, 1), Call(2, 2, 2), Move(3, 0), Move(4, 2), TailCall(3, 2), Give(3, 0)>>),
  \* 28: local x = 0; for i = 1, 3 do x = swap(x, i) end; return x
  Proto(0, 9, FALSE, <<>>, <<Make(0, Swap), Load(1, 0), Load(2, 1), Load(3, 2), Load(4, 1), Load(5, 1), Move(6, 0), Move(7, 1),
                             Move(8, 5), Call(6, 3, 2), Move(1, 6), ForLoop(2, 7), Give(1, 2)>>),
  \* 29: local ok, c = pcall(risky, thrower, 4); local x = c(); local y = wide(x); return x
  Proto(0, 7, FALSE, <<>>, <<Make(0, Risky), Make(1, Thrower), Const(2, Protect), Move(3, 0), Move(4, 1), Load(5, 4),
                             Call(2, 4, 3), Move(4, 3), Call(4, 1, 2), Make(5, Wide), Move(6, 4), Call(5, 2, 2), Give(4, 2)>>),
  \* 30: local ok, e = pcall(indexer, v); local x, y = swap(pcall(more, e)); return pcall(swap, e)
  Proto(0, 8, FALSE, <<>>, <<Make(0, Indexer), Const(1, Protect), Move(2, 0), Const(3, Object(3)), Call(1, 3, 3), Make(3, Swap),
                             Const(4, Protect), Const(5, More), Move(6, 2), Call(4, 3, 0), Call(3, 0, 3), Const(5, Protect),
                             Make(6, Swap), Move(7, 2), TailCall(5, 3), Give(5, 0)>>),
  \* 31: local e = 0; for i = 1, 3 do local ok, x = pcall(error, i); e = x end; return more(pcall(error, e)),
  \* with more locals than the stack has room for
  Proto(0, 20, FALSE, <<>>, <<Load(0, 0), Load(1, 1), Load(2, 2), Load(3, 1), Load(4, 1), Const(5, Protect), Const(6, Raise),
                             Move(7, 4), Call(5, 3, 3), Move(0, 6), ForLoop(1, 6), Const(1, More), Const(2, Protect), Const(3, Raise),
                              Move(4, 0), Call(2, 3, 0), TailCall(1, 0), Give(1, 0)>>),
  \* 32: return pass(1, 2), which needs more room for the copies
  Proto(0, 4, FALSE, <<>>, <<Make(0, Pass), Move(1, 0), Load(2, 1), Load(3, 2), Call(1, 3, 0), Give(1, 0)>>),
  \* 33: return apply(swap, 1, 2), with no more room than its own
  Proto(0, 6, FALSE, <<>>, <<Make(0, Swap), Const(2, Apply), Move(3, 0), Load(4, 1), Load(5, 2), Call(2, 4, 0), Give(2, 0)>>)
>>
MCFunctions == LET functions == Library IN functions
MCHandlers == <<Closure(Swap, <<>>), More, Raise>>
MCMains == (15 .. 22) \union (28 .. 33)
TailCallsFromVarArg == {23}
SameClosures == {24}
MCRegisters == 0 .. 9
=============================================================================
