----------------------------- MODULE Activations -----------------------------
(***************************************************************************)
(* What calls mean, without a stack: every activation of a function has    *)
(* registers of its own for good, an upvalue is a register of one          *)
(* activation, and results are handed to the caller's registers.  A        *)
(* register is Undef until the program gives it a value, and again once    *)
(* the compiler no longer counts on it.                                    *)
(*   acts     the activations made: registers and extra arguments          *)
(*   frames   those running, each with the pc it continues at, the results *)
(*            its caller wants and where, whether an error stops at it     *)
(*            (Protect called it), and the end of a list of values of open *)
(*            length (0: none)                                             *)
(***************************************************************************)
EXTENDS CallValues, SequencesExt, FiniteSetsExt

CONSTANTS Functions, Handlers, Registers


Top(m) == Last(m.frames)
Instruction(m) == Functions[Top(m).f.n].code[Top(m).pc]
Get(m, r) == m.acts[Top(m).act].registers[r]
List(m, lo, hi) == [k \in 1 .. hi - lo |-> Get(m, lo + k - 1)]
Set(m, lo, vs) ==
  [m EXCEPT !.acts[Top(m).act].registers = [r \in DOMAIN @ |-> IF r \in lo .. lo + Len(vs) - 1 THEN vs[r - lo + 1] ELSE @[r]]]
Forget(m, lo) == [m EXCEPT !.acts[Top(m).act].registers = [r \in DOMAIN @ |-> IF r >= lo THEN Undef ELSE @[r]]]
Advance(m) == [m EXCEPT !.frames[Len(m.frames)].pc = @ + 1, !.frames[Len(m.frames)].open = 0]
EndList(m, end) == [m EXCEPT !.frames[Len(m.frames)].open = end]
Cell(m, u) == m.acts[u[1]].registers[u[2]]

\* Results for registers from dest of the running function.
Deliver(m, dest, wanted, vs) ==
  IF m.frames = <<>> THEN [m EXCEPT !.result = Adjusted(vs, wanted)]
  ELSE EndList(Set(m, dest, Adjusted(vs, wanted)), IF wanted = Multiple THEN dest + Len(vs) ELSE 0)

\* A callable object is an argument of its handler, up to Limit in a row;
\* Apply calls its argument.
Limit == 4
Callee(call) ==
  LET c[k \in 0 .. Limit] ==
        IF k = 0 THEN call
        ELSE LET d == c[k - 1]
             IN  IF Head(d).type = "object" THEN <<Handlers[Head(d).n]>> \o d ELSE d
  IN  c[Limit]
Called(call) == IF Head(Callee(call)) = Apply THEN Callee(Tail(Callee(call))) ELSE Callee(call)
Activate(m, call, dest, wanted, protected) ==
  LET f == Head(call)
      p == Functions[f.n]
      args == Adjusted(Tail(call), Max({p.params, Len(call) - 1}))
  IN  [m EXCEPT !.acts = Append(@, [registers |-> [r \in Registers |-> IF r < p.params THEN args[r + 1]
                                                                       ELSE IF r = p.params /\ p.vararg THEN Nil ELSE Undef],
                                    extra |-> SubSeq(args, p.params + 1, Len(args))]),
                !.frames = Append(@, [act |-> Len(m.acts) + 1, f |-> f, pc |-> 1, wanted |-> wanted, dest |-> dest,
                                      protected |-> protected, open |-> 0])]
\* Protect returns whether its argument returned, and its results or the
\* error.
Status(protected, vs) == IF protected THEN <<Boolean(TRUE)>> \o vs ELSE vs
Returned(m, vs) ==
  Deliver([m EXCEPT !.frames = Front(@)], Top(m).dest, Top(m).wanted, Status(Top(m).protected, vs))
\* An error ends every call up to the last protected one.
Failed(m, error) ==
  LET catch == Max({k \in DOMAIN m.frames : m.frames[k].protected})
  IN  Deliver([m EXCEPT !.frames = SubSeq(@, 1, catch - 1)], m.frames[catch].dest, m.frames[catch].wanted,
              <<Boolean(FALSE), error>>)
Invoke(m, call, dest, wanted) ==
  LET callee == Callee(call)
      protected == Head(callee) = Protect
      c == Called(IF protected THEN Tail(callee) ELSE callee)
  IN  CASE Head(c) = More -> Deliver(m, dest, wanted, Status(protected, Append(Tail(c), Extra)))
        [] Head(c) = Raise /\ protected -> Deliver(m, dest, wanted, <<Boolean(FALSE), c[2]>>)
        [] Head(c) = Raise /\ ~protected -> Failed(m, c[2])
        [] OTHER -> Activate(m, c, dest, wanted, protected)

\* Arguments or results from register a: b - 1 of them, or the open list.
Given(m, a, b) == List(m, a, IF b = 0 THEN Top(m).open ELSE a + b - 1)
Capture(m, p) ==
  Closure(p, [k \in DOMAIN Functions[p].upvalues |->
                  LET d == Functions[p].upvalues[k]
                  IN  IF d.local THEN <<Top(m).act, d.index>> ELSE Top(m).f.upvalues[d.index]])

\* The machine after its next instruction.
Step(m) ==
  LET i == Instruction(m)
      n == Advance(m)
  IN  CASE i.op = "loadk"   -> Set(n, i.a, <<i.k>>)
        [] i.op = "move"    -> Set(n, i.a, <<Get(m, i.b)>>)
        [] i.op = "getup"   -> Set(n, i.a, <<Cell(m, Top(m).f.upvalues[i.b])>>)
        [] i.op = "setup"   -> LET u == Top(m).f.upvalues[i.b]
                               IN  [n EXCEPT !.acts[u[1]].registers[u[2]] = Get(m, i.a)]
        [] i.op = "closure" -> Set(Forget(n, i.a), i.a, <<Capture(m, i.b)>>)
        [] i.op = "vararg"  -> Deliver(Forget(n, i.a), i.a, i.b - 1, m.acts[Top(m).act].extra)
        [] i.op = "index"   -> Invoke(n, <<Handlers[Get(m, i.b).n], Get(m, i.b), Get(m, i.c)>>, i.a, 1)
        [] i.op = "call"    -> Invoke(Forget(n, i.a), <<Get(m, i.a)>> \o Given(m, i.a + 1, i.b), i.a, i.c - 1)
        [] i.op = "tailcall" ->
             LET c == Callee(<<Get(m, i.a)>> \o Given(m, i.a + 1, i.b))
             IN  IF Head(c).type = "lua"
                 THEN Activate([m EXCEPT !.frames = Front(@)], c, Top(m).dest, Top(m).wanted, Top(m).protected)
                 ELSE Invoke(Forget(n, i.a), c, i.a, Multiple)
        [] i.op = "return"  -> Returned(m, Given(m, i.a, i.b))
        [] i.op = "forloop" ->
             LET index == Number(Get(m, i.a).n + Get(m, i.a + 2).n)
                 left == Number(Get(m, i.a + 1).n - 1)
             IN  IF Get(m, i.a + 1).n = 0 THEN n
                 ELSE [Set(Set(n, i.a, <<index, left>>), i.a + 3, <<index>>) EXCEPT !.frames[Len(m.frames)].pc = i.b]
Start(f) == Activate([acts |-> <<>>, frames |-> <<>>, result |-> <<>>], <<f>>, 0, 1, FALSE)
=============================================================================
