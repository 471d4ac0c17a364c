--------------------------------- MODULE World ---------------------------------
(***************************************************************************)
(* What a running program can observe, and what answers it: tables it      *)
(* makes or finds, functions of the host it calls, and comparisons of the  *)
(* host's values.  The answers depend only on what happened before, so two *)
(* runs with the same trace saw the same world.  A program's meaning and   *)
(* its compiled code both act on it.                                       *)
(***************************************************************************)
EXTENDS CodeGen, Functions

\* The trace so far, the contents of tables, how many were made, how many
\* questions were asked, and whether their answers start with yes.
NewWorld(yes) == [trace |-> <<>>, heap |-> <<>>, tables |-> 0, asked |-> 0, yes |-> yes]

Happens(w, event) == [w EXCEPT !.trace = Append(@, event)]
\* Yes once, no twice, yes three times: no loop goes on forever.
Answer(w) == (Min({n \in 1 .. w.asked + 1 : n * (n + 1) > 2 * w.asked}) % 2 = 1) = w.yes
Asked(w) == [w EXCEPT !.asked = @ + 1]

Globals == <<"globals">>
Global(name) == <<"at", Globals, <<"string", name>>>>

\* Values whose every operation calls a Lua function of their metatable.
Handled(v) == v = Global("meta")

NewTableIn(w) == [w EXCEPT !.tables = @ + 1]
TableOf(w) == <<"table", w.tables>>

Field(w, t, k) ==
  IF <<t, k>> \in DOMAIN w.heap THEN w.heap[<<t, k>>]
  ELSE IF t[1] = "table" THEN Nil ELSE <<"at", t, k>>
Read(w, t, k) == Happens(w, <<"get", t, k>>)
Write(w, t, k, v) ==
  [Happens(w, <<"set", t, k, v>>) EXCEPT
     !.heap = [x \in DOMAIN @ \union {<<t, k>>} |-> IF x = <<t, k>> THEN v ELSE @[x]]]

\* Results of a call of fn with these arguments; got is the value of the
\* variable a getter returns.
Results(w, fn, args, got) ==
  LET fresh(i) == <<"result", Len(w.trace), i>>
  IN CASE fn = Global("none") -> <<>>
       [] fn = Global("two") -> <<fresh(1), fresh(2)>>
       [] fn = Global("maybe") -> <<Bool(Answer(w))>>
       [] fn = Global("pairs") -> <<Global("next"), fresh(1), Num(0), fresh(2)>>
       [] fn = Global("next") -> IF args[2][2] < 2 THEN <<Num(args[2][2] + 1), fresh(1)>> ELSE <<Nil>>
       [] fn[1] = "getter" -> <<got>>
       [] OTHER -> <<fresh(1)>>
Called(w, fn, args, results) == Happens(IF fn = Global("maybe") THEN Asked(w) ELSE w, <<"call", fn, args, results>>)

Holds(w, op, x, y) ==
  CASE op = "EQ" -> x = y
    [] x[1] = "number" /\ y[1] = "number" -> IF op = "LT" THEN x[2] < y[2] ELSE x[2] <= y[2]
    [] OTHER -> Answer(w)
Compared(w, op, x, y) == Happens(Asked(w), <<op, x, y>>)

Computed(op, x, y) ==
  IF x[1] = "number" /\ y[1] = "number" THEN Num(IF op = "UNM" THEN -x[2] ELSE x[2] + y[2]) ELSE <<op, x, y>>

Closed(w, v) == IF Falsy(v) THEN w ELSE Happens(w, <<"close", v>>)
=============================================================================
