-------------------------------- MODULE Machine --------------------------------
(***************************************************************************)
(* The virtual machine running one compiled function: an action for every  *)
(* instruction, on the frame's registers, the stack top, the upvalues and  *)
(* the list of to-be-closed variables.  Host functions and metamethods     *)
(* leave junk above where they are called.  It is checked that a program   *)
(* does what Meaning says.                                                 *)
(***************************************************************************)
EXTENDS Parser, Meaning

CONSTANTS Programs,  \* trees, as in Parser
          Compiled,  \* the function that Compile makes of each
          Meanings   \* and what MeaningOf says of it, for each way to answer

VARIABLES code,     \* the compiled instructions
          size,     \* the registers they ask for
          captures, \* whether the function has closures in it
          sane,     \* whether what the compiler asserts held
          stack,    \* registers, and the slots above the frame
          pc,       \* the next instruction
          top,      \* the first free slot: State.top
          upValues, \* captured variables: in a register, or closed with a value
          tbc,      \* registers of the variables to be closed
          w,        \* the world
          meaning,  \* the trace the program should have
          done
vars == <<code, size, captures, sane, stack, pc, top, upValues, tbc, w, meaning, done>>

Junk == <<"junk">>
Beyond == 4  \* slots above the frame: as many as dots or results overflow it by

Init ==
  \E p \in Programs, yes \in BOOLEAN :
    LET f == Compiled[p]
    IN /\ code = f.code /\ size = f.maxStack /\ captures = f.captures /\ sane = f.sane
       /\ stack = [r \in 0 .. f.maxStack + Beyond |-> Junk]
       /\ pc = 1 /\ top = f.maxStack /\ upValues = <<>> /\ tbc = <<>> /\ w = NewWorld(yes)
       /\ meaning = Meanings[p][yes] /\ done = FALSE

i == code[pc]
K(o) == IF o[1] = "K" THEN o[2] ELSE stack[o[2]]
Table(o) == IF o[1] = "R" THEN stack[o[2]] ELSE Globals
Fixed == UNCHANGED <<code, size, captures, sane, meaning>>
Static == Fixed /\ UNCHANGED <<tbc, done>>
Pure == Static /\ UNCHANGED <<top, upValues, w>>
Advance == pc' = pc + 1

\* What a call from slot s may leave.
Over(st, s) == [r \in DOMAIN st |-> IF r >= s THEN Junk ELSE st[r]]

\* The stack after an operation on value v: a metamethod runs at the top.
After(v) == IF Handled(v) THEN Over(stack, top) ELSE stack

\* NEWTABLE, CLOSURE and CONCAT clear the frame from register r.
Cleared(st, r) == [x \in DOMAIN st |-> IF x >= r /\ x < size THEN Nil ELSE st[x]]

-----------------------------------------------------------------------------
(* Upvalues and to-be-closed variables.                                    *)
OpenAt(r) == {n \in DOMAIN upValues : upValues[n].open /\ upValues[n].at = r}
ClosedFrom(us, r) ==
  [n \in DOMAIN us |-> IF us[n].open /\ us[n].at >= r THEN [us[n] EXCEPT !.open = FALSE, !.v = stack[us[n].at]] ELSE us[n]]

HasTBC(r) == tbc # <<>> /\ Last(tbc) >= r

\* The to-be-closed variables from register r, called from slot s.
CloseTBC(r, s) ==
  LET closing == SelectSeq(Reverse(tbc), LAMBDA x : x >= r)
  IN /\ tbc' = SelectSeq(tbc, LAMBDA x : x < r)
     /\ w' = FoldLeft(LAMBDA v, x : Closed(v, stack[x]), w, closing)
     /\ stack' = IF closing = <<>> THEN stack ELSE Over(stack, s)

\* jumpFrom, of the jump at j
JumpFrom(j) ==
  LET a == code[j].a
  IN /\ pc' = code[j].b
     /\ IF a = 0 THEN UNCHANGED <<upValues, tbc>>
        ELSE upValues' = ClosedFrom(upValues, a - 1) /\ tbc' = SelectSeq(tbc, LAMBDA x : x < a - 1)

\* The rest of a test whose outcome is yes: its jump, or past that.
Branch(yes, st, world) ==
  LET a == code[pc + 1].a
      closing == SelectSeq(Reverse(tbc), LAMBDA x : x >= a - 1)
      closes == yes /\ a > 0 /\ closing # <<>>
  IN /\ IF yes THEN JumpFrom(pc + 1) ELSE pc' = pc + 2 /\ UNCHANGED <<upValues, tbc>>
     /\ w' = IF closes THEN FoldLeft(LAMBDA v, x : Closed(v, st[x]), world, closing) ELSE world
     /\ stack' = IF closes THEN Over(st, size) ELSE st
     /\ top' = IF closes THEN size ELSE top
     /\ Fixed /\ UNCHANGED done

-----------------------------------------------------------------------------
(* Instructions.                                                           *)
Is(op) == ~done /\ i.op = op

Move == Is("MOVE") /\ stack' = [stack EXCEPT ![i.a] = stack[i.b]] /\ Advance /\ Pure
LoadK == Is("LOADK") /\ stack' = [stack EXCEPT ![i.a] = i.b] /\ Advance /\ Pure
LoadBool ==
  /\ Is("LOADBOOL") /\ stack' = [stack EXCEPT ![i.a] = Bool(i.b = 1)]
  /\ pc' = IF i.c = 1 THEN pc + 2 ELSE pc + 1
  /\ Pure
LoadNils ==
  /\ Is("LOADNIL")
  /\ stack' = [r \in DOMAIN stack |-> IF r \in i.a .. i.a + i.b THEN Nil ELSE stack[r]]
  /\ Advance /\ Pure

GetTable ==
  /\ i.op \in {"GETTABLE", "GETTABUP"} /\ ~done
  /\ w' = Read(w, Table(i.b), K(i.c))
  /\ stack' = [After(Table(i.b)) EXCEPT ![i.a] = Field(w, Table(i.b), K(i.c))]
  /\ Advance /\ Static /\ UNCHANGED <<top, upValues>>

SetTable ==
  /\ i.op \in {"SETTABLE", "SETTABUP"} /\ ~done
  /\ w' = Write(w, Table(i.a), K(i.b), K(i.c))
  /\ stack' = After(Table(i.a))
  /\ Advance /\ Static /\ UNCHANGED <<top, upValues>>

SelfField ==
  LET t == stack[i.b[2]]
  IN /\ Is("SELF")
     /\ w' = Read(w, t, K(i.c))
     /\ stack' = [After(t) EXCEPT ![i.a + 1] = t, ![i.a] = Field(w, t, K(i.c))]
     /\ Advance /\ Static /\ UNCHANGED <<top, upValues>>

NewTable ==
  /\ Is("NEWTABLE") /\ w' = NewTableIn(w)
  /\ stack' = Cleared([stack EXCEPT ![i.a] = TableOf(w')], i.a + 1)
  /\ Advance /\ Static /\ UNCHANGED <<top, upValues>>

Arithmetic ==
  LET x == K(i.b)
      y == IF i.op = "ADD" THEN K(i.c) ELSE x
  IN /\ i.op \in {"ADD", "UNM", "LEN"} /\ ~done
     /\ stack' = [After(IF Handled(x) THEN x ELSE y) EXCEPT ![i.a] = Computed(i.op, x, y)]
     /\ Advance /\ Pure

Not == Is("NOT") /\ stack' = [stack EXCEPT ![i.a] = Bool(Falsy(stack[i.b]))] /\ Advance /\ Pure

\* concat leaves the top above its first operand.
Concatenated(st) == Cleared(st, IF i.a >= i.b THEN i.a + 1 ELSE i.b)

Concat ==
  LET operands == [n \in 1 .. i.c - i.b + 1 |-> stack[i.b + n - 1]]
      all == FoldRight(LAMBDA x, y : <<"CONCAT", x, y>>, Front(operands), Last(operands))
  IN /\ Is("CONCAT")
     /\ stack' = Concatenated([stack EXCEPT ![i.b] = all, ![i.a] = all])
     /\ top' = i.b + 1
     /\ Advance /\ Static /\ UNCHANGED <<upValues, w>>

JumpTo ==
  /\ Is("JMP") /\ JumpFrom(pc)
  /\ IF i.a > 0 /\ HasTBC(i.a - 1) THEN CloseTBC(i.a - 1, size) /\ top' = size
     ELSE UNCHANGED <<stack, top, w>>
  /\ Fixed /\ UNCHANGED done

\* A generic for's closing value and control variable change places.
NewTBC ==
  LET st == IF i.b = 1 THEN [stack EXCEPT ![i.a] = stack[i.a + 1], ![i.a + 1] = stack[i.a]] ELSE stack
  IN /\ Is("TBC") /\ stack' = st
     /\ tbc' = IF Falsy(st[i.a]) THEN tbc ELSE Append(tbc, i.a)
     /\ Advance /\ Fixed /\ UNCHANGED <<top, upValues, w, done>>

Compare ==
  LET x == K(i.b)
      y == K(i.c)
  IN /\ i.op \in {"EQ", "LT", "LE"} /\ ~done
     /\ Branch(Holds(w, i.op, x, y) = (i.a = 1), After(IF Handled(x) THEN x ELSE y), Compared(w, i.op, x, y))

Test == Is("TEST") /\ Branch(Falsy(stack[i.a]) = (i.c = 0), stack, w)
TestSet ==
  LET v == stack[i.b]
      yes == Falsy(v) = (i.c = 0)
  IN Is("TESTSET") /\ Branch(yes, IF yes THEN [stack EXCEPT ![i.a] = v] ELSE stack, w)

\* The call at register a: its arguments, its results, and the stack with
\* them, n or as many as there are if n is less than zero.
Args(a, b) == LET last == IF b = 0 THEN top - 1 ELSE a + b - 1 IN [n \in 1 .. last - a |-> stack[a + n]]
Got(fn) == IF fn[1] # "getter" THEN Nil ELSE LET u == upValues[fn[2]] IN IF u.open THEN stack[u.at] ELSE u.v
Placed(st, a, values, n) ==
  LET count == IF n < 0 THEN Len(values) ELSE n
  IN [r \in DOMAIN st |-> IF r < a THEN st[r]
                          ELSE IF r < a + count THEN (IF r - a < Len(values) THEN values[r - a + 1] ELSE Nil)
                          ELSE Junk]
CallAt(a, args, n) ==
  LET results == Results(w, stack[a], args, Got(stack[a]))
  IN /\ w' = Called(w, stack[a], args, results)
     /\ stack' = Placed(stack, a, results, n)
     /\ top' = IF n < 0 THEN a + Len(results) ELSE size

Call == Is("CALL") /\ CallAt(i.a, Args(i.a, i.b), i.c - 1) /\ Advance /\ Static /\ UNCHANGED upValues
TailCall == Is("TAILCALL") /\ CallAt(i.a, Args(i.a, i.b), MultipleReturns) /\ Advance /\ Static /\ UNCHANGED upValues

TForCall ==
  LET st == [stack EXCEPT ![i.a + 5] = stack[i.a + 3], ![i.a + 4] = stack[i.a + 1], ![i.a + 3] = stack[i.a]]
      results == Results(w, st[i.a + 3], <<st[i.a + 4], st[i.a + 5]>>, Nil)
  IN /\ Is("TFORCALL")
     /\ w' = Called(w, st[i.a + 3], <<st[i.a + 4], st[i.a + 5]>>, results)
     /\ stack' = Placed(st, i.a + 3, results, i.c)
     /\ top' = size
     /\ Advance /\ Static /\ UNCHANGED upValues
TForLoop == Is("TFORLOOP") /\ pc' = (IF stack[i.a + 3] # Nil THEN i.b ELSE pc + 1) /\ UNCHANGED stack /\ Pure

\* The limit's register counts the iterations left.
ForPrep ==
  LET from == stack[i.a][2]
      limit == stack[i.a + 1][2]
      step == stack[i.a + 2][2]
      count == IF step > 0 THEN (limit - from) \div step ELSE (from - limit) \div (-(step + 1) + 1)
      skip == (step > 0 /\ from > limit) \/ (step < 0 /\ from < limit)
  IN /\ Is("FORPREP")
     /\ pc' = IF skip THEN i.b + 1 ELSE pc + 1
     /\ stack' = IF skip THEN stack ELSE [stack EXCEPT ![i.a + 1] = Num(count), ![i.a + 3] = stack[i.a]]
     /\ Pure
ForLoop ==
  LET left == stack[i.a + 1][2]
      index == Num(stack[i.a][2] + stack[i.a + 2][2])
  IN /\ Is("FORLOOP")
     /\ IF left > 0
          THEN stack' = [stack EXCEPT ![i.a] = index, ![i.a + 1] = Num(left - 1), ![i.a + 3] = index] /\ pc' = i.b
          ELSE UNCHANGED stack /\ Advance
     /\ Pure

StoreList ==
  LET n == IF i.b = 0 THEN top - i.a - 1 ELSE i.b
      start == (i.c - 1) * ListItemsPerFlush
      t == stack[i.a]
  IN /\ Is("SETLIST")
     /\ w' = [w EXCEPT !.heap = [x \in {<<t, Num(start + m)>> : m \in 1 .. n} |-> stack[i.a + x[2][2] - start]] @@ @]
     /\ top' = size
     /\ Advance /\ Static /\ UNCHANGED <<stack, upValues>>

\* A closure of the variable in register b; one of the same variable is
\* the same closure.
Closure ==
  LET known == OpenAt(i.b)
      n == IF known # {} THEN Min(known) ELSE Len(upValues) + 1
  IN /\ Is("CLOSURE")
     /\ upValues' = IF known # {} THEN upValues ELSE Append(upValues, [open |-> TRUE, at |-> i.b, v |-> Nil])
     /\ stack' = Cleared([stack EXCEPT ![i.a] = <<"getter", n>>], i.a + 1)
     /\ Advance /\ Static /\ UNCHANGED <<top, w>>

VarArg ==
  LET n == IF i.b = 0 THEN Len(Dots) ELSE i.b - 1
      values == Adjusted(Dots, n)
  IN /\ Is("VARARG")
     /\ stack' = [r \in DOMAIN stack |-> IF r \in i.a .. i.a + n - 1 THEN values[r - i.a + 1] ELSE stack[r]]
     /\ top' = IF i.b = 0 THEN i.a + n ELSE top
     /\ Advance /\ Static /\ UNCHANGED <<upValues, w>>

\* To-be-closed variables are closed before, above the results.
ReturnFrom ==
  LET n == IF i.b = 0 THEN top - i.a ELSE i.b - 1
      closing == Reverse(tbc)
      world == FoldLeft(LAMBDA v, x : Closed(v, stack[x]), w, closing)
      st == IF tbc = <<>> THEN stack ELSE Over(stack, IF top > size THEN top ELSE size)
  IN /\ Is("RETURN")
     /\ upValues' = IF captures \/ tbc # <<>> THEN ClosedFrom(upValues, 0) ELSE upValues
     /\ tbc' = <<>> /\ stack' = st /\ top' = i.a + n
     /\ w' = Happens(world, <<"return", [m \in 1 .. n |-> st[i.a + m - 1]]>>)
     /\ done' = TRUE
     /\ UNCHANGED pc /\ Fixed

Next ==
  \/ Move \/ LoadK \/ LoadBool \/ LoadNils \/ GetTable \/ SetTable \/ SelfField \/ NewTable
  \/ Arithmetic \/ Not \/ Concat \/ JumpTo \/ NewTBC \/ Compare \/ Test \/ TestSet
  \/ Call \/ TailCall \/ TForCall \/ TForLoop \/ ForPrep \/ ForLoop \/ StoreList \/ Closure \/ VarArg \/ ReturnFrom

Spec == Init /\ [][Next]_vars /\ WF_vars(Next)

-----------------------------------------------------------------------------
(* Properties.                                                             *)
\* Instructions name registers of the frame the function asks for, jumps go
\* to instructions, and what the compiler asserts of its registers held.
Jumps == {"JMP", "FORPREP", "FORLOOP", "TFORLOOP"}
NoResult == {"JMP", "EQ", "LT", "LE"}
Operands(c) ==
  CASE c.op \in {"GETTABLE", "GETTABUP", "SELF", "ADD", "EQ", "LT", "LE"} -> {c.b, c.c}
    [] c.op \in {"SETTABLE", "SETTABUP"} -> {c.a, c.b, c.c}
    [] c.op \in {"UNM", "LEN"} -> {c.b}
    [] OTHER -> {}
TypeOK ==
  /\ sane
  /\ pc \in DOMAIN code /\ top \in DOMAIN stack
  /\ \A n \in DOMAIN code :
       LET c == code[n]
       IN /\ \A o \in Operands(c) : IsReg(o) => o[2] < size
          /\ c.op \in Jumps => c.b \in DOMAIN code
          /\ c.op \notin NoResult \union {"SETTABLE", "SETTABUP"} => c.a < size

IsPrefixOf(s, t) == Len(s) <= Len(t) /\ SubSeq(t, 1, Len(s)) = s
\* What the program did so far is how its meaning begins, and all of it at
\* the end.
TraceIsMeaning == IsPrefixOf(w.trace, meaning) /\ (done => w.trace = meaning)

\* An upvalue open at an instruction is a variable active there.
OpenUpvaluesInScope ==
  ~done => \A n \in DOMAIN upValues : upValues[n].open => upValues[n].at < i.live

\* Every program here ends, so its code does: no jump goes astray.
Ends == <>done
=============================================================================
