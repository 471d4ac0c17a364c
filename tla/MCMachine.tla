------------------------------- MODULE MCMachine -------------------------------
(***************************************************************************)
(* Programs for Machine: families that put every statement and operator    *)
(* next to the others it interacts with.                                   *)
(***************************************************************************)
EXTENDS Machine

Name(n) == [is |-> "name", name |-> n]
Value(v) == [is |-> "value", v |-> v]
Op(o) == [is |-> "op", op |-> o]
Str(x) == <<"string", x>>
IndexOf(t, k) == [is |-> "index", of |-> t, key |-> k]
CallOf(f, args) == [is |-> "call", of |-> f, args |-> args]
Method(t, k, args) == [is |-> "method", of |-> t, key |-> k, args |-> args]
Paren(e) == [is |-> "paren", e |-> e]
Getter(n) == [is |-> "getter", name |-> n]
TableWith(items) == [is |-> "table", items |-> items]
Item(v) == [key |-> <<>>, value |-> v]
Pair(k, v) == [key |-> k, value |-> v]
DotsX == [is |-> "dots"]

LocalOf(names, exprs) == [do |-> "local", names |-> names, exprs |-> exprs, close |-> 0]
LocalClose(name, exprs) == [do |-> "local", names |-> <<name>>, exprs |-> exprs, close |-> 1]
Assign(l, r) == [do |-> "assign", left |-> l, right |-> r]
Do(b) == [do |-> "do", body |-> b]
CallDo(f, args) == [do |-> "call", e |-> CallOf(f, args)]
If(c, b, e) == [do |-> "if", tests |-> <<[cond |-> c, body |-> b]>>, otherwise |-> e]
WhileDo(c, b) == [do |-> "while", cond |-> c, body |-> b]
RepeatOf(b, c) == [do |-> "repeat", body |-> b, cond |-> c]
ForOf(n, es, b) == [do |-> "for", name |-> n, exprs |-> es, body |-> b]
ForIn(ns, es, b) == [do |-> "forin", names |-> ns, exprs |-> es, body |-> b]
BreakOut == [do |-> "break"]
Goto(n) == [do |-> "goto", name |-> n]
LabelOf(n) == [do |-> "label", name |-> n]
ReturnOf(es) == [do |-> "return", exprs |-> es]

A == Name("a")
B == Name("b")
G == Name("g")
Fn(f, args) == CallOf(Name(f), args)
E(x) == <<x>>
One == Value(Num(1))
NilX == Value(Nil)
Both(x, y) == {p \o q : p \in x, q \in y}
Return1(e) == ReturnOf(<<e>>)

\* Two local variables, one of them perhaps false.
Prelude == <<LocalOf(<<"a", "b">>, <<E(Fn("f", <<>>)), E(Fn("maybe", <<>>))>>)>>

-----------------------------------------------------------------------------
\* Conditions: operators that jump, with and without not and parentheses.
Pre == {<<>>, <<Op("not")>>}
Jumping == {"and", "or", "==", "<"}
Conditions ==
  {p \o <<A, Op(x)>> \o q \o <<y, Op(z), v>> :
     p \in Pre, q \in Pre, x \in Jumping, z \in Jumping,
     y \in {Fn("maybe", <<>>), B, NilX}, v \in {Fn("maybe", <<>>)}}
  \union {p \o <<Paren(q \o <<A, Op(x), y>>), Op(z), B>> :
     p \in Pre, q \in Pre, x \in Jumping, z \in {"and", "or", ">="},
     y \in {One, NilX}}
Contexts(e) ==
  { <<Return1(e)>>, <<If(e, <<CallDo(G, <<e>>)>>, <<CallDo(G, <<E(B)>>)>>)>>,
    <<Assign(<<B>>, <<e>>), LocalOf(<<"c">>, <<e>>), Return1(E(B))>> }

\* Values: operators that do not jump.
Factors == {A, One, G, Fn("two", <<>>), IndexOf(A, E(Value(Str("k")))), Paren(<<A, Op("and"), B>>)}
Sums ==
  {p \o <<x, Op(o), y, Op(q), z>> :
     p \in {<<>>, <<Op("-")>>}, x \in Factors, y \in Factors \ {G, One}, z \in {G},
     o \in {"..", "+"}, q \in {"..", "+", "~="}}

\* Multiple assignment, where targets use variables assigned.
Target == {A, B, G, IndexOf(A, E(B)), IndexOf(G, E(A)), IndexOf(B, <<A, Op(".."), One>>)}
Lists == { <<E(One)>>, <<E(B), E(A)>>, <<E(Fn("two", <<>>))>>, <<E(NilX), E(DotsX)>>,
           <<E(A), E(Fn("none", <<>>)), <<A, Op("or"), B>>>> }
Assignments ==
  {<<Assign(t, r), Return1(<<A, Op("=="), B>>)>> :
     t \in {<<x, y>> : x \in Target, y \in Target} \union {<<x, B, y>> : x \in Target, y \in Target \ {G}}, r \in Lists}

\* Calls, methods and constructors with more or fewer values than places.
Multi == {E(Fn("two", <<>>)), E(DotsX), E(Fn("none", <<>>)), E(Paren(E(DotsX))), <<A, Op("+"), One>>}
Items ==
  { <<Item(E(A)), Item(E(B)), Item(E(G)), Item(m)>> : m \in Multi }
  \union { <<Item(m), Pair(E(A), m), Item(E(One)), Item(m)>> : m \in Multi }
Calls ==
  {<<Return1(E(Fn("f", <<m, n>>)))>> : m \in Multi, n \in Multi}
  \union {<<LocalOf(<<"x", "y", "z">>, <<m, n>>), Return1(E(Name("y")))>> : m \in Multi, n \in Multi}
  \union {<<ReturnOf(<<m, n>>)>> : m \in Multi, n \in Multi}
  \union {<<Return1(E(Method(A, Str("k"), <<m>>)))>> : m \in Multi}
  \union {<<LocalOf(<<"t">>, <<E(TableWith(l))>>),
             ReturnOf(<<E(IndexOf(Name("t"), E(One))), E(IndexOf(Name("t"), E(Value(Num(4))))),
                        E(IndexOf(Name("t"), E(A))), <<Op("#"), Name("t")>>>>)>> : l \in Items}

-----------------------------------------------------------------------------
\* Scopes: what a body does with its variable x, how it is left, and what
\* surrounds it.
MaybeDo(b) == If(E(Fn("maybe", <<>>)), b, <<>>)
X == Name("x")
Keeps ==
  { <<LocalOf(<<"x">>, <<E(Fn("f", <<>>))>>), Assign(<<G>>, <<E(Getter("x"))>>)>>,
    <<LocalClose("x", <<E(Fn("f", <<>>))>>)>>,
    <<LocalOf(<<"x">>, <<>>), LocalOf(<<"y">>, <<E(A)>>), Assign(<<G>>, <<E(Getter("y"))>>), Assign(<<X>>, <<E(Name("y"))>>)>>,
    <<LocalOf(<<"x">>, <<E(A)>>), LocalClose("y", <<E(Fn("maybe", <<>>))>>), Assign(<<G, Name("h")>>, <<E(Getter("x")), E(Getter("x"))>>)>> }
Stay == {<<>>, <<MaybeDo(<<Goto("out")>>)>>, <<MaybeDo(<<Return1(E(Fn("two", <<E(X)>>)))>>)>>}
Leaves == Stay \union
  { <<MaybeDo(<<BreakOut>>)>>,
    <<MaybeDo(<<LocalClose("z", <<E(X)>>), Assign(<<Name("h")>>, <<E(Getter("z"))>>), BreakOut>>)>> }
Skipped(b) == <<Do(b \o <<MaybeDo(<<Goto("next")>>), CallDo(A, <<>>), LabelOf("next")>>)>>
Loops(b) ==
  { <<WhileDo(E(Fn("maybe", <<>>)), b)>>,
    <<RepeatOf(b, <<X, Op("and"), Fn("maybe", <<>>)>>)>>,
    <<ForOf("i", <<E(One), E(Value(Num(5))), E(Value(Num(2)))>>, b)>>,
    <<ForOf("i", <<E(Value(Num(2))), E(One), <<Op("-"), One>>>>, b \o <<Do(<<Assign(<<A>>, <<E(Getter("i"))>>)>>)>>)>>,
    <<ForOf("i", <<E(Value(Num(2))), E(One)>>, b)>>,
    <<ForIn(<<"i", "j">>, <<E(Fn("pairs", <<E(A)>>))>>, b)>>,
    <<ForIn(<<"i">>, <<E(Name("next")), E(A), E(Value(Num(0)))>>, b \o <<Assign(<<B>>, <<E(Name("i"))>>)>>)>> }
Again(b) == <<LabelOf("top"), Do(b \o <<MaybeDo(<<Goto("top")>>)>>)>>

\* The variables that were kept are called for what they hold.
Finally == <<LocalOf(<<"u", "v">>, <<E(Fn("f", <<>>))>>), ReturnOf(<<E(Fn("g", <<>>)), E(Fn("h", <<>>))>>)>>
Bodies ==
  UNION {Loops(k \o l) : k \in Keeps, l \in Leaves}
  \union {Again(k \o l) : k \in Keeps, l \in Stay}
  \union {<<WhileDo(E(Fn("maybe", <<>>)), Skipped(k))>> : k \in Keeps}
  \union UNION {Loops(<<LocalOf(<<"x">>, <<E(A)>>), Assign(<<Name("h")>>, <<E(Getter("x"))>>),
                         RepeatOf(k \o l, E(Fn("maybe", <<>>)))>>) : k \in Keeps, l \in Stay}
Scopes == {b \o <<LabelOf("out")>> \o Finally : b \in Bodies}

\* Variables without a value, where jumps arrive and where none does.
Nils ==
  { <<MaybeDo(<<LocalOf(<<"c">>, <<>>), CallDo(A, <<E(Name("c"))>>), LocalOf(<<"d">>, <<>>)>>),
      LocalOf(<<"c">>, <<>>), LocalOf(<<"d">>, <<>>), ReturnOf(<<E(Name("c")), E(Name("d"))>>)>>,
    <<MaybeDo(<<LocalOf(<<"c", "d">>, <<>>)>>), LocalOf(<<"c">>, <<>>), Assign(<<B>>, <<E(NilX)>>),
      ReturnOf(<<E(Name("c")), E(B)>>)>>,
    <<LocalOf(<<"c", "d">>, <<E(One)>>), Assign(<<B, Name("d")>>, <<E(NilX), E(NilX)>>), LocalOf(<<"e">>, <<>>),
      ReturnOf(<<E(B), E(Name("c")), E(Name("e"))>>)>> }

\* Values whose operations call a metamethod.
Meta == Name("meta")
MetaUses == {E(IndexOf(Meta, E(One))), <<A, Op("+"), Meta>>, <<Op("#"), Meta>>, <<Meta, Op("<"), A>>}
Handlers ==
  {<<LocalOf(<<"c", "d">>, <<E(One), e>>), Assign(<<IndexOf(Meta, E(A))>>, <<E(B)>>),
     ReturnOf(<<E(Fn("f", <<E(A), E(B), e>>)), E(Name("c")), E(Name("d"))>>)>> : e \in MetaUses}

Bare == UNION {Contexts(e) : e \in Conditions} \union {<<Return1(e)>> : e \in Sums} \union Assignments \union Calls
        \union Scopes \union Nils \union Handlers
MCPrograms == {Prelude \o p : p \in Bare}

\* A concatenation, and then a metamethod with registers in use above it.
ConcatPrograms ==
  {Prelude \o <<LocalOf(<<"c">>, <<<<A, Op(".."), B>>>>), LocalOf(<<"d">>, <<E(One)>>), LocalOf(<<"e">>, <<e>>),
                 ReturnOf(<<E(Name("c")), E(Name("d")), E(Name("e"))>>)>> : e \in MetaUses}
MCCompiled == LET compiled == [p \in MCPrograms |-> Compile(p)] IN compiled
MCMeanings == LET meanings == [p \in MCPrograms |-> [yes \in BOOLEAN |-> MeaningOf(p, yes)]] IN meanings
ConcatCompiled == LET compiled == [p \in ConcatPrograms |-> Compile(p)] IN compiled
ConcatMeanings ==
  LET meanings == [p \in ConcatPrograms |-> [yes \in BOOLEAN |-> MeaningOf(p, yes)]] IN meanings
=============================================================================
