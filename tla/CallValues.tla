----------------------------- MODULE CallValues -----------------------------
(***************************************************************************)
(* The values calls pass: nil, booleans, numbers, callable objects,        *)
(* functions of the host and closures, which are a function and its        *)
(* upvalues.                                                               *)
(***************************************************************************)
EXTENDS Integers, Sequences

Value(type, n) == [type |-> type, n |-> n, upvalues |-> <<>>]
Nil == Value("nil", 0)
Undef == Value("undef", 0)   \* what no instruction may count on
Boolean(b) == Value("boolean", IF b THEN 1 ELSE 0)
Number(n) == Value("number", n)
Object(n) == Value("object", n)
GoFunction(n) == Value("go", n)
Apply == GoFunction(1)    \* calls its first argument with the others
More == GoFunction(2)     \* returns its arguments and one more value
Protect == GoFunction(3)  \* pcall
Raise == GoFunction(4)    \* error
Extra == Number(9)
Closure(f, upvalues) == [type |-> "lua", n |-> f, upvalues |-> upvalues]
Pointer(v) == v.type \notin {"nil", "boolean", "number"}

Multiple == -1
Nils(n) == [k \in 1 .. n |-> Nil]
\* The first count of vs, with nils for those missing.
Adjusted(vs, count) ==
  IF count = Multiple THEN vs ELSE [k \in 1 .. count |-> IF k <= Len(vs) THEN vs[k] ELSE Nil]
=============================================================================
