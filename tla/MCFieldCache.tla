---------------------------- MODULE MCFieldCache ----------------------------
(* FieldCache for TLC: programs with an object, its class and a base class. *)
EXTENDS FieldCache

CONSTANTS o, c, d, x

Has(k, v) == [key |-> k, value |-> v]
None == [k \in {} |-> {}]

\* Reads of o.f along a chain of classes that gain, lose and change fields.
Inherited ==
  [start |-> (o :> <<Has(Field, x)>> @@ c :> <<Has(Index, c)>> @@ d :> <<Has(Field, x), Has(Index, d)>>),
   fields |-> (o :> (Field :> {x}) @@ c :> (Field :> {x} @@ Index :> {c, d}) @@ d :> (Field :> {x})),
   metas |-> (o :> {c} @@ c :> {d} @@ d :> {d}),
   dicts |-> {}, sites |-> Readers, stringMetas |-> {Nil}]

\* Reads of objects, classes and strings that become dictionaries.
Dictionaries ==
  [start |-> (o :> <<Has(Index, o)>> @@ c :> <<>> @@ d :> <<>>),
   fields |-> (o :> None @@ c :> (Field :> {x} @@ Index :> {c}) @@ d :> None),
   metas |-> (o :> {c} @@ c :> {} @@ d :> {}),
   dicts |-> {c}, sites |-> Readers, stringMetas |-> {Nil, c}]

\* Writes to objects whose class gains and loses __newindex.
Written ==
  [start |-> (o :> <<>> @@ c :> <<Has(Field, x)>> @@ d :> <<>>),
   fields |-> (o :> (Field :> {x}) @@ c :> (Field :> {x} @@ NewIndex :> {Fn}) @@ d :> None),
   metas |-> (o :> {c} @@ c :> {} @@ d :> {}),
   dicts |-> {o, c}, sites |-> Writers, stringMetas |-> {Nil}]

MCPrograms == {Inherited, Dictionaries, Written}
=============================================================================
