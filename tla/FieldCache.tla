----------------------------- MODULE FieldCache -----------------------------
(***************************************************************************)
(* Field access with a constant key.  An instruction's cache remembers the *)
(* shapes and slots that its last lookup went through: the receiver's, its *)
(* metatable's and those of a chain of __index tables.  A later lookup     *)
(* compares shapes instead of looking keys up, in the interpreter and,     *)
(* less of it, in compiled code.  Meanwhile tables gain and lose fields,   *)
(* metatables and dictionaries.                                            *)
(***************************************************************************)
EXTENDS TableOps

CONSTANTS
  Tables,
  Index, NewIndex,  \* the keys __index and __newindex
  Field,      \* the constant key of the instructions
  Fn,         \* a function, as a metamethod
  Values,     \* values of the field
  Readers,    \* instructions that read the field
  Writers,    \* instructions that write it
  MaxChain,   \* maxChain, 8 in the code
  Uses,       \* whether "bareMeta" occurs
  Programs    \* bound: the programs considered

ASSUME FieldAssumption == {Index, NewIndex, Field} \subseteq Strings
ASSUME ChainAssumption == MaxChain \in Nat \ {0}

\* What a field can hold besides nil.
Contents == Values \union Tables \union {Fn}
ASSUME ContentsAssumption == IsFiniteSet(Tables) /\ Nil \notin Contents

\* What a program has its tables start with, what it may give the fields of
\* each, its metatables, which tables may become dictionaries, and whether it
\* runs its cached instructions to read or to write.
ASSUME ProgramsAssumption ==
  \A p \in Programs :
    /\ p.start \in [Tables -> Seq([key : Strings, value : Contents])]
    /\ \A t \in Tables : IsInjective([i \in DOMAIN p.start[t] |-> p.start[t][i].key])
    /\ \A t \in Tables : \A k \in DOMAIN p.fields[t] : k \in Strings /\ p.fields[t][k] \subseteq Contents
    /\ p.metas \in [Tables -> SUBSET Tables] /\ p.dicts \subseteq Tables
    /\ p.sites \subseteq Readers \union Writers /\ p.stringMetas \subseteq Tables \union {Nil}

VARIABLES
  program,
  heap,        \* tables, with their metatables and flags
  caches,      \* the cache of each instruction
  stringMeta   \* the metatable of strings

vars == <<program, heap, caches, stringMeta>>

\* A shape is compared by address: a shared one is its keys, a dictionary
\* belongs to its table, and one that was replaced is no table's any more.
Ref(h, t) == IF h[t].shape = RootShape THEN Nil
             ELSE IF h[t].shape.dict THEN <<"dictionary", t>> ELSE h[t].shape.keys
Replaced == <<"replaced">>
StringShape == <<"string">>

\* No shape is taken for another: these names are none of the program's.
ASSUME RefsAssumption ==
  /\ {"dictionary", "replaced", "string"} \intersect Strings = {}
  /\ Nil \notin Seq(Strings) \union {Replaced, StringShape} \union {<<"dictionary", t>> : t \in Tables}

NoChain == [levels |-> <<>>, slot |-> 0]
\* A slot is 0 where the code has -1; the zero value's slots are the first.
Fresh(shape, slot, indexSlot) ==
  [shape |-> shape, slot |-> slot, mtShape |-> Nil, mtSlot |-> 1, index |-> Nil,
   indexSlot |-> indexSlot, chain |-> NoChain]
EmptyCache == Fresh(Nil, 1, 1)

SlotOf(r, k) == IF SlotsOf(r.shape, k) = {} THEN 0 ELSE CHOOSE i \in SlotsOf(r.shape, k) : TRUE

TypeOK ==
  /\ \A t \in Tables :
       /\ Len(heap[t].slots) = Len(heap[t].shape.keys)
       /\ heap[t].shape \in Shape /\ heap[t].meta \in Tables \union {Nil}
       /\ heap[t].absent \subseteq {Index, NewIndex}
  /\ DOMAIN caches = program.sites
  /\ \A s \in DOMAIN caches : Len(caches[s].chain.levels) <= MaxChain
  /\ stringMeta \in Tables \union {Nil}

-----------------------------------------------------------------------------
(* Lookups without a cache: tableAt and setTableAt.                        *)
Found(t, v) == [is |-> "value", v |-> v, in |-> t]
Nothing == Found(Nil, Nil)
Miss == [is |-> "miss"]
Crash == [is |-> "index out of range"]
Calls == [is |-> "call"]
Loops == [is |-> "loop"]

\* The metamethod for an event, unless a flag says there is none.
FastTagMethod(h, t, event) ==
  LET mt == h[t].meta
  IN IF mt = Nil \/ event \in h[mt].absent THEN Nil ELSE At(h[mt], event)

\* Where a lookup of key in object o ends: a table that has the key, a table
\* without one to go to, a function, or after many hops still on its way.
Chase(h, o, key, event) ==
  LET hop[n \in Nat] ==
        IF n = 0 THEN o
        ELSE IF hop[n-1] \in Tables /\ At(h[hop[n-1]], key) = Nil /\ FastTagMethod(h, hop[n-1], event) # Nil
          THEN FastTagMethod(h, hop[n-1], event) ELSE hop[n-1]
  IN hop[Cardinality(Tables) + 1]

\* A failed look for a metamethod sets its flag.
Learn(h, t, event) ==
  LET mt == h[t].meta
  IN IF At(h[t], Field) = Nil /\ mt # Nil /\ At(h[mt], event) = Nil
       THEN [h EXCEPT ![mt].absent = @ \union {event}] ELSE h

AnswerAt(h, end, event) ==
  IF end \notin Tables THEN Calls
  ELSE IF At(h[end], Field) = Nil /\ FastTagMethod(h, end, event) # Nil THEN Loops
  ELSE IF At(h[end], Field) = Nil THEN Nothing ELSE Found(end, At(h[end], Field))

TableAt(h, t) ==
  LET end == Chase(h, t, Field, Index)
      answer == AnswerAt(h, end, Index)
  IN [answer |-> answer, heap |-> IF answer = Nothing THEN Learn(h, end, Index) ELSE h]

\* Mutant: a write leaves the flags as they are.
MutantClear(h, t) == h

\* invalidateTagMethodCache, after every write.
Clear(h, t) == [h EXCEPT ![t].absent = {}]

SetTableAt(h, t, k, v, crowded) ==
  LET end == Chase(h, t, k, NewIndex)
  IN IF end \notin Tables THEN h
     ELSE IF At(h[end], k) # Nil THEN Clear([h EXCEPT ![end] = TryPut(@, k, v)], end)
     ELSE IF FastTagMethod(h, end, NewIndex) # Nil THEN h
     ELSE LET mt == h[end].meta
              known == IF mt = Nil THEN h ELSE [h EXCEPT ![mt].absent = @ \union {NewIndex}]
          IN Clear([known EXCEPT ![end] = Put(@, k, v, crowded)], end)

-----------------------------------------------------------------------------
(* Reading through a cache.                                                *)
OrMiss(t, v) == IF v = Nil THEN Miss ELSE Found(t, v)

\* Follow a chain from table t.
FromChain(h, chain, t) ==
  LET n == Len(chain.levels)
      hop[i \in 0 .. n] ==
        IF i = 0 THEN t
        ELSE LET last == hop[i-1]
                 level == chain.levels[i]
                 mt == IF last = Nil THEN Nil ELSE h[last].meta
                 next == IF mt = Nil \/ Ref(h, mt) # level.mtShape THEN Nil ELSE h[mt].slots[level.mtSlot]
             IN IF next \in Tables /\ Ref(h, next) = level.index THEN next ELSE Nil
      end == hop[n]
  IN IF end = Nil THEN Miss
     ELSE IF chain.slot > 0 THEN OrMiss(end, h[end].slots[chain.slot])
     ELSE IF h[end].meta = Nil THEN Nothing ELSE Miss

FromMeta(h, c, mt) ==
  IF mt = Nil THEN (IF c.mtShape = Nil THEN Nothing ELSE Miss)
  ELSE IF Ref(h, mt) # c.mtShape THEN Miss
  ELSE IF c.mtSlot \notin DOMAIN h[mt].slots THEN Crash
  ELSE LET idx == h[mt].slots[c.mtSlot]
       IN IF idx \notin Tables \/ Ref(h, idx) # c.index THEN Miss
          ELSE IF c.indexSlot > 0 THEN OrMiss(idx, h[idx].slots[c.indexSlot])
          ELSE FromChain(h, c.chain, idx)

\* lookup
Lookup(h, c, t) ==
  IF c.slot > 0 /\ h[t].slots[c.slot] # Nil THEN Found(t, h[t].slots[c.slot])
  ELSE FromMeta(h, c, h[t].meta)

\* indexTable
IndexTable(h, mt) ==
  LET i == SlotOf(h[mt], Index)
      v == IF i = 0 THEN Nil ELSE h[mt].slots[i]
  IN IF v \in Tables /\ Ref(h, v) # Nil THEN v ELSE Nil

NextOf(h, t) == IF t = Nil \/ h[t].meta = Nil THEN Nil ELSE IndexTable(h, h[t].meta)
Hop(h, idx, n) == LET hop[i \in Nat] == IF i = 0 THEN idx ELSE NextOf(h, hop[i-1]) IN hop[n]

\* Mutant: a dictionary is taken never to gain the key.
MutantMayGain(h, t) == FALSE
\* A dictionary without the key may gain it and keep its shape.
MayGain(h, t) == h[t].shape.dict /\ SlotOf(h[t], Field) = 0

ChainEnds(h, idx) ==
  {n \in 0 .. MaxChain : Hop(h, idx, n) # Nil
     /\ (SlotOf(h[Hop(h, idx, n)], Field) > 0 \/ h[Hop(h, idx, n)].meta = Nil)}

\* The chain of __index tables from idx, which has no such key, to one that
\* has, or to where the key is nowhere; Nil if that cannot be cached.
Chain(h, idx) ==
  LET ends == ChainEnds(h, idx)
      last == Min(ends)
      Table(n) == Hop(h, idx, n)
      Level(n) == LET mt == h[Table(n-1)].meta
                  IN [mtShape |-> Ref(h, mt), mtSlot |-> SlotOf(h[mt], Index), index |-> Ref(h, Table(n))]
  IN IF ends = {} \/ \E n \in 0 .. last : MayGain(h, Table(n)) THEN Nil
     ELSE [levels |-> [n \in 1 .. last |-> Level(n)], slot |-> SlotOf(h[Table(last)], Field)]

\* fillIndex, which leaves c alone where it reports false: a chain half
\* rebuilt then is never followed, for mtShape is nil.
FillIndex(h, c, mt) ==
  LET idx == IF mt = Nil THEN Nil ELSE IndexTable(h, mt)
      filled == [c EXCEPT !.mtShape = Ref(h, mt), !.mtSlot = SlotOf(h[mt], Index), !.index = Ref(h, idx)]
  IN IF mt = Nil THEN [ok |-> TRUE, cache |-> c]
     ELSE IF idx = Nil THEN [ok |-> FALSE, cache |-> c]
     ELSE IF SlotOf(h[idx], Field) > 0
       THEN [ok |-> TRUE, cache |-> [filled EXCEPT !.indexSlot = SlotOf(h[idx], Field)]]
     ELSE IF Chain(h, idx) = Nil THEN [ok |-> FALSE, cache |-> c]
     ELSE [ok |-> TRUE, cache |-> [filled EXCEPT !.chain = Chain(h, idx)]]

\* fill
Fill(h, c, t) ==
  LET slot == SlotOf(h[t], Field)
      filled == FillIndex(h, Fresh(Ref(h, t), slot, 0), h[t].meta)
  IN IF Ref(h, t) = Nil \/ (slot = 0 /\ h[t].shape.dict) THEN [answer |-> Miss, cache |-> c]
     ELSE IF ~filled.ok /\ slot = 0 THEN [answer |-> Miss, cache |-> EmptyCache]
     ELSE [answer |-> Lookup(h, filled.cache, t), cache |-> filled.cache]

GetField(h, c, t) ==
  IF Ref(h, t) # Nil /\ Ref(h, t) = c.shape /\ Lookup(h, c, t) # Miss
    THEN [answer |-> Lookup(h, c, t), cache |-> c] ELSE Fill(h, c, t)

\* getStringField, which compiled code uses, with the metatable of strings.
GetStringField(h, c, mt) ==
  LET filled == FillIndex(h, Fresh(StringShape, 0, 0), mt)
  IN IF mt = Nil THEN [answer |-> Miss, cache |-> c]
     ELSE IF c.shape = StringShape /\ c.mtShape # Nil /\ FromMeta(h, c, mt) # Miss
       THEN [answer |-> FromMeta(h, c, mt), cache |-> c]
     ELSE IF filled.ok THEN [answer |-> FromMeta(h, filled.cache, mt), cache |-> filled.cache]
     ELSE [answer |-> Miss, cache |-> EmptyCache]

-----------------------------------------------------------------------------
(* What compiled code reads itself; anything else exits to Go.             *)
Exit == Miss
Element(h, t, slot) == IF slot \in DOMAIN h[t].slots THEN h[t].slots[slot] ELSE Nil

\* Mutant: the first __index table need not have the shape it had.
MutantReadIndex(h, c, mt) ==
  LET first == IF Ref(h, mt) = c.mtShape THEN Element(h, mt, c.mtSlot) ELSE Nil
  IN IF first \notin Tables \/ c.indexSlot = 0 THEN Exit
     ELSE OrMiss(first, Element(h, first, c.indexSlot))

\* readIndex: the field in the first __index table, or the second.
ReadIndex(h, c, mt) ==
  LET first == IF Ref(h, mt) = c.mtShape THEN Element(h, mt, c.mtSlot) ELSE Nil
      chain == c.chain
      mt2 == IF first \in Tables THEN h[first].meta ELSE Nil
      second == IF Len(chain.levels) = 1 /\ mt2 # Nil /\ Ref(h, mt2) = chain.levels[1].mtShape
                  THEN Element(h, mt2, chain.levels[1].mtSlot) ELSE Nil
  IN IF first \notin Tables \/ Ref(h, first) # c.index THEN Exit
     ELSE IF c.indexSlot > 0 THEN OrMiss(first, Element(h, first, c.indexSlot))
     ELSE IF second \notin Tables \/ Ref(h, second) # chain.levels[1].index \/ chain.slot = 0 THEN Exit
     ELSE OrMiss(second, Element(h, second, chain.slot))

\* readField
CompiledGet(h, c, t) ==
  LET mt == h[t].meta
  IN IF Ref(h, t) = Nil \/ Ref(h, t) # c.shape THEN Exit
     ELSE IF c.slot > 0 /\ Element(h, t, c.slot) # Nil THEN Found(t, Element(h, t, c.slot))
     ELSE IF mt # Nil THEN ReadIndex(h, c, mt)
     ELSE IF c.slot > 0 THEN Nothing ELSE Exit

\* readStringMethod
CompiledGetString(h, c, mt) ==
  IF c.shape = StringShape /\ mt # Nil THEN ReadIndex(h, c, mt) ELSE Exit

-----------------------------------------------------------------------------
(* Writing through a cache.                                                *)
Refused(c) == [ok |-> FALSE, cache |-> c]
Stored(h, c, t, v) == [ok |-> TRUE, cache |-> c, heap |-> Clear([h EXCEPT ![t].slots[c.slot] = v], t)]
LacksNewIndex(h, t) == h[t].meta = Nil \/ NewIndex \in h[h[t].meta].absent

\* Mutant: a dictionary's nil slots are filled without being counted.
MutantSetField(h, c, t, v) ==
  LET slot == SlotOf(h[t], Field)
  IN IF slot = 0 \/ (h[t].slots[slot] = Nil /\ ~LacksNewIndex(h, t)) THEN Refused(c)
     ELSE Stored(h, Fresh(Ref(h, t), slot, 0), t, v)

SetField(h, c, t, v) ==
  LET s == Ref(h, t)
      hit == s = c.shape /\ c.slot > 0
      slot == SlotOf(h[t], Field)
      used == IF hit THEN c ELSE Fresh(s, slot, 0)
  IN IF s = Nil \/ (h[t].shape.dict /\ v = Nil) THEN Refused(c)
     ELSE IF ~hit /\ slot = 0 THEN Refused(c)
     ELSE IF h[t].slots[used.slot] = Nil /\ (h[t].shape.dict \/ ~LacksNewIndex(h, t)) THEN Refused(used)
     ELSE Stored(h, used, t, v)

\* setField of compiled code: TRUE where it stores v, by Stored.
CompiledSets(h, c, t, v) ==
  /\ Ref(h, t) # Nil /\ Ref(h, t) = c.shape /\ c.slot \in DOMAIN h[t].slots
  /\ IF h[t].slots[c.slot] = Nil THEN ~h[t].shape.dict /\ LacksNewIndex(h, t)
                                 ELSE v # Nil \/ ~h[t].shape.dict

-----------------------------------------------------------------------------
\* A table as its constructor leaves it.
Constructed(fields) ==
  [arr |-> <<>>, hash |-> <<>>, snapshot |-> NoSnapshot, dead |-> 0, buried |-> 0, meta |-> Nil, absent |-> {},
   shape |-> [dict |-> Len(fields) > MaxShared, keys |-> [i \in DOMAIN fields |-> fields[i].key]],
   slots |-> [i \in DOMAIN fields |-> fields[i].value]]

Init ==
  /\ program \in Programs
  /\ heap = [t \in Tables |-> Constructed(program.start[t])]
  /\ caches = [s \in program.sites |-> EmptyCache]
  /\ stringMeta \in program.stringMetas

\* When a dictionary is replaced, no table has the shape that caches name.
Outdated(c, dead) ==
  LET New(ref) == IF \E t \in dead : ref = <<"dictionary", t>> THEN Replaced ELSE ref
      Level(level) == [level EXCEPT !.mtShape = New(@), !.index = New(@)]
      levels == [i \in DOMAIN c.chain.levels |-> Level(c.chain.levels[i])]
  IN [c EXCEPT !.shape = New(@), !.mtShape = New(@), !.index = New(@), !.chain = [@ EXCEPT !.levels = levels]]

\* A dictionary changes in place by gaining keys at its end.
Becomes(h, cs) ==
  LET dead == {t \in Tables : heap[t].shape.dict /\ ~IsPrefix(heap[t].shape.keys, h[t].shape.keys)}
  IN heap' = h /\ caches' = [s \in DOMAIN cs |-> Outdated(cs[s], dead)] /\ UNCHANGED <<program, stringMeta>>

\* GETTABLE and SELF with a constant key, in the interpreter or compiled.
Read(s, t, compiled) ==
  LET got == GetField(heap, caches[s], t)
  IN IF compiled /\ CompiledGet(heap, caches[s], t) # Exit THEN UNCHANGED vars
     ELSE Becomes(IF got.answer = Miss THEN TableAt(heap, t).heap ELSE heap,
                  [caches EXCEPT ![s] = got.cache])

\* SELF of a string, compiled.
ReadString(s) ==
  /\ CompiledGetString(heap, caches[s], stringMeta) = Exit
  /\ caches' = [caches EXCEPT ![s] = GetStringField(heap, @, stringMeta).cache]
  /\ UNCHANGED <<program, heap, stringMeta>>

\* SETTABLE with a constant key, in the interpreter or compiled.
Write(s, t, v, compiled) ==
  LET set == SetField(heap, caches[s], t, v)
  IN IF compiled /\ CompiledSets(heap, caches[s], t, v)
       THEN Becomes(Stored(heap, caches[s], t, v).heap, caches)
     ELSE Becomes(IF set.ok THEN set.heap ELSE SetTableAt(heap, t, Field, v, FALSE),
                  [caches EXCEPT ![s] = set.cache])

ValuesOf(t, k) == {Nil} \union program.fields[t][k]

\* An assignment by an instruction without a cache, or by Go.
Assign(t, k, v, crowded) ==
  /\ Becomes(SetTableAt(heap, t, k, v, crowded), caches)
  /\ \A u \in Tables \ program.dicts : ~heap'[u].shape.dict

RawSet(t, k, v, crowded) ==
  /\ Becomes(Clear([heap EXCEPT ![t] = Put(@, k, v, crowded)], t), caches)

\* setmetatable.  A table without string keys has no shape.
SetMetaTable(t, mt) ==
  /\ (mt # Nil /\ Ref(heap, mt) = Nil) => "bareMeta" \in Uses
  /\ Becomes([heap EXCEPT ![t].meta = mt], caches)

\* debug.setmetatable of a string.
SetStringMeta(mt) == stringMeta' = mt /\ UNCHANGED <<program, heap, caches>>

Collect(t) ==
  /\ Becomes([heap EXCEPT ![t] = BuryDeadKeys(@)], caches)

Next ==
  \/ \E s \in Readers \intersect program.sites :
       ReadString(s) \/ \E t \in Tables, compiled \in BOOLEAN : Read(s, t, compiled)
  \/ \E s \in Writers \intersect program.sites, t \in Tables, compiled \in BOOLEAN :
       Field \in DOMAIN program.fields[t] /\ \E v \in ValuesOf(t, Field) : Write(s, t, v, compiled)
  \/ \E t \in Tables : \E k \in DOMAIN program.fields[t], crowded \in IF t \in program.dicts THEN BOOLEAN ELSE {FALSE} :
       \E v \in ValuesOf(t, k) : Assign(t, k, v, crowded) \/ RawSet(t, k, v, crowded)
  \/ \E t \in Tables : \E mt \in program.metas[t] \union {Nil} : SetMetaTable(t, mt)
  \/ \E mt \in program.stringMetas : SetStringMeta(mt)
  \/ \E t \in program.dicts : Collect(t)

Spec == Init /\ [][Next]_vars

-----------------------------------------------------------------------------
(* Properties.                                                             *)

\* What Lua says t.field is: its own field, or else its metatable's __index
\* says where to look on.
Resolve(t) ==
  LET from[n \in Nat] == [u \in Tables |->
        LET idx == IF heap[u].meta = Nil THEN Nil ELSE At(heap[heap[u].meta], Index)
        IN IF At(heap[u], Field) # Nil THEN Found(u, At(heap[u], Field))
           ELSE IF idx = Nil THEN Nothing
           ELSE IF idx \notin Tables THEN Calls
           ELSE IF n = 0 THEN Loops ELSE from[n-1][idx]]
  IN from[Cardinality(Tables) + MaxChain + 1][t]
ResolveString ==
  LET idx == IF stringMeta = Nil THEN Nil ELSE At(heap[stringMeta], Index)
  IN IF idx \in Tables THEN Resolve(idx) ELSE Calls

\* Whatever an instruction's cache remembers, and from whichever tables it
\* learnt it, an answer for any table is the field Lua would find now; and
\* none reads beyond a table's slots (getField, getStringField).
CachedReadExact ==
  \A s \in Readers \intersect program.sites :
    /\ \A t \in Tables : GetField(heap, caches[s], t).answer \in {Miss, Resolve(t)}
    /\ GetStringField(heap, caches[s], stringMeta).answer \in {Miss, ResolveString}

\* So are the answers of compiled code, which shares the cache with the
\* interpreter and takes shortcuts of its own (readField, readIndex).
CompiledReadExact ==
  \A s \in Readers \intersect program.sites :
    /\ \A t \in Tables : CompiledGet(heap, caches[s], t) \in {Exit, Resolve(t)}
    /\ CompiledGetString(heap, caches[s], stringMeta) \in {Exit, ResolveString}

\* A store through a cache leaves the table as a plain assignment does, the
\* count of a dictionary's nil slots and the flags included, and passes no
\* __newindex by (setField, in the interpreter and compiled).
Plain(t, v) == SetTableAt(heap, t, Field, v, FALSE)[t]
Bypasses(t) ==
  /\ At(heap[t], Field) = Nil
  /\ heap[t].meta # Nil
  /\ At(heap[heap[t].meta], NewIndex) # Nil
CachedWriteExact ==
  \A s \in Writers \intersect program.sites, t \in Tables, v \in Values \union {Nil} :
    LET set == SetField(heap, caches[s], t, v)
        compiled == CompiledSets(heap, caches[s], t, v)
    IN /\ set.ok => ~Bypasses(t) /\ set.heap[t] = Plain(t, v)
       /\ compiled => ~Bypasses(t) /\ Stored(heap, caches[s], t, v).heap[t] = Plain(t, v)

\* A flag of a metatable that says it has no such metamethod is true, however
\* the metatable was written since (invalidateTagMethodCache).
FlagsTrue == \A t \in Tables : \A event \in heap[t].absent : At(heap[t], event) = Nil
=============================================================================
