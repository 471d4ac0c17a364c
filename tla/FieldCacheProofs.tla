--------------------------- MODULE FieldCacheProofs ---------------------------
(* An instruction's cache names shapes and slots, and whatever happens to   *)
(* tables, a shape that a cache names still has its keys where the cache    *)
(* says.  So a lookup that compares shapes finds what Lua says is there.    *)
EXTENDS FieldCache, TableLemmas, TLAPS

Kept == Contents \union {Nil}
Refs == Seq(Strings) \union {<<"dictionary", t>> : t \in Tables} \union {Nil, Replaced, StringShape}

\* The keys that shape ref lays out: key is in this slot, or is absent.
KeyAt(h, ref, slot, key) ==
  /\ ref \in Seq(Strings) =>
       IF slot = 0 THEN \A i \in DOMAIN ref : ref[i] # key ELSE slot \in DOMAIN ref /\ ref[slot] = key
  /\ \A t \in Tables : ref = <<"dictionary", t>> =>
       h[t].shape.dict /\ slot \in DOMAIN h[t].shape.keys /\ h[t].shape.keys[slot] = key

-----------------------------------------------------------------------------
(* The inductive invariant.                                                *)

\* A table's parts are in order, and its flags are true.
TableOk(h, t) ==
  /\ WellFormed(h[t], Kept)
  /\ {"meta", "absent"} \subseteq DOMAIN h[t]
  /\ h[t].shape.dict \/ h[t].shape.keys \in Seq(Strings)
  /\ h[t].meta \in Tables \union {Nil}
  /\ h[t].absent \subseteq {Index, NewIndex}
  /\ \A event \in h[t].absent : At(h[t], event) = Nil
HeapOk(h) == h = [t \in Tables |-> h[t]] /\ \A t \in Tables : TableOk(h, t)

Level == [mtShape : Refs, mtSlot : Nat, index : Refs]
Cache == [shape : Refs, slot : Nat, mtShape : Refs, mtSlot : Nat, index : Refs, indexSlot : Nat,
          chain : [levels : Seq(Level), slot : Nat]]

\* The shape of the table a chain has come to after i levels, and where its
\* field is: nowhere, but at the end.
RefOf(c, i) == IF i = 0 THEN c.index ELSE c.chain.levels[i].index
FieldSlot(c, i) == IF i = Len(c.chain.levels) THEN c.chain.slot ELSE 0
LevelOk(h, level) ==
  level.mtShape # Nil /\ level.mtSlot # 0 /\ level.index # Nil /\ KeyAt(h, level.mtShape, level.mtSlot, Index)

PathOk(h, c) ==
  /\ \A i \in 1 .. Len(c.chain.levels) : LevelOk(h, c.chain.levels[i])
  /\ \A i \in 0 .. Len(c.chain.levels) : KeyAt(h, RefOf(c, i), FieldSlot(c, i), Field)

CacheOk(h, c) ==
  /\ c \in Cache
  /\ Len(c.chain.levels) <= MaxChain
  /\ KeyAt(h, c.shape, c.slot, Field)
  /\ c.mtShape # Nil =>
       /\ c.index # Nil /\ c.mtSlot # 0
       /\ KeyAt(h, c.mtShape, c.mtSlot, Index)
       /\ IF c.indexSlot > 0 THEN KeyAt(h, c.index, c.indexSlot, Field) ELSE PathOk(h, c)

CacheInv ==
  /\ program \in Programs
  /\ stringMeta \in Tables \union {Nil}
  /\ HeapOk(heap)
  /\ caches = [s \in program.sites |-> caches[s]] /\ \A s \in program.sites : CacheOk(heap, caches[s])

\* The metatables of h have shapes.
MetasShaped(h) == \A t \in Tables : h[t].meta # Nil => Ref(h, h[t].meta) # Nil

Safe == CacheInv /\ (Uses = {} => MetasShaped(heap))

-----------------------------------------------------------------------------
(* Shapes and their names.                                                 *)

\* A sequence of strings, the name of a dictionary and those of no table differ.
LEMMA RefsApart ==
  /\ \A t \in Tables : /\ <<"dictionary", t>> \notin Seq(Strings)
                        /\ <<"dictionary", t>> \notin {Nil, Replaced, StringShape}
                        /\ \A u \in Tables : <<"dictionary", t>> = <<"dictionary", u>> => t = u
  /\ {Nil, Replaced, StringShape} \intersect Seq(Strings) = {}
  /\ Nil # Replaced /\ Nil # StringShape
<1>1. ASSUME NEW q \in Seq(Strings), Len(q) > 0
      PROVE  q[1] \notin {"dictionary", "replaced", "string"}
  BY <1>1, RefsAssumption
<1>2. ASSUME NEW t \in Tables PROVE <<"dictionary", t>> \notin Seq(Strings)
  <2> DEFINE q == <<"dictionary", t>>
  <2>1. Len(q) = 2 /\ q[1] = "dictionary"
    OBVIOUS
  <2> HIDE DEF q
  <2>2. q \notin Seq(Strings)
    BY <1>1, <2>1
  <2> QED
    BY <2>2 DEF q
<1>3. Replaced \notin Seq(Strings) /\ StringShape \notin Seq(Strings)
  <2>1. Len(Replaced) = 1 /\ Replaced[1] = "replaced" /\ Len(StringShape) = 1 /\ StringShape[1] = "string"
    BY DEF Replaced, StringShape
  <2> QED
    BY <1>1, <2>1, SMTT(60)
<1>4. ASSUME NEW t \in Tables PROVE <<"dictionary", t>> # Replaced /\ <<"dictionary", t>> # StringShape
  BY DEF Replaced, StringShape
<1>5. ASSUME NEW t \in Tables, NEW u \in Tables, <<"dictionary", t>> = <<"dictionary", u>> PROVE t = u
  BY <1>5
<1> QED
  BY <1>2, <1>3, <1>4, <1>5, RefsAssumption

\* A key has one slot, which holds its value, or none.
LEMMA SlotOfKey ==
  ASSUME NEW V, NEW r, Slotted(r, V), NEW k \in Strings
  PROVE  LET i == SlotOf(r, k)
         IN /\ i \in Nat
            /\ i = 0 => At(r, k) = Nil /\ SlotsOf(r.shape, k) = {} /\ \A j \in DOMAIN r.shape.keys : r.shape.keys[j] # k
            /\ i # 0 => /\ i \in DOMAIN r.shape.keys /\ r.shape.keys[i] = k
                        /\ At(r, k) = r.slots[i] /\ i \in DOMAIN r.slots
            /\ \A j \in DOMAIN r.shape.keys : r.shape.keys[j] = k => j = i
<1> DEFINE i == SlotOf(r, k)
<1>1. DOMAIN r.shape.keys = DOMAIN r.slots /\ DOMAIN r.slots = 1 .. Len(r.slots) /\ Len(r.slots) \in Nat
  BY ShapeParts
<1>2. CASE SlotsOf(r.shape, k) = {}
  BY <1>2 DEF SlotOf, SlotsOf, At
<1>3. CASE SlotsOf(r.shape, k) # {}
  <2>1. i \in SlotsOf(r.shape, k)
    BY <1>3 DEF SlotOf
  <2> HIDE DEF i
  <2>2. i \in DOMAIN r.shape.keys /\ r.shape.keys[i] = k
    BY <2>1 DEF SlotsOf
  <2>3. At(r, k) = r.slots[i]
    BY <2>2, AtSlot
  <2>4. \A j \in DOMAIN r.shape.keys : r.shape.keys[j] = k => j = i
    BY <2>2 DEF Slotted
  <2> QED
    BY <1>1, <2>2, <2>3, <2>4 DEF i
<1> QED
  BY <1>2, <1>3

\* What names a table's shape: nothing, its keys, or the table itself.
LEMMA RefOfTable ==
  ASSUME NEW h, NEW t \in Tables, TableOk(h, t)
  PROVE  /\ Ref(h, t) \in Refs
         /\ Ref(h, t) = Nil => h[t].shape = RootShape
         /\ Ref(h, t) # Nil /\ h[t].shape.dict => Ref(h, t) = <<"dictionary", t>>
         /\ Ref(h, t) # Nil /\ ~h[t].shape.dict => Ref(h, t) = h[t].shape.keys /\ Ref(h, t) \in Seq(Strings)
         /\ Ref(h, t) \notin {Replaced, StringShape}
BY RefsApart DEF Ref, Refs, TableOk

\* A cached slot of a table that has the cached shape: what it holds is the
\* key's value, and a key with no slot is absent.
LEMMA KeyValue ==
  ASSUME NEW h, NEW t \in Tables, TableOk(h, t), NEW k \in Strings, NEW slot \in Nat,
         Ref(h, t) # Nil, KeyAt(h, Ref(h, t), slot, k)
  PROVE  /\ slot = 0 => At(h[t], k) = Nil
         /\ slot # 0 => slot \in DOMAIN h[t].slots /\ slot \in DOMAIN h[t].shape.keys
                         /\ h[t].shape.keys[slot] = k /\ At(h[t], k) = h[t].slots[slot]
<1>1. Slotted(h[t], Kept)
  BY DEF TableOk, WellFormed
<1>2. DOMAIN h[t].shape.keys = DOMAIN h[t].slots
  BY <1>1, ShapeParts
<1>3. 0 \notin DOMAIN h[t].shape.keys
  BY <1>1, <1>2, ShapeParts
<1>4. CASE h[t].shape.dict
  <2>1. slot \in DOMAIN h[t].shape.keys /\ h[t].shape.keys[slot] = k
    BY <1>4, RefOfTable DEF KeyAt
  <2> QED
    BY <1>1, <1>2, <1>3, <2>1, AtSlot
<1>5. CASE ~h[t].shape.dict
  <2>1. IF slot = 0 THEN \A i \in DOMAIN h[t].shape.keys : h[t].shape.keys[i] # k
                    ELSE slot \in DOMAIN h[t].shape.keys /\ h[t].shape.keys[slot] = k
    BY <1>5, RefOfTable DEF KeyAt
  <2> QED
    BY <1>1, <1>2, <2>1, AtSlot
<1> QED
  BY <1>4, <1>5

\* What a cache may learn of a table's shape: the key's slot, or that it is
\* absent, of a dictionary only the slot.
LEMMA KeyLearnt ==
  ASSUME NEW h, NEW t \in Tables, TableOk(h, t), NEW k \in Strings,
         SlotOf(h[t], k) # 0 \/ ~h[t].shape.dict
  PROVE  KeyAt(h, Ref(h, t), SlotOf(h[t], k), k)
<1> DEFINE i == SlotOf(h[t], k)
<1>1. Slotted(h[t], Kept)
  BY DEF TableOk, WellFormed
<1>2. /\ i = 0 => \A j \in DOMAIN h[t].shape.keys : h[t].shape.keys[j] # k
      /\ i # 0 => i \in DOMAIN h[t].shape.keys /\ h[t].shape.keys[i] = k
  BY <1>1, SlotOfKey
<1> HIDE DEF i
<1>3. CASE Ref(h, t) = Nil
  BY <1>3, RefsApart DEF KeyAt
<1>4. CASE Ref(h, t) # Nil /\ h[t].shape.dict
  <2>1. Ref(h, t) = <<"dictionary", t>>
    BY <1>4, RefOfTable
  <2>2. i # 0
    BY <1>4 DEF i
  <2> QED
    BY <1>2, <1>4, <2>1, <2>2, RefsApart DEF KeyAt, i
<1>5. CASE Ref(h, t) # Nil /\ ~h[t].shape.dict
  <2>1. Ref(h, t) = h[t].shape.keys /\ Ref(h, t) \in Seq(Strings)
    BY <1>5, RefOfTable
  <2> QED
    BY <1>2, <2>1, RefsApart DEF KeyAt, i
<1> QED
  BY <1>3, <1>4, <1>5

-----------------------------------------------------------------------------
(* What a change of tables leaves of the caches.                           *)

\* The tables of g come after those of h: a dictionary stays one, and a shape
\* is not lost.
Later(h, g) ==
  \A t \in Tables : /\ h[t].shape.dict => g[t].shape.dict
                    /\ Ref(g, t) = Nil => Ref(h, t) = Nil

\* The dictionaries of h that g does not extend.
ReplacedIn(h, g) == {t \in Tables : h[t].shape.dict /\ ~IsPrefix(h[t].shape.keys, g[t].shape.keys)}
Renamed(ref, dead) == IF \E t \in dead : ref = <<"dictionary", t>> THEN Replaced ELSE ref

\* An extended sequence has the elements it had.
LEMMA PrefixKeeps ==
  ASSUME NEW T, NEW s \in Seq(T), NEW u \in Seq(T), IsPrefix(s, u), NEW i \in DOMAIN s
  PROVE  i \in DOMAIN u /\ u[i] = s[i]
<1>1. /\ Len(s) \in Nat /\ Len(u) \in Nat /\ DOMAIN s = 1 .. Len(s) /\ DOMAIN u = 1 .. Len(u)
      /\ Len(s) <= Len(u) /\ SubSeq(s, 1, Len(s)) = SubSeq(u, 1, Len(s))
  BY DEF IsPrefix
<1>2. SubSeq(s, 1, Len(s))[i] = s[i] /\ SubSeq(u, 1, Len(s))[i] = u[i]
  BY <1>1
<1> QED
  BY <1>1, <1>2

\* A name that survives a change still has its keys where they were.
LEMMA KeyKeeps ==
  ASSUME NEW h, NEW g, HeapOk(h), HeapOk(g), Later(h, g),
         NEW ref \in Refs, NEW slot, NEW k, KeyAt(h, ref, slot, k)
  PROVE  LET new == Renamed(ref, ReplacedIn(h, g))
         IN new \in Refs /\ (new = Nil <=> ref = Nil) /\ KeyAt(g, new, slot, k)
<1> DEFINE new == Renamed(ref, ReplacedIn(h, g))
<1>1. CASE \E t \in ReplacedIn(h, g) : ref = <<"dictionary", t>>
  <2>1. new = Replaced
    BY <1>1 DEF Renamed
  <2>2. ref # Nil
    BY <1>1, RefsApart DEF ReplacedIn
  <2> QED
    BY <2>1, <2>2, RefsApart DEF KeyAt, Refs
<1>2. CASE \A t \in ReplacedIn(h, g) : ref # <<"dictionary", t>>
  <2>1. new = ref
    BY <1>2 DEF Renamed
  <2>2. ASSUME NEW t \in Tables, ref = <<"dictionary", t>>
        PROVE  g[t].shape.dict /\ slot \in DOMAIN g[t].shape.keys /\ g[t].shape.keys[slot] = k
    <3>1. h[t].shape.dict /\ slot \in DOMAIN h[t].shape.keys /\ h[t].shape.keys[slot] = k
      BY <2>2 DEF KeyAt
    <3>2. g[t].shape.dict
      BY <3>1 DEF Later
    <3>3. IsPrefix(h[t].shape.keys, g[t].shape.keys)
      BY <1>2, <2>2, <3>1 DEF ReplacedIn
    <3>4. h[t].shape.keys \in Seq(Label) /\ g[t].shape.keys \in Seq(Label)
      BY ShapeParts DEF HeapOk, TableOk, WellFormed
    <3> QED
      BY <3>1, <3>2, <3>3, <3>4, PrefixKeeps
  <2>3. KeyAt(g, ref, slot, k)
    BY <2>2 DEF KeyAt
  <2> QED
    BY <2>1, <2>3
<1> QED
  BY <1>1, <1>2

\* So a cache, its replaced dictionaries renamed, stays right.
LEMMA OutdatedOk ==
  ASSUME NEW h, NEW g, HeapOk(h), HeapOk(g), Later(h, g), NEW c, CacheOk(h, c)
  PROVE  CacheOk(g, Outdated(c, ReplacedIn(h, g)))
<1> DEFINE dead == ReplacedIn(h, g)
           New(ref) == Renamed(ref, dead)
           o == Outdated(c, dead)
           n == Len(c.chain.levels)
<1>1. /\ c \in Cache /\ c.chain.levels \in Seq(Level) /\ n \in Nat /\ DOMAIN c.chain.levels = 1 .. n
      /\ c.shape \in Refs /\ c.mtShape \in Refs /\ c.index \in Refs
      /\ \A i \in 1 .. n : c.chain.levels[i] \in Level
  <2>1. c \in Cache
    BY DEF CacheOk
  <2> QED
    BY <2>1 DEF Cache
<1> DEFINE Lev(level) == [level EXCEPT !.mtShape = New(@), !.index = New(@)]
           levels == [i \in DOMAIN c.chain.levels |-> Lev(c.chain.levels[i])]
<1>2. /\ o.shape = New(c.shape) /\ o.mtShape = New(c.mtShape) /\ o.index = New(c.index)
      /\ o.slot = c.slot /\ o.mtSlot = c.mtSlot /\ o.indexSlot = c.indexSlot
      /\ o.chain.slot = c.chain.slot
      /\ o.chain.levels = levels
      /\ o = [shape |-> o.shape, slot |-> o.slot, mtShape |-> o.mtShape, mtSlot |-> o.mtSlot, index |-> o.index,
              indexSlot |-> o.indexSlot, chain |-> [levels |-> o.chain.levels, slot |-> o.chain.slot]]
  <2>1. o = [c EXCEPT !.shape = New(c.shape), !.mtShape = New(c.mtShape), !.index = New(c.index),
                      !.chain = [c.chain EXCEPT !.levels = levels]]
    BY DEF Outdated, Renamed
  <2>2. /\ DOMAIN c = {"shape", "slot", "mtShape", "mtSlot", "index", "indexSlot", "chain"}
        /\ DOMAIN c.chain = {"levels", "slot"} /\ c = [f \in DOMAIN c |-> c[f]] /\ c.chain = [f \in DOMAIN c.chain |-> c.chain[f]]
    BY <1>1 DEF Cache
  <2> HIDE DEF o, dead, New, levels
  <2> QED
    BY <2>1, <2>2
<1> HIDE DEF o, dead
<1>3. ASSUME NEW ref \in Refs PROVE New(ref) \in Refs
  BY ONLY <1>3, RefsApart DEF Renamed, Refs
<1> HIDE DEF New
<1>41. DOMAIN levels = 1 .. n /\ \A i \in 1 .. n : levels[i] = [c.chain.levels[i] EXCEPT !.mtShape = New(c.chain.levels[i].mtShape), !.index = New(c.chain.levels[i].index)]
  BY <1>1
<1> HIDE DEF levels
<1>4. ASSUME NEW i \in 1 .. n
      PROVE  /\ o.chain.levels[i].mtShape = New(c.chain.levels[i].mtShape)
             /\ o.chain.levels[i].index = New(c.chain.levels[i].index)
             /\ o.chain.levels[i].mtSlot = c.chain.levels[i].mtSlot
             /\ o.chain.levels[i] \in Level
  <2> DEFINE l == c.chain.levels[i]
  <2>1. l \in Level
    BY <1>1
  <2>2. o.chain.levels[i] = [l EXCEPT !.mtShape = New(l.mtShape), !.index = New(l.index)]
    BY <1>2, <1>41
  <2> HIDE DEF l
  <2>3. New(l.mtShape) \in Refs /\ New(l.index) \in Refs
    BY <1>3, <2>1 DEF Level
  <2> QED
    BY <2>1, <2>2, <2>3 DEF Level, l
<1>5. o.chain.levels \in Seq(Level) /\ Len(o.chain.levels) = n
  <2>1. levels \in [1 .. n -> Level]
    BY <1>2, <1>4, <1>41 DEF levels
  <2> QED
    BY ONLY <1>1, <1>2, <2>1, SMTT(60)
<1>6. o \in Cache
  BY <1>1, <1>2, <1>3, <1>5 DEF Cache
<1>7. ASSUME NEW ref \in Refs, NEW slot, NEW k, KeyAt(h, ref, slot, k)
      PROVE  (New(ref) = Nil <=> ref = Nil) /\ KeyAt(g, New(ref), slot, k)
  BY <1>7, KeyKeeps DEF New, dead
<1>8. Len(o.chain.levels) <= MaxChain /\ KeyAt(g, o.shape, o.slot, Field)
  BY <1>1, <1>2, <1>5, <1>7 DEF CacheOk
<1>9. ASSUME o.mtShape # Nil
      PROVE  /\ o.index # Nil /\ o.mtSlot # 0
             /\ KeyAt(g, o.mtShape, o.mtSlot, Index)
             /\ IF o.indexSlot > 0 THEN KeyAt(g, o.index, o.indexSlot, Field) ELSE PathOk(g, o)
  <2>1. c.mtShape # Nil
    BY <1>2, <1>9, RefsApart DEF New, Renamed, dead, ReplacedIn
  <2>2. /\ c.index # Nil /\ c.mtSlot # 0 /\ KeyAt(h, c.mtShape, c.mtSlot, Index)
        /\ IF c.indexSlot > 0 THEN KeyAt(h, c.index, c.indexSlot, Field) ELSE PathOk(h, c)
    BY <2>1 DEF CacheOk
  <2>3. o.mtSlot # 0 /\ KeyAt(g, o.mtShape, o.mtSlot, Index)
    BY <1>1, <1>2, <1>7, <2>2
  <2>4. CASE c.indexSlot > 0
    BY <1>1, <1>2, <1>7, <2>2, <2>3, <2>4
  <2>5. CASE ~(c.indexSlot > 0)
    <3>1. PathOk(h, c)
      BY <2>2, <2>5
    <3>2. KeyAt(h, c.index, FieldSlot(c, 0), Field)
      BY <1>1, <3>1 DEF PathOk, RefOf
    <3>3. o.index # Nil /\ KeyAt(g, o.index, FieldSlot(c, 0), Field)
      BY <1>1, <1>2, <1>7, <2>2, <3>2
    <3>4. \A i \in 0 .. n : FieldSlot(o, i) = FieldSlot(c, i)
      BY <1>2, <1>5 DEF FieldSlot
    <3>5. ASSUME NEW i \in 1 .. n PROVE LevelOk(g, o.chain.levels[i])
      <4>1. LevelOk(h, c.chain.levels[i]) /\ KeyAt(h, RefOf(c, i), FieldSlot(c, i), Field)
        BY <1>1, <3>1 DEF PathOk
      <4>2. RefOf(c, i) = c.chain.levels[i].index
        BY DEF RefOf
      <4>3. c.chain.levels[i].mtShape \in Refs /\ c.chain.levels[i].index \in Refs
        BY <1>1 DEF Level
      <4> QED
        BY <1>4, <1>7, <4>1, <4>2, <4>3 DEF LevelOk
    <3>6. ASSUME NEW i \in 0 .. n PROVE KeyAt(g, RefOf(o, i), FieldSlot(o, i), Field)
      <4>1. KeyAt(h, RefOf(c, i), FieldSlot(c, i), Field)
        BY <3>1 DEF PathOk
      <4>2. CASE i = 0
        BY <1>1, <3>3, <3>4, <4>2 DEF RefOf
      <4>3. CASE i \in 1 .. n
        <5>1. RefOf(c, i) = c.chain.levels[i].index /\ RefOf(o, i) = o.chain.levels[i].index
          BY <4>3 DEF RefOf
        <5>2. c.chain.levels[i].index \in Refs
          BY <1>1, <4>3 DEF Level
        <5> QED
          BY <1>4, <1>7, <3>4, <4>1, <4>3, <5>1, <5>2
      <4> QED
        BY <1>1, <4>2, <4>3
    <3>7. PathOk(g, o)
      BY <1>5, <3>5, <3>6 DEF PathOk
    <3> QED
      BY <1>2, <2>3, <2>5, <3>3, <3>7
  <2> QED
    BY <2>4, <2>5
<1>10. CacheOk(g, o)
  BY <1>6, <1>8, <1>9 DEF CacheOk
<1> QED
  BY <1>10 DEF o, dead

-----------------------------------------------------------------------------
(* What each operation does to the tables.                                 *)

SameParts(a, r) == DOMAIN a = DOMAIN r /\ \A f \in Fields : a[f] = r[f]

\* What a table holds depends on its parts alone.
LEMMA PartsKeep ==
  ASSUME NEW V, NEW a, NEW r, WellFormed(r, V), SameParts(a, r)
  PROVE  WellFormed(a, V) /\ \A k \in Strings : At(a, k) = At(r, k)
<1>1. /\ a.arr = r.arr /\ a.shape = r.shape /\ a.slots = r.slots /\ a.hash = r.hash
      /\ Fields \subseteq DOMAIN a
  BY DEF SameParts, WellFormed, Fields
<1>2. \A k \in Strings : At(a, k) = At(r, k)
  BY <1>1, StringAt
<1> QED
  BY <1>1, <1>2 DEF WellFormed, Slotted, Numbered

\* Only table t of h changes, with its parts or its flags.
LEMMA OneChanges ==
  ASSUME NEW h, NEW g, HeapOk(h), NEW t \in Tables, g = [h EXCEPT ![t] = g[t]], TableOk(g, t),
         h[t].shape.dict => g[t].shape.dict, g[t].shape = RootShape => h[t].shape = RootShape
  PROVE  HeapOk(g) /\ Later(h, g) /\ \A u \in Tables \ {t} : g[u] = h[u]
<1>1. \A u \in Tables \ {t} : g[u] = h[u]
  BY DEF HeapOk
<1>2. DOMAIN g = Tables /\ g = [u \in Tables |-> g[u]]
  BY DEF HeapOk
<1>3. ASSUME NEW u \in Tables \ {t} PROVE TableOk(g, u)
  BY <1>1 DEF HeapOk, TableOk
<1>4. ASSUME NEW u \in Tables
      PROVE  (h[u].shape.dict => g[u].shape.dict) /\ (Ref(g, u) = Nil => Ref(h, u) = Nil)
  <2>1. CASE u = t
    <3>1. Ref(g, t) = Nil => h[t].shape = RootShape
      BY RefOfTable
    <3> QED
      BY <2>1, <3>1 DEF Ref
  <2>2. CASE u # t
    BY <1>1, <2>2 DEF Ref
  <2> QED
    BY <2>1, <2>2
<1> QED
  BY <1>1, <1>2, <1>3, <1>4 DEF HeapOk, Later

\* A sequence that grew is not empty.
LEMMA Longer ==
  ASSUME NEW T, NEW q \in Seq(T), NEW x \in T
  PROVE  Append(q, x) \in Seq(T) /\ Append(q, x) # <<>>
<1>1. Len(Append(q, x)) = Len(q) + 1 /\ Len(q) \in Nat /\ Len(<<>>) = 0
  OBVIOUS
<1> QED
  BY <1>1

\* A heap that a lookup or a write leaves.
Changed(h, g) == HeapOk(g) /\ Later(h, g) /\ \A u \in Tables : g[u].meta = h[u].meta

\* A write and the clearing of the flags.
Written(h, t, k, v, crowded) == Clear([h EXCEPT ![t] = PutString(@, k, v, crowded)], t)

\* A write of a string leaves every table in order.
LEMMA ClearedPut ==
  ASSUME NEW h, HeapOk(h), NEW t \in Tables, NEW k \in Strings, NEW v \in Kept, NEW crowded \in BOOLEAN
  PROVE  Changed(h, Written(h, t, k, v, crowded))
<1> DEFINE r == h[t]
           a == PutString(r, k, v, crowded)
           b == [a EXCEPT !.absent = {}]
           g == Written(h, t, k, v, crowded)
<1>1. TableOk(h, t) /\ WellFormed(r, Kept) /\ {"meta", "absent"} \subseteq DOMAIN r
  BY DEF HeapOk, TableOk
<1>2. g = [h EXCEPT ![t] = b]
  BY DEF Written, Clear, HeapOk
<1> HIDE DEF a, g
<1>3. /\ WellFormed(a, Kept) /\ DOMAIN a = DOMAIN r /\ a.meta = r.meta /\ Succeeds(a, r, k)
  <2>1. /\ WellFormed(a, Kept) /\ DOMAIN a = DOMAIN r /\ \A f \in DOMAIN r \ Fields : a[f] = r[f]
        /\ Succeeds(a, r, k)
    BY <1>1, PutStringKeeps DEF a
  <2> QED
    BY <1>1, <2>1 DEF Fields
<1>4. SameParts(b, a) /\ b.absent = {} /\ b.meta = r.meta /\ {"meta", "absent"} \subseteq DOMAIN b
  BY <1>1, <1>3 DEF SameParts, Fields
<1> HIDE DEF b
<1>5. WellFormed(b, Kept) /\ b.shape = a.shape
  BY <1>3, <1>4, PartsKeep DEF SameParts, Fields
<1>6. a.shape \in Shape /\ r.shape \in Shape
  BY <1>1, <1>3 DEF WellFormed, Slotted
<1>7. a.shape.dict \/ a.shape.keys \in Seq(Strings)
  <2>1. CASE r.shape.dict
    BY <1>3, <2>1 DEF Succeeds
  <2>2. CASE ~r.shape.dict
    <3>1. r.shape.keys \in Seq(Strings) /\ a.shape.keys \in {r.shape.keys, Append(r.shape.keys, k)}
      BY <1>1, <1>3, <2>2 DEF TableOk, Succeeds
    <3> QED
      BY <3>1, Longer
  <2> QED
    BY <2>1, <2>2
<1>8. (r.shape.dict => a.shape.dict) /\ (a.shape = RootShape => r.shape = RootShape)
  <2>1. CASE r.shape.dict
    BY <1>3, <2>1 DEF Succeeds, RootShape
  <2>2. CASE ~r.shape.dict
    <3>1. r.shape.keys \in Seq(Strings) /\ a.shape.keys \in {r.shape.keys, Append(r.shape.keys, k)}
      BY <1>1, <1>3, <2>2 DEF TableOk, Succeeds
    <3>2. Append(r.shape.keys, k) # <<>>
      BY <3>1, Longer
    <3>3. r.shape = [dict |-> r.shape.dict, keys |-> r.shape.keys] /\ r.shape.dict \in BOOLEAN
      BY <1>6 DEF Shape
    <3>4. a.shape = RootShape => r.shape.keys = <<>>
      BY <3>1, <3>2 DEF RootShape
    <3>5. r.shape.dict = FALSE
      BY <2>2, <3>3
    <3>6. r.shape.keys = <<>> => r.shape = RootShape
      BY <3>3, <3>5 DEF RootShape
    <3> QED
      BY <3>4, <3>5, <3>6
  <2> QED
    BY <2>1, <2>2
<1>9. g[t] = b /\ g = [h EXCEPT ![t] = g[t]]
  BY <1>2 DEF HeapOk
<1>10. TableOk(g, t)
  BY <1>1, <1>4, <1>5, <1>7, <1>9 DEF TableOk
<1>11. HeapOk(g) /\ Later(h, g) /\ \A u \in Tables \ {t} : g[u] = h[u]
  <2>1. (h[t].shape.dict => g[t].shape.dict) /\ (g[t].shape = RootShape => h[t].shape = RootShape)
    BY <1>5, <1>8, <1>9
  <2> HIDE DEF r
  <2> QED
    BY <1>9, <1>10, <2>1, OneChanges
<1>12. \A u \in Tables : g[u].meta = h[u].meta
  BY <1>4, <1>9, <1>11
<1> QED
  BY <1>11, <1>12 DEF g, Changed

\* A new metatable, or a flag that is true.
LEMMA Reflagged ==
  ASSUME NEW h, HeapOk(h), NEW t \in Tables, NEW b, SameParts(b, h[t]),
         b.meta \in Tables \union {Nil},
         \A event \in b.absent : event \in {Index, NewIndex} /\ At(h[t], event) = Nil
  PROVE  LET g == [h EXCEPT ![t] = b]
         IN /\ HeapOk(g) /\ Later(h, g) /\ \A u \in Tables \ {t} : g[u] = h[u]
            /\ g[t] = b /\ \A u \in Tables : SameParts(g[u], h[u])
<1> DEFINE g == [h EXCEPT ![t] = b]
<1>1. g[t] = b /\ g = [h EXCEPT ![t] = g[t]] /\ \A u \in Tables \ {t} : g[u] = h[u]
  BY DEF HeapOk
<1> HIDE DEF g
<1>2. TableOk(h, t)
  BY DEF HeapOk
<1>3. WellFormed(b, Kept) /\ b.shape = h[t].shape /\ DOMAIN b = DOMAIN h[t] /\ \A k \in Strings : At(b, k) = At(h[t], k)
  BY <1>2, PartsKeep DEF TableOk, SameParts, Fields
<1>4. TableOk(g, t)
  BY <1>1, <1>2, <1>3, FieldAssumption DEF TableOk
<1>5. HeapOk(g) /\ Later(h, g) /\ \A u \in Tables \ {t} : g[u] = h[u]
  BY <1>1, <1>3, <1>4, OneChanges
<1>6. \A u \in Tables : SameParts(g[u], h[u])
  BY <1>1, <1>5 DEF SameParts
<1> QED
  BY <1>1, <1>5, <1>6 DEF g

\* The flags change nothing of what a metatable says.
LEMMA TagMethod ==
  ASSUME NEW h, HeapOk(h), NEW t \in Tables, NEW event \in {Index, NewIndex}
  PROVE  FastTagMethod(h, t, event) = IF h[t].meta = Nil THEN Nil ELSE At(h[h[t].meta], event)
<1>1. h[t].meta \in Tables \union {Nil} /\ \A u \in Tables : \A e \in h[u].absent : At(h[u], e) = Nil
  BY DEF HeapOk, TableOk
<1> QED
  BY <1>1 DEF FastTagMethod

\* No change is one.
LEMMA Unchanged ==
  ASSUME NEW h, HeapOk(h)
  PROVE  Changed(h, h)
BY DEF Changed, Later

\* One more flag, of a metamethod that is not there.
LEMMA FlagSet ==
  ASSUME NEW h, HeapOk(h), NEW m \in Tables, NEW event \in {Index, NewIndex}, At(h[m], event) = Nil
  PROVE  LET g == [h EXCEPT ![m].absent = @ \union {event}]
         IN Changed(h, g) /\ \A u \in Tables : SameParts(g[u], h[u])
<1> DEFINE b == [h[m] EXCEPT !.absent = @ \union {event}]
           g == [h EXCEPT ![m].absent = @ \union {event}]
<1>1. TableOk(h, m) /\ {"meta", "absent"} \subseteq DOMAIN h[m]
  BY DEF HeapOk, TableOk
<1>2. g = [h EXCEPT ![m] = b] /\ b.absent = h[m].absent \union {event} /\ b.meta = h[m].meta /\ SameParts(b, h[m])
  BY <1>1 DEF SameParts, Fields
<1> HIDE DEF b, g
<1>3. b.meta \in Tables \union {Nil} /\ \A e \in b.absent : e \in {Index, NewIndex} /\ At(h[m], e) = Nil
  BY <1>1, <1>2 DEF TableOk
<1>4. /\ HeapOk(g) /\ Later(h, g) /\ \A u \in Tables \ {m} : g[u] = h[u]
      /\ g[m] = b /\ \A u \in Tables : SameParts(g[u], h[u])
  <2> DEFINE e == [h EXCEPT ![m] = b]
  <2>1. /\ HeapOk(e) /\ Later(h, e) /\ \A u \in Tables \ {m} : e[u] = h[u]
        /\ e[m] = b /\ \A u \in Tables : SameParts(e[u], h[u])
    BY <1>2, <1>3, Reflagged
  <2> QED
    BY <1>2, <2>1
<1> QED
  BY <1>2, <1>4 DEF Changed, g

\* A lookup sets no flag but a true one.
LEMMA TableAtOk ==
  ASSUME NEW h, HeapOk(h), NEW t \in Tables
  PROVE  Changed(h, TableAt(h, t).heap)
<1> DEFINE end == Chase(h, t, Field, Index)
           m == h[end].meta
<1>1. AnswerAt(h, end, Index) = Nothing => end \in Tables
  BY DEF AnswerAt, Nothing, Found, Calls
<1>2. TableAt(h, t).heap = IF AnswerAt(h, end, Index) = Nothing THEN Learn(h, end, Index) ELSE h
  BY DEF TableAt
<1> HIDE DEF end
<1>3. CASE AnswerAt(h, end, Index) = Nothing /\ Learn(h, end, Index) # h
  <2>1. end \in Tables /\ m \in Tables /\ At(h[m], Index) = Nil
    BY <1>1, <1>3 DEF Learn, HeapOk, TableOk
  <2>2. Learn(h, end, Index) = [h EXCEPT ![m].absent = @ \union {Index}]
    BY <1>3 DEF Learn
  <2> HIDE DEF m
  <2>3. Changed(h, [h EXCEPT ![m].absent = @ \union {Index}])
    BY <2>1, FlagSet
  <2> QED
    BY <1>2, <1>3, <2>2, <2>3
<1> QED
  BY <1>2, <1>3, Unchanged

\* Two changes are one.
LEMMA ChangedTwice ==
  ASSUME NEW h, NEW f, NEW g, Changed(h, f), Changed(f, g)
  PROVE  Changed(h, g)
BY DEF Changed, Later

\* So does an assignment, whichever table it ends in.
LEMMA SetTableAtOk ==
  ASSUME NEW h, HeapOk(h), NEW t \in Tables, NEW k \in Strings, NEW v \in Kept, NEW crowded \in BOOLEAN
  PROVE  Changed(h, SetTableAt(h, t, k, v, crowded))
<1> DEFINE end == Chase(h, t, k, NewIndex)
           g == SetTableAt(h, t, k, v, crowded)
           mt == h[end].meta
           known == IF mt = Nil THEN h ELSE [h EXCEPT ![mt].absent = @ \union {NewIndex}]
<1>1. CASE end \in Tables /\ At(h[end], k) # Nil
  <2>1. g = Written(h, end, k, v, FALSE)
    BY <1>1 DEF SetTableAt, TryPut, Written
  <2> HIDE DEF end, g
  <2>2. Changed(h, Written(h, end, k, v, FALSE))
    BY <1>1, ClearedPut
  <2> QED
    BY <2>1, <2>2 DEF g
<1>2. CASE end \in Tables /\ At(h[end], k) = Nil /\ FastTagMethod(h, end, NewIndex) = Nil
  <2>1. g = Written(known, end, k, v, crowded)
    BY <1>2 DEF SetTableAt, Put, Written
  <2> HIDE DEF end, g
  <2>2. mt \in Tables \union {Nil} /\ (mt # Nil => At(h[mt], NewIndex) = Nil)
    BY <1>2, TagMethod DEF HeapOk, TableOk
  <2> HIDE DEF mt
  <2>3. Changed(h, known)
    <3>1. CASE mt = Nil
      BY <3>1, Unchanged
    <3>2. CASE mt # Nil
      BY <2>2, <3>2, FlagSet
    <3> QED
      BY <3>1, <3>2
  <2> HIDE DEF known
  <2>4. Changed(known, g)
    <3>1. HeapOk(known)
      BY <2>3 DEF Changed
    <3>2. Changed(known, Written(known, end, k, v, crowded))
      BY <1>2, <3>1, ClearedPut
    <3> QED
      BY <2>1, <3>2
  <2> QED
    BY <2>3, <2>4, ChangedTwice DEF g
<1>3. CASE end \notin Tables \/ (At(h[end], k) = Nil /\ FastTagMethod(h, end, NewIndex) # Nil)
  <2>1. g = h
    BY <1>3 DEF SetTableAt
  <2> QED
    BY <2>1, Unchanged
<1> QED
  BY <1>1, <1>2, <1>3

-----------------------------------------------------------------------------
(* What the recursive functions of a lookup are.                           *)

Ends == Tables \union {Nil}

\* Hop goes from table to table by NextOf.
LEMMA HopSteps ==
  ASSUME NEW h, NEW idx \in Ends
  PROVE  /\ \A n \in Nat : Hop(h, idx, n) \in Ends
         /\ Hop(h, idx, 0) = idx
         /\ \A n \in Nat \ {0} : Hop(h, idx, n) = NextOf(h, Hop(h, idx, n - 1))
<1> DEFINE step == [i \in Nat |-> [x \in Ends |-> NextOf(h, x)]]
           IsHop(hop) == hop = [i \in Nat |-> IF i = 0 THEN idx ELSE NextOf(h, hop[i - 1])]
           F == CHOOSE hop : IsHop(hop)
<1>1. \A x \in Ends : NextOf(h, x) \in Ends
  BY DEF NextOf, IndexTable, Ends
<1>2. step \in [Nat -> [Ends -> Ends]]
  BY <1>1
<1>3. PICK f : Follows(f, Ends, idx, step)
  <2> HIDE DEF step
  <2> QED
    BY <1>2, Iterates
<1>4. ASSUME NEW n \in Nat \ {0} PROVE f[n] = NextOf(h, f[n - 1])
  <2>1. n - 1 \in Nat /\ f[n - 1] \in Ends
    BY <1>3 DEF Follows
  <2> QED
    BY <1>3, <2>1 DEF Follows
<1>5. IsHop(f)
  BY <1>3, <1>4 DEF Follows
<1>6. IsHop(F)
  <2> HIDE DEF IsHop
  <2> QED
    BY <1>5
<1>7. \A n \in Nat : Hop(h, idx, n) = F[n]
  BY DEF Hop
<1> HIDE DEF F, step
<1>8. F[0] = idx /\ \A n \in Nat \ {0} : F[n] = NextOf(h, F[n - 1])
  BY <1>6
<1>9. ASSUME NEW n \in Nat PROVE F[n] \in Ends
  <2>1. CASE n = 0
    BY <1>8, <2>1
  <2>2. CASE n # 0
    BY <1>8, <2>2 DEF NextOf, IndexTable, Ends
  <2> QED
    BY <2>1, <2>2
<1> QED
  BY <1>7, <1>8, <1>9

\* Where a chain's level leads from a table.
LevelFrom(h, level, last) ==
  LET mt == IF last = Nil THEN Nil ELSE h[last].meta
      next == IF mt = Nil \/ Ref(h, mt) # level.mtShape THEN Nil ELSE h[mt].slots[level.mtSlot]
  IN IF next \in Tables /\ Ref(h, next) = level.index THEN next ELSE Nil

\* FromChain goes from table to table by the levels.
LEMMA ChainSteps ==
  ASSUME NEW h, NEW chain, Len(chain.levels) \in Nat, NEW t \in Tables
  PROVE  \E hop : LET n == Len(chain.levels)
                  IN /\ \A i \in 0 .. n : hop[i] \in Ends
                     /\ hop[0] = t
                     /\ \A i \in 1 .. n : hop[i] = LevelFrom(h, chain.levels[i], hop[i - 1])
                     /\ FromChain(h, chain, t) =
                          IF hop[n] = Nil THEN Miss
                          ELSE IF chain.slot > 0 THEN OrMiss(hop[n], h[hop[n]].slots[chain.slot])
                          ELSE IF h[hop[n]].meta = Nil THEN Nothing ELSE Miss
<1> DEFINE n == Len(chain.levels)
           step == [i \in Nat |-> [x \in Ends |-> LevelFrom(h, chain.levels[i + 1], x)]]
           IsHop(hop) == hop = [i \in 0 .. n |-> IF i = 0 THEN t ELSE LevelFrom(h, chain.levels[i], hop[i - 1])]
           F == CHOOSE hop : IsHop(hop)
<1>0. t \in Ends
  BY DEF Ends
<1>1. \A x, level : LevelFrom(h, level, x) \in Ends
  BY DEF LevelFrom, Ends
<1>2. step \in [Nat -> [Ends -> Ends]]
  BY <1>1
<1>3. PICK f : Follows(f, Ends, t, step)
  <2> HIDE DEF step
  <2> QED
    BY <1>0, <1>2, Iterates
<1>4. ASSUME NEW i \in Nat \ {0} PROVE f[i] = LevelFrom(h, chain.levels[i], f[i - 1])
  <2>1. i - 1 \in Nat /\ f[i - 1] \in Ends /\ (i - 1) + 1 = i
    BY <1>3 DEF Follows
  <2> QED
    BY <1>3, <2>1 DEF Follows
<1> DEFINE g == [i \in 0 .. n |-> f[i]]
<1>5. IsHop(g)
  BY <1>3, <1>4 DEF Follows
<1>6. IsHop(F)
  <2> HIDE DEF IsHop
  <2> QED
    BY <1>5
<1>7. FromChain(h, chain, t) =
        IF F[n] = Nil THEN Miss
        ELSE IF chain.slot > 0 THEN OrMiss(F[n], h[F[n]].slots[chain.slot])
        ELSE IF h[F[n]].meta = Nil THEN Nothing ELSE Miss
  BY DEF FromChain, LevelFrom
<1> HIDE DEF F, step
<1>8. F[0] = t /\ \A i \in 1 .. n : F[i] = LevelFrom(h, chain.levels[i], F[i - 1])
  <2>1. n \in Nat
    OBVIOUS
  <2> HIDE DEF n
  <2>2. 0 \in 0 .. n /\ \A i \in 1 .. n : i \in 0 .. n /\ i # 0
    BY <2>1
  <2> QED
    BY <1>6, <2>2
<1>9. \A i \in 0 .. n : F[i] \in Ends
  BY <1>0, <1>1, <1>8
<1> QED
  BY <1>7, <1>8, <1>9

\* What Lua finds from a table in no more than n steps.
IndexOf(h, u) == IF h[u].meta = Nil THEN Nil ELSE At(h[h[u].meta], Index)
IsMeaning(h, f) ==
  \A n \in Nat, u \in Tables :
    f[n][u] = IF At(h[u], Field) # Nil THEN Found(u, At(h[u], Field))
              ELSE IF IndexOf(h, u) = Nil THEN Nothing
              ELSE IF IndexOf(h, u) \notin Tables THEN Calls
              ELSE IF n = 0 THEN Loops ELSE f[n - 1][IndexOf(h, u)]
Hops == Cardinality(Tables) + MaxChain + 1

\* Resolve is the meaning of a lookup of as many steps as Hops.
LEMMA ResolveIs == \E f : IsMeaning(heap, f) /\ \A t \in Tables : Resolve(t) = f[Hops][t]
<1> DEFINE A == {Found(u, At(heap[u], Field)) : u \in Tables} \union {Nothing, Calls, Loops}
           X == [Tables -> A]
           Here(u, n, g) == IF At(heap[u], Field) # Nil THEN Found(u, At(heap[u], Field))
                            ELSE IF IndexOf(heap, u) = Nil THEN Nothing
                            ELSE IF IndexOf(heap, u) \notin Tables THEN Calls
                            ELSE IF n = 0 THEN Loops ELSE g[IndexOf(heap, u)]
           x == [u \in Tables |-> Here(u, 0, u)]
           step == [n \in Nat |-> [g \in X |-> [u \in Tables |-> Here(u, 1, g)]]]
           Eq(f) == f = [n \in Nat |-> [u \in Tables |-> Here(u, n, f[n - 1])]]
           F == CHOOSE f : Eq(f)
<1>1. Hops \in Nat
  BY ContentsAssumption, ChainAssumption, FS_CardinalityType DEF Hops
<1>2. x \in X
  OBVIOUS
<1>3. step \in [Nat -> [X -> X]]
  <2>1. ASSUME NEW g \in X PROVE [u \in Tables |-> Here(u, 1, g)] \in X
    OBVIOUS
  <2> HIDE DEF X, Here
  <2> QED
    BY <2>1
<1>4. PICK f : Follows(f, X, x, step)
  <2> HIDE DEF X, x, step
  <2> QED
    BY <1>2, <1>3, Iterates
<1>5. ASSUME NEW n \in Nat, NEW u \in Tables PROVE f[n][u] = Here(u, n, f[n - 1])
  <2>1. CASE n = 0
    BY <1>4, <2>1 DEF Follows
  <2>2. CASE n # 0
    <3> DEFINE g == f[n - 1]
    <3>1. n - 1 \in Nat /\ g \in X
      BY <1>4, <2>2 DEF Follows
    <3>2. f[n] = step[n - 1][g]
      BY <1>4, <2>2 DEF Follows
    <3> HIDE DEF g, X, Here
    <3>3. f[n][u] = Here(u, 1, g)
      BY <3>1, <3>2
    <3> QED
      BY <2>2, <3>3 DEF g, Here
  <2> QED
    BY <2>1, <2>2
<1>6. Eq(f)
  <2>1. f \in [Nat -> X]
    BY <1>4 DEF Follows
  <2>2. \A n \in Nat : f[n] = [u \in Tables |-> Here(u, n, f[n - 1])]
    <3> HIDE DEF Here, A
    <3> SUFFICES ASSUME NEW n \in Nat PROVE f[n] = [u \in Tables |-> Here(u, n, f[n - 1])]
      OBVIOUS
    <3>1. f[n] \in [Tables -> A]
      BY <2>1
    <3> QED
      BY <1>5, <3>1
  <2> HIDE DEF Here, X
  <2> QED
    BY <2>1, <2>2
<1>7. Eq(F)
  <2> HIDE DEF Eq
  <2> QED
    BY <1>6
<1>8. \A t \in Tables : Resolve(t) = F[Hops][t]
  BY DEF Resolve, IndexOf, Hops
<1> HIDE DEF F
<1>9. ASSUME NEW n \in Nat, NEW u \in Tables PROVE F[n][u] = Here(u, n, F[n - 1])
  <2> HIDE DEF Here
  <2> QED
    BY <1>7
<1>10. IsMeaning(heap, F)
  BY <1>9 DEF IsMeaning
<1> QED
  BY <1>8, <1>10

\* A lookup that has nowhere to go stays.
LEMMA ChaseStays ==
  ASSUME NEW h, NEW t \in Tables, NEW k, NEW event, At(h[t], k) # Nil \/ FastTagMethod(h, t, event) = Nil
  PROVE  Chase(h, t, k, event) = t
<1> DEFINE Onward(u) == IF u \in Tables /\ At(h[u], k) = Nil /\ FastTagMethod(h, u, event) # Nil
                          THEN FastTagMethod(h, u, event) ELSE u
           Eq(f) == f = [n \in Nat |-> IF n = 0 THEN t ELSE Onward(f[n - 1])]
           F == CHOOSE f : Eq(f)
           c == Cardinality(Tables) + 1
<1>1. c \in Nat
  BY ContentsAssumption, FS_CardinalityType
<1>2. Onward(t) = t
  OBVIOUS
<1> HIDE DEF Onward
<1>3. Eq([n \in Nat |-> t])
  BY <1>2
<1>4. Eq(F)
  <2> HIDE DEF Eq
  <2> QED
    BY <1>3
<1>5. Chase(h, t, k, event) = F[c]
  BY DEF Chase, Onward
<1> HIDE DEF F, c
<1>6. F[0] = t /\ \A n \in Nat \ {0} : F[n] = Onward(F[n - 1])
  BY <1>4
<1> SUFFICES ASSUME F[c] # t PROVE FALSE
  BY <1>5
<1> DEFINE S == {i \in 0 .. c : F[i] # t}
<1>7. S \in SUBSET (0 .. c) /\ S # {}
  BY <1>1
<1>8. PICK e \in S : e \in 0 .. c /\ (e # 0 => e - 1 \in 0 .. c /\ e - 1 \notin S)
  <2> HIDE DEF S
  <2> QED
    BY <1>1, <1>7, FirstOf
<1>9. e # 0 /\ F[e - 1] = t /\ F[e] # t
  BY <1>6, <1>8
<1> QED
  BY <1>1, <1>2, <1>6, <1>8, <1>9

-----------------------------------------------------------------------------
(* What a cache learns is true.                                            *)

\* Nil is neither a table nor a shape.
LEMMA NilApart == Nil \notin Tables /\ Nil \notin Seq(Strings)
BY ContentsAssumption, RefsAssumption DEF Contents

\* A cache of a table alone.
LEMMA FreshOk ==
  ASSUME NEW h, NEW ref \in Refs, NEW slot \in Nat, NEW indexSlot \in Nat, KeyAt(h, ref, slot, Field)
  PROVE  CacheOk(h, Fresh(ref, slot, indexSlot))
<1> DEFINE c == Fresh(ref, slot, indexSlot)
<1>1. /\ c.shape = ref /\ c.slot = slot /\ c.mtShape = Nil /\ c.chain.levels = <<>> /\ c.chain.slot = 0
      /\ c \in [shape : Refs, slot : Nat, mtShape : Refs, mtSlot : Nat, index : Refs, indexSlot : Nat,
                chain : [levels : Seq(Level), slot : Nat]]
  BY DEF Fresh, NoChain, Refs
<1> HIDE DEF c
<1>2. c \in Cache
  BY <1>1 DEF Cache
<1>3. Len(c.chain.levels) <= MaxChain
  BY <1>1, ChainAssumption
<1> QED
  BY <1>1, <1>2, <1>3 DEF CacheOk, c

\* A name that no table has says nothing.
LEMMA NamelessOk ==
  ASSUME NEW h, NEW ref \in {Nil, Replaced, StringShape}, NEW slot, NEW k
  PROVE  KeyAt(h, ref, slot, k)
BY RefsApart DEF KeyAt

\* A table with a slot has a shape.
LEMMA ShapeOfSlot ==
  ASSUME NEW h, NEW t \in Tables, TableOk(h, t), NEW k \in Strings, SlotOf(h[t], k) # 0
  PROVE  Ref(h, t) # Nil
<1>1. SlotOf(h[t], k) \in DOMAIN h[t].shape.keys
  BY SlotOfKey DEF TableOk, WellFormed
<1>2. h[t].shape # RootShape
  BY <1>1 DEF RootShape
<1> QED
  BY <1>2, RefOfTable

\* The __index table of a metatable, and where its key is.
LEMMA IndexTableOf ==
  ASSUME NEW h, HeapOk(h), NEW mt \in Tables, IndexTable(h, mt) # Nil
  PROVE  /\ SlotOf(h[mt], Index) \in Nat \ {0}
         /\ Ref(h, mt) # Nil /\ Ref(h, mt) \in Refs
         /\ KeyAt(h, Ref(h, mt), SlotOf(h[mt], Index), Index)
         /\ IndexTable(h, mt) \in Tables
         /\ Ref(h, IndexTable(h, mt)) # Nil /\ Ref(h, IndexTable(h, mt)) \in Refs
<1> DEFINE i == SlotOf(h[mt], Index)
<1>1. TableOk(h, mt) /\ Index \in Strings
  BY FieldAssumption DEF HeapOk
<1>2. i \in Nat
  BY <1>1, SlotOfKey DEF TableOk, WellFormed
<1>3. i # 0
  BY NilApart DEF IndexTable
<1>4. IndexTable(h, mt) \in Tables /\ Ref(h, IndexTable(h, mt)) # Nil
  BY DEF IndexTable
<1>5. Ref(h, IndexTable(h, mt)) \in Refs
  BY <1>4, RefOfTable DEF HeapOk
<1> QED
  BY <1>1, <1>2, <1>3, <1>4, <1>5, ShapeOfSlot, KeyLearnt, RefOfTable

\* The chain of tables that a cache learns.
ChainOk(h, ref, chain) ==
  LET n == Len(chain.levels)
  IN /\ chain \in [levels : Seq(Level), slot : Nat]
     /\ n <= MaxChain
     /\ \A i \in 1 .. n : LevelOk(h, chain.levels[i])
     /\ \A i \in 0 .. n : KeyAt(h, IF i = 0 THEN ref ELSE chain.levels[i].index,
                                IF i = n THEN chain.slot ELSE 0, Field)

\* A chain names the shapes and slots that it went through.
LEMMA ChainLearnt ==
  ASSUME NEW h, HeapOk(h), NEW idx \in Tables, SlotOf(h[idx], Field) = 0, Chain(h, idx) # Nil
  PROVE  ChainOk(h, Ref(h, idx), Chain(h, idx))
<1> DEFINE ends == ChainEnds(h, idx)
           last == Min(ends)
           T(n) == Hop(h, idx, n)
           L(n) == [mtShape |-> Ref(h, h[T(n - 1)].meta), mtSlot |-> SlotOf(h[h[T(n - 1)].meta], Index),
                    index |-> Ref(h, T(n))]
           chain == Chain(h, idx)
<1>1. ends # {} /\ \A n \in 0 .. last : ~MayGain(h, T(n))
  BY DEF Chain
<1>2. chain = [levels |-> [n \in 1 .. last |-> L(n)], slot |-> SlotOf(h[T(last)], Field)]
  BY <1>1 DEF Chain
<1>3. last \in ends /\ (\A n \in ends : last <= n) /\ ends \subseteq 0 .. MaxChain
  <2>1. ends \subseteq 0 .. MaxChain
    BY DEF ChainEnds
  <2>2. IsFiniteSet(0 .. MaxChain)
    BY ChainAssumption, FS_Interval
  <2> HIDE DEF ends
  <2>3. IsFiniteSet(ends)
    BY <2>1, <2>2, FS_Subset
  <2>4. ends \in SUBSET Nat
    BY <2>1, ChainAssumption
  <2> QED
    BY <1>1, <2>1, <2>3, <2>4, LeastOf
<1> HIDE DEF last, chain
<1>4. last \in Nat /\ last <= MaxChain
  BY <1>3, ChainAssumption
<1>5. idx \in Ends
  BY DEF Ends
<1>6. /\ \A n \in Nat : T(n) \in Ends
      /\ T(0) = idx
      /\ \A n \in Nat \ {0} : T(n) = NextOf(h, T(n - 1))
  BY <1>5, HopSteps
<1> HIDE DEF T
<1>7. T(last) # Nil
  BY <1>3 DEF ChainEnds, T
<1>8. ASSUME NEW n \in 0 .. last PROVE T(n) \in Tables
  <2> DEFINE S == {i \in 0 .. last : T(last - i) = Nil}
  <2> SUFFICES ASSUME T(n) = Nil PROVE FALSE
    BY <1>4, <1>6 DEF Ends
  <2>1. last - n \in S /\ S \in SUBSET (0 .. last)
    BY <1>4
  <2>2. PICK e \in S : e \in 0 .. last /\ (e # 0 => e - 1 \in 0 .. last /\ e - 1 \notin S)
    <3> HIDE DEF S
    <3> QED
      BY <1>4, <2>1, FirstOf
  <2>3. e # 0
    BY <1>4, <1>7, <2>2
  <2>4. T(last - e) = Nil /\ T(last - (e - 1)) # Nil
    BY <2>2, <2>3
  <2>5. last - (e - 1) \in Nat \ {0} /\ (last - (e - 1)) - 1 = last - e
    BY <1>4, <2>2, <2>3
  <2>6. T(last - (e - 1)) = NextOf(h, T(last - e))
    BY <1>6, <2>5
  <2> QED
    BY <2>4, <2>6 DEF NextOf
<1>9. ASSUME NEW n \in 0 .. last, n # last
      PROVE  SlotOf(h[T(n)], Field) = 0
  <2>1. n \notin ends /\ n \in 0 .. MaxChain
    <3> HIDE DEF ends
    <3> QED
      BY <1>3, <1>4, <1>9, ChainAssumption
  <2>2. T(n) # Nil
    BY <1>8, NilApart
  <2>3. ~(SlotOf(h[T(n)], Field) > 0)
    BY <2>1, <2>2 DEF ChainEnds, T
  <2>4. SlotOf(h[T(n)], Field) \in Nat
    BY <1>8, SlotOfKey, FieldAssumption DEF HeapOk, TableOk, WellFormed
  <2> QED
    BY <2>3, <2>4
<1>10. ASSUME NEW n \in 0 .. last
       PROVE  /\ Ref(h, T(n)) \in Refs
              /\ KeyAt(h, Ref(h, T(n)), SlotOf(h[T(n)], Field), Field)
              /\ SlotOf(h[T(n)], Field) \in Nat
  <2>1. T(n) \in Tables /\ TableOk(h, T(n)) /\ Field \in Strings
    BY <1>8, FieldAssumption DEF HeapOk
  <2>2. SlotOf(h[T(n)], Field) # 0 \/ ~h[T(n)].shape.dict
    BY <1>1 DEF MayGain
  <2>3. SlotOf(h[T(n)], Field) \in Nat
    BY <2>1, SlotOfKey DEF TableOk, WellFormed
  <2> QED
    BY <2>1, <2>2, <2>3, KeyLearnt, RefOfTable
<1>11. ASSUME NEW n \in 1 .. last PROVE L(n) \in Level /\ LevelOk(h, L(n))
  <2>1. n \in Nat \ {0} /\ n - 1 \in 0 .. last /\ n \in 0 .. last
    BY <1>4
  <2>2. T(n - 1) \in Tables /\ T(n) \in Tables /\ T(n) = NextOf(h, T(n - 1))
    BY <1>6, <1>8, <2>1
  <2> DEFINE mt == h[T(n - 1)].meta
  <2>3. mt # Nil /\ T(n) = IndexTable(h, mt)
    BY <2>2, NilApart DEF NextOf
  <2>4. mt \in Tables
    BY <2>2, <2>3 DEF HeapOk, TableOk
  <2> HIDE DEF mt
  <2>5. /\ SlotOf(h[mt], Index) \in Nat \ {0}
        /\ Ref(h, mt) # Nil /\ Ref(h, mt) \in Refs
        /\ KeyAt(h, Ref(h, mt), SlotOf(h[mt], Index), Index)
        /\ Ref(h, T(n)) # Nil /\ Ref(h, T(n)) \in Refs
    BY <2>2, <2>3, <2>4, NilApart, IndexTableOf
  <2>6. L(n) = [mtShape |-> Ref(h, mt), mtSlot |-> SlotOf(h[mt], Index), index |-> Ref(h, T(n))]
    BY DEF mt
  <2> HIDE DEF L
  <2> QED
    BY <2>5, <2>6 DEF Level, LevelOk
<1> DEFINE levels == [n \in 1 .. last |-> L(n)]
<1>12. levels \in [1 .. last -> Level] /\ \A n \in 1 .. last : levels[n].index = Ref(h, T(n)) /\ levels[n] = L(n)
  BY <1>11
<1> HIDE DEF levels
<1>13. levels \in Seq(Level) /\ Len(levels) = last
  BY <1>4, <1>12
<1>14. chain.levels = levels /\ chain.slot = SlotOf(h[T(last)], Field) /\ chain = [levels |-> levels, slot |-> chain.slot]
  BY <1>2 DEF levels
<1>15. chain.slot \in Nat
  BY <1>4, <1>10, <1>14
<1>16. chain \in [levels : Seq(Level), slot : Nat]
  BY <1>13, <1>14, <1>15
<1>17. \A i \in 1 .. last : LevelOk(h, chain.levels[i])
  <2> HIDE DEF L
  <2> QED
    BY <1>11, <1>12, <1>14
<1>18. ASSUME NEW i \in 0 .. last
       PROVE  KeyAt(h, IF i = 0 THEN Ref(h, idx) ELSE chain.levels[i].index,
                       IF i = last THEN chain.slot ELSE 0, Field)
  <2>1. (IF i = 0 THEN Ref(h, idx) ELSE chain.levels[i].index) = Ref(h, T(i))
    <3> HIDE DEF L
    <3> QED
      BY <1>4, <1>6, <1>12, <1>14
  <2>2. (IF i = last THEN chain.slot ELSE 0) = SlotOf(h[T(i)], Field)
    BY <1>9, <1>14
  <2> QED
    BY <1>10, <2>1, <2>2
<1>19. ChainOk(h, Ref(h, idx), chain)
  BY <1>4, <1>13, <1>14, <1>16, <1>17, <1>18 DEF ChainOk
<1> QED
  BY <1>19 DEF chain

\* What FillIndex learns is so.
LEMMA FillIndexOk ==
  ASSUME NEW h, HeapOk(h), NEW ref \in Refs, NEW slot \in Nat, KeyAt(h, ref, slot, Field), NEW mt \in Ends
  PROVE  LET f == FillIndex(h, Fresh(ref, slot, 0), mt)
         IN /\ CacheOk(h, f.cache) /\ f.cache.shape = ref /\ f.cache.slot = slot
            /\ f.ok /\ mt # Nil => f.cache.mtShape # Nil
<1> DEFINE c == Fresh(ref, slot, 0)
           f == FillIndex(h, c, mt)
           idx == IF mt = Nil THEN Nil ELSE IndexTable(h, mt)
           i == SlotOf(h[mt], Index)
           j == SlotOf(h[idx], Field)
           chain == IF j > 0 THEN NoChain ELSE Chain(h, idx)
<1>1. CacheOk(h, c) /\ c.shape = ref /\ c.slot = slot
  BY FreshOk DEF Fresh
<1>2. CASE f = [ok |-> TRUE, cache |-> c] /\ mt = Nil
  BY <1>1, <1>2
<1>3. CASE f = [ok |-> FALSE, cache |-> c]
  BY <1>1, <1>3
<1>4. CASE mt # Nil /\ idx # Nil /\ (j > 0 \/ Chain(h, idx) # Nil)
  <2>1. f.ok = TRUE /\ f.cache = [shape |-> ref, slot |-> slot, mtShape |-> Ref(h, mt), mtSlot |-> i,
                   index |-> Ref(h, idx), indexSlot |-> IF j > 0 THEN j ELSE 0, chain |-> chain]
    <3>1. CASE j > 0
      BY <1>4, <3>1 DEF FillIndex, Fresh
    <3>2. CASE ~(j > 0)
      BY <1>4, <3>2 DEF FillIndex, Fresh
    <3> QED
      BY <3>1, <3>2
  <2>2. mt \in Tables /\ idx = IndexTable(h, mt) /\ IndexTable(h, mt) # Nil
    BY <1>4 DEF Ends
  <2>3. /\ i \in Nat \ {0} /\ Ref(h, mt) # Nil /\ Ref(h, mt) \in Refs
        /\ KeyAt(h, Ref(h, mt), i, Index)
        /\ idx \in Tables /\ Ref(h, idx) # Nil /\ Ref(h, idx) \in Refs
    BY <2>2, IndexTableOf
  <2>4. j \in Nat
    BY <2>3, SlotOfKey, FieldAssumption DEF HeapOk, TableOk, WellFormed
  <2>5. j > 0 => KeyAt(h, Ref(h, idx), j, Field)
    BY <2>3, <2>4, KeyLearnt, FieldAssumption DEF HeapOk
  <2>6. ~(j > 0) => ChainOk(h, Ref(h, idx), chain)
    BY <1>4, <2>3, <2>4, ChainLearnt
  <2>7. chain \in [levels : Seq(Level), slot : Nat] /\ Len(chain.levels) <= MaxChain
    <3>1. CASE j > 0
      BY <3>1, ChainAssumption DEF NoChain
    <3>2. CASE ~(j > 0)
      BY <2>6, <3>2 DEF ChainOk
    <3> QED
      BY <3>1, <3>2
  <2> DEFINE g == f.cache
  <2> HIDE DEF f, i, j, idx, chain
  <2>8. g \in Cache
    BY <2>1, <2>3, <2>4, <2>7 DEF Cache
  <2>9. /\ g.shape = ref /\ g.slot = slot /\ g.mtShape = Ref(h, mt) /\ g.mtSlot = i
        /\ g.index = Ref(h, idx) /\ g.indexSlot = (IF j > 0 THEN j ELSE 0) /\ g.chain = chain
    BY <2>1
  <2> HIDE DEF g
  <2>10. IF g.indexSlot > 0 THEN KeyAt(h, g.index, g.indexSlot, Field) ELSE PathOk(h, g)
    <3>1. CASE j > 0
      BY <2>5, <2>9, <3>1
    <3>2. CASE ~(j > 0)
      <4>1. PathOk(h, g)
        BY <2>6, <2>9, <3>2 DEF ChainOk, PathOk, RefOf, FieldSlot
      <4> QED
        BY <2>9, <3>2, <4>1
    <3> QED
      BY <3>1, <3>2
  <2>11. CacheOk(h, g)
    BY <2>3, <2>7, <2>8, <2>9, <2>10 DEF CacheOk
  <2> QED
    BY <2>3, <2>9, <2>11 DEF g, f
<1>5. \/ f = [ok |-> TRUE, cache |-> c] /\ mt = Nil
      \/ f = [ok |-> FALSE, cache |-> c]
      \/ mt # Nil /\ idx # Nil /\ (j > 0 \/ Chain(h, idx) # Nil)
  BY DEF FillIndex
<1> QED
  BY <1>2, <1>3, <1>4, <1>5

\* A cache starts in order.
LEMMA EmptyCacheOk == ASSUME NEW h PROVE CacheOk(h, EmptyCache)
<1>1. Nil \in Refs /\ KeyAt(h, Nil, 1, Field)
  BY NamelessOk DEF Refs
<1> QED
  BY <1>1, FreshOk DEF EmptyCache

\* The cache that a table's shape and slot begin.
LEMMA BegunOk ==
  ASSUME NEW h, HeapOk(h), NEW t \in Tables, SlotOf(h[t], Field) # 0 \/ ~h[t].shape.dict
  PROVE  /\ Ref(h, t) \in Refs /\ SlotOf(h[t], Field) \in Nat
         /\ KeyAt(h, Ref(h, t), SlotOf(h[t], Field), Field)
<1>1. TableOk(h, t) /\ Field \in Strings
  BY FieldAssumption DEF HeapOk
<1> QED
  BY <1>1, KeyLearnt, RefOfTable, SlotOfKey DEF TableOk, WellFormed

\* What Fill begins a cache with, and what it does with it.
LEMMA FillOk ==
  ASSUME NEW h, HeapOk(h), NEW t \in Tables, NEW c, CacheOk(h, c)
  PROVE  LET f == Fill(h, c, t)
         IN /\ CacheOk(h, f.cache)
            /\ f.answer = Miss \/ (f.answer = Lookup(h, f.cache, t) /\ f.cache.shape = Ref(h, t) /\ Ref(h, t) # Nil)
<1> DEFINE slot == SlotOf(h[t], Field)
           filled == FillIndex(h, Fresh(Ref(h, t), slot, 0), h[t].meta)
           f == Fill(h, c, t)
<1>1. CASE Ref(h, t) = Nil \/ (slot = 0 /\ h[t].shape.dict)
  BY <1>1 DEF Fill
<1>2. CASE ~(Ref(h, t) = Nil \/ (slot = 0 /\ h[t].shape.dict)) /\ (~filled.ok /\ slot = 0)
  BY <1>2, EmptyCacheOk DEF Fill
<1>3. CASE ~(Ref(h, t) = Nil \/ (slot = 0 /\ h[t].shape.dict)) /\ ~(~filled.ok /\ slot = 0)
  <2>1. f.answer = Lookup(h, filled.cache, t) /\ f.cache = filled.cache
    BY <1>3 DEF Fill
  <2>2. Ref(h, t) \in Refs /\ slot \in Nat /\ KeyAt(h, Ref(h, t), slot, Field)
    BY <1>3, BegunOk
  <2>3. h[t].meta \in Ends
    BY DEF HeapOk, TableOk, Ends
  <2>4. CacheOk(h, filled.cache) /\ filled.cache.shape = Ref(h, t)
    <3> HIDE DEF slot
    <3> QED
      BY <2>2, <2>3, FillIndexOk
  <2> HIDE DEF f, filled, slot
  <2> QED
    BY <1>3, <2>1, <2>4 DEF f
<1> QED
  BY <1>1, <1>2, <1>3

\* A read leaves a cache in order and answers by Lookup, of the shape it has.
LEMMA GetFieldOk ==
  ASSUME NEW h, HeapOk(h), NEW t \in Tables, NEW c, CacheOk(h, c)
  PROVE  LET f == GetField(h, c, t)
         IN /\ CacheOk(h, f.cache)
            /\ f.answer = Miss \/ (f.answer = Lookup(h, f.cache, t) /\ f.cache.shape = Ref(h, t) /\ Ref(h, t) # Nil)
BY FillOk DEF GetField

\* The answer that a cache of strings' metatable gives.
LEMMA GetStringFieldOk ==
  ASSUME NEW h, HeapOk(h), NEW mt \in Ends, NEW c, CacheOk(h, c)
  PROVE  LET f == GetStringField(h, c, mt)
         IN /\ CacheOk(h, f.cache)
            /\ f.answer = Miss \/ (f.answer = FromMeta(h, f.cache, mt) /\ f.cache.mtShape # Nil /\ mt # Nil)
<1> DEFINE filled == FillIndex(h, Fresh(StringShape, 0, 0), mt)
           f == GetStringField(h, c, mt)
<1>1. StringShape \in Refs /\ KeyAt(h, StringShape, 0, Field)
  BY NamelessOk DEF Refs
<1>2. CacheOk(h, filled.cache) /\ (filled.ok /\ mt # Nil => filled.cache.mtShape # Nil)
  BY <1>1, FillIndexOk
<1>3. CacheOk(h, EmptyCache)
  BY EmptyCacheOk
<1> HIDE DEF filled
<1> QED
  BY <1>2, <1>3 DEF GetStringField, filled

\* A write's cache.
LEMMA SetFieldOk ==
  ASSUME NEW h, HeapOk(h), NEW t \in Tables, NEW v, NEW c, CacheOk(h, c)
  PROVE  LET set == SetField(h, c, t, v)
         IN /\ CacheOk(h, set.cache)
            /\ set.ok => /\ Ref(h, t) # Nil /\ Ref(h, t) = set.cache.shape /\ set.cache.slot > 0
                         /\ ~(h[t].shape.dict /\ v = Nil)
                         /\ h[t].slots[set.cache.slot] = Nil => ~h[t].shape.dict /\ LacksNewIndex(h, t)
                         /\ set.heap = Stored(h, set.cache, t, v).heap
<1> DEFINE s == Ref(h, t)
           hit == s = c.shape /\ c.slot > 0
           slot == SlotOf(h[t], Field)
           used == IF hit THEN c ELSE Fresh(s, slot, 0)
           set == SetField(h, c, t, v)
<1>1. CASE set = Refused(c)
  BY <1>1 DEF Refused
<1>2. CASE ~(s = Nil \/ (h[t].shape.dict /\ v = Nil)) /\ ~(~hit /\ slot = 0)
  <2>1. CacheOk(h, used) /\ used.shape = s /\ used.slot > 0
    <3>1. CASE hit
      BY <3>1
    <3>2. CASE ~hit
      <4>1. slot # 0
        BY <1>2, <3>2
      <4>2. s \in Refs /\ slot \in Nat /\ KeyAt(h, s, slot, Field)
        BY <4>1, BegunOk
      <4> HIDE DEF s, slot, hit
      <4>3. CacheOk(h, Fresh(s, slot, 0))
        BY <4>2, FreshOk
      <4>4. Fresh(s, slot, 0).shape = s /\ Fresh(s, slot, 0).slot = slot
        BY DEF Fresh
      <4> QED
        BY <3>2, <4>1, <4>2, <4>3, <4>4
    <3> QED
      BY <3>1, <3>2
  <2>2. set = IF h[t].slots[used.slot] = Nil /\ (h[t].shape.dict \/ ~LacksNewIndex(h, t)) THEN Refused(used)
              ELSE Stored(h, used, t, v)
    BY <1>2 DEF SetField
  <2> HIDE DEF set, used
  <2> QED
    BY <1>2, <2>1, <2>2 DEF Refused, Stored, set
<1>3. set = Refused(c) \/ (~(s = Nil \/ (h[t].shape.dict /\ v = Nil)) /\ ~(~hit /\ slot = 0))
  BY DEF SetField
<1> QED
  BY <1>1, <1>2, <1>3

-----------------------------------------------------------------------------
(* What a cache answers is what Lua finds.                                 *)

\* A cached slot gives what Lua finds in the table itself.
LEMMA SlotMeaning ==
  ASSUME NEW h, HeapOk(h), NEW f, IsMeaning(h, f), NEW t \in Tables, NEW slot \in Nat, NEW n \in Nat,
         Ref(h, t) # Nil, KeyAt(h, Ref(h, t), slot, Field)
  PROVE  /\ slot > 0 => slot \in DOMAIN h[t].slots /\ OrMiss(t, h[t].slots[slot]) \in {Miss, f[n][t]}
                         /\ At(h[t], Field) = h[t].slots[slot]
         /\ slot = 0 => At(h[t], Field) = Nil
<1>1. TableOk(h, t) /\ Field \in Strings
  BY FieldAssumption DEF HeapOk
<1>2. /\ slot = 0 => At(h[t], Field) = Nil
      /\ slot # 0 => slot \in DOMAIN h[t].slots /\ At(h[t], Field) = h[t].slots[slot]
  BY <1>1, KeyValue
<1>3. At(h[t], Field) # Nil => f[n][t] = Found(t, At(h[t], Field))
  BY DEF IsMeaning
<1> QED
  BY <1>2, <1>3 DEF OrMiss

\* A table without the field is looked past.
LEMMA OnwardMeaning ==
  ASSUME NEW h, NEW f, IsMeaning(h, f), NEW t \in Tables, At(h[t], Field) = Nil
  PROVE  /\ \A n \in Nat \ {0} : IndexOf(h, t) \in Tables => f[n][t] = f[n - 1][IndexOf(h, t)]
         /\ \A n \in Nat : IndexOf(h, t) = Nil => f[n][t] = Nothing
BY NilApart DEF IsMeaning

\* What a cached metatable has for __index.
LEMMA CachedIndex ==
  ASSUME NEW h, HeapOk(h), NEW mt \in Tables, NEW slot \in Nat \ {0}, Ref(h, mt) # Nil,
         KeyAt(h, Ref(h, mt), slot, Index)
  PROVE  slot \in DOMAIN h[mt].slots /\ h[mt].slots[slot] = At(h[mt], Index)
BY KeyValue, FieldAssumption DEF HeapOk

\* A level leads to the __index of the table's metatable.
LEMMA LevelMeaning ==
  ASSUME NEW h, HeapOk(h), NEW level \in Level, LevelOk(h, level), NEW t \in Ends,
         LevelFrom(h, level, t) # Nil
  PROVE  /\ t \in Tables /\ LevelFrom(h, level, t) \in Tables /\ LevelFrom(h, level, t) = IndexOf(h, t)
         /\ Ref(h, LevelFrom(h, level, t)) = level.index /\ level.index # Nil
<1> DEFINE mt == IF t = Nil THEN Nil ELSE h[t].meta
           next == h[mt].slots[level.mtSlot]
<1>1. /\ mt # Nil /\ Ref(h, mt) = level.mtShape
      /\ LevelFrom(h, level, t) = next /\ next \in Tables /\ Ref(h, next) = level.index
  BY NilApart, SMTT(60) DEF LevelFrom
<1>2. t \in Tables /\ mt = h[t].meta /\ mt \in Tables
  BY <1>1 DEF Ends, HeapOk, TableOk
<1>3. level.mtShape # Nil /\ level.mtSlot \in Nat \ {0} /\ level.index # Nil /\ KeyAt(h, level.mtShape, level.mtSlot, Index)
  BY DEF Level, LevelOk
<1>4. next = At(h[mt], Index)
  BY <1>1, <1>2, <1>3, CachedIndex
<1> QED
  BY <1>1, <1>2, <1>3, <1>4 DEF IndexOf

\* Along a chain, what Lua finds stays the same.
LEMMA ChainMeaning ==
  ASSUME NEW h, HeapOk(h), NEW f, IsMeaning(h, f), NEW c, c \in Cache, Len(c.chain.levels) <= MaxChain,
         PathOk(h, c), c.index # Nil, NEW t \in Tables, Ref(h, t) = c.index,
         NEW m \in Nat, m >= MaxChain
  PROVE  FromChain(h, c.chain, t) \in {Miss, f[m][t]}
<1> DEFINE n == Len(c.chain.levels)
<1>1. n \in Nat /\ n <= m /\ c.chain.slot \in Nat /\ \A i \in 1 .. n : c.chain.levels[i] \in Level
  BY ChainAssumption DEF Cache
<1>2. PICK hop : /\ \A i \in 0 .. n : hop[i] \in Ends
                 /\ hop[0] = t
                 /\ \A i \in 1 .. n : hop[i] = LevelFrom(h, c.chain.levels[i], hop[i - 1])
                 /\ FromChain(h, c.chain, t) =
                      IF hop[n] = Nil THEN Miss
                      ELSE IF c.chain.slot > 0 THEN OrMiss(hop[n], h[hop[n]].slots[c.chain.slot])
                      ELSE IF h[hop[n]].meta = Nil THEN Nothing ELSE Miss
  BY <1>1, ChainSteps, ZenonT(60)
<1> HIDE DEF n
<1> DEFINE Same(i) == hop[i] # Nil => /\ hop[i] \in Tables /\ f[m - i][hop[i]] = f[m][t]
                                     /\ Ref(h, hop[i]) = RefOf(c, i) /\ RefOf(c, i) # Nil
           S == {i \in 0 .. n : ~Same(i)}
<1>3. ASSUME NEW i \in 0 .. n PROVE Same(i)
  <2> SUFFICES ASSUME ~Same(i) PROVE FALSE
    OBVIOUS
  <2>1. S \in SUBSET (0 .. n) /\ S # {}
    <3> HIDE DEF Same
    <3> QED
      OBVIOUS
  <2>2. PICK e \in S : e \in 0 .. n /\ (e # 0 => e - 1 \in 0 .. n /\ e - 1 \notin S)
    <3> HIDE DEF S
    <3> QED
      BY <1>1, <2>1, FirstOf
  <2>3. ~Same(e)
    BY <2>2
  <2>4. CASE e = 0
    <3>1. m - 0 = m
      OBVIOUS
    <3>2. Same(0)
      BY <1>2, <3>1 DEF RefOf
    <3> HIDE DEF Same
    <3> QED
      BY <2>3, <2>4, <3>2
  <2>5. CASE e # 0
    <3>1. e \in 1 .. n /\ e - 1 \in 0 .. n /\ Same(e - 1)
      <4> HIDE DEF Same
      <4> QED
        BY <1>1, <2>2, <2>5
    <3> DEFINE u == hop[e - 1]
               level == c.chain.levels[e]
    <3>2. hop[e] # Nil /\ hop[e] = LevelFrom(h, level, u) /\ u \in Ends
      BY <1>2, <2>3, <3>1
    <3>3. level \in Level /\ LevelOk(h, level)
      BY <1>1, <3>1 DEF PathOk, n
    <3>4. /\ u \in Tables /\ hop[e] \in Tables /\ hop[e] = IndexOf(h, u)
          /\ Ref(h, hop[e]) = level.index /\ level.index # Nil
      <4> HIDE DEF level, u
      <4> QED
        BY <3>2, <3>3, LevelMeaning
    <3>5. f[m - (e - 1)][u] = f[m][t] /\ Ref(h, u) = RefOf(c, e - 1) /\ Ref(h, u) # Nil
      BY <3>1, <3>4, NilApart
    <3>6. KeyAt(h, RefOf(c, e - 1), 0, Field)
      <4>1. e - 1 # n
        BY <1>1, <3>1
      <4> QED
        BY <3>1, <4>1 DEF PathOk, FieldSlot, n
    <3>7. At(h[u], Field) = Nil
      <4> HIDE DEF u
      <4> QED
        BY <3>4, <3>5, <3>6, SlotMeaning
    <3>8. m - (e - 1) \in Nat \ {0} /\ (m - (e - 1)) - 1 = m - e
      BY <1>1, <3>1
    <3>9. f[m - (e - 1)][u] = f[m - e][hop[e]]
      <4> HIDE DEF u
      <4> QED
        BY <3>4, <3>7, <3>8, OnwardMeaning
    <3>10. RefOf(c, e) = level.index
      BY <2>5 DEF RefOf
    <3> QED
      BY <2>3, <3>4, <3>5, <3>9, <3>10
  <2> QED
    BY <2>4, <2>5
<1> DEFINE end == hop[n]
           k == m - n
<1>4. CASE end # Nil
  <2>1. /\ end \in Tables /\ f[k][end] = f[m][t] /\ Ref(h, end) = RefOf(c, n) /\ Ref(h, end) # Nil
        /\ k \in Nat
    BY <1>1, <1>3, <1>4
  <2>2. KeyAt(h, Ref(h, end), c.chain.slot, Field)
    BY <1>1, <2>1 DEF PathOk, FieldSlot, n
  <2>3. FromChain(h, c.chain, t) =
                      IF c.chain.slot > 0 THEN OrMiss(end, h[end].slots[c.chain.slot])
                      ELSE IF h[end].meta = Nil THEN Nothing ELSE Miss
    BY <1>2, <1>4
  <2> HIDE DEF end, k
  <2>4. CASE c.chain.slot > 0
    BY <1>1, <2>1, <2>2, <2>3, <2>4, SlotMeaning
  <2>5. CASE c.chain.slot = 0
    <3>1. At(h[end], Field) = Nil
      BY <1>1, <2>1, <2>2, <2>5, SlotMeaning
    <3>2. h[end].meta = Nil => f[k][end] = Nothing
      BY <2>1, <3>1, OnwardMeaning DEF IndexOf
    <3> QED
      BY <2>1, <2>3, <2>5, <3>2
  <2> QED
    BY <1>1, <2>4, <2>5
<1> QED
  BY <1>2, <1>4

\* The answer of a cached metatable is that of its __index.
LEMMA FromMetaMeaning ==
  ASSUME NEW h, HeapOk(h), NEW f, IsMeaning(h, f), NEW c, CacheOk(h, c), NEW mt \in Tables,
         c.mtShape # Nil \/ Ref(h, mt) # Nil, NEW m \in Nat, m >= MaxChain
  PROVE  \/ FromMeta(h, c, mt) = Miss
         \/ At(h[mt], Index) \in Tables /\ FromMeta(h, c, mt) = f[m][At(h[mt], Index)]
<1> DEFINE idx == h[mt].slots[c.mtSlot]
<1>0. mt # Nil
  BY NilApart
<1>1. CASE Ref(h, mt) # c.mtShape
  BY <1>0, <1>1 DEF FromMeta
<1>2. CASE Ref(h, mt) = c.mtShape
  <2>1. /\ c.mtShape # Nil /\ c.index # Nil /\ c.mtSlot # 0 /\ KeyAt(h, c.mtShape, c.mtSlot, Index)
        /\ IF c.indexSlot > 0 THEN KeyAt(h, c.index, c.indexSlot, Field) ELSE PathOk(h, c)
        /\ c \in Cache /\ Len(c.chain.levels) <= MaxChain
    BY <1>2 DEF CacheOk
  <2>2. c.mtSlot \in Nat \ {0} /\ c.indexSlot \in Nat
    BY <2>1 DEF Cache
  <2>3. c.mtSlot \in DOMAIN h[mt].slots /\ idx = At(h[mt], Index)
    BY <1>2, <2>1, <2>2, CachedIndex
  <2>4. CASE idx \notin Tables \/ Ref(h, idx) # c.index
    BY <1>0, <1>2, <2>3, <2>4 DEF FromMeta
  <2>5. CASE idx \in Tables /\ Ref(h, idx) = c.index
    <3>1. FromMeta(h, c, mt) = IF c.indexSlot > 0 THEN OrMiss(idx, h[idx].slots[c.indexSlot])
                               ELSE FromChain(h, c.chain, idx)
      BY <1>0, <1>2, <2>3, <2>5 DEF FromMeta
    <3> HIDE DEF idx
    <3>2. CASE c.indexSlot > 0
      BY <2>1, <2>2, <2>3, <2>5, <3>1, <3>2, SlotMeaning
    <3>3. CASE ~(c.indexSlot > 0)
      BY <2>1, <2>3, <2>5, <3>1, <3>3, ChainMeaning
    <3> QED
      BY <3>2, <3>3
  <2> QED
    BY <2>4, <2>5
<1> QED
  BY <1>1, <1>2

\* The steps are enough for a chain.
LEMMA HopsType == Hops \in Nat \ {0} /\ Hops - 1 \in Nat /\ Hops - 1 >= MaxChain
<1>1. Cardinality(Tables) \in Nat
  BY ContentsAssumption, FS_CardinalityType
<1> QED
  BY <1>1, ChainAssumption DEF Hops

\* A table that has the shape the cache begins with.
LEMMA LookupMeaning ==
  ASSUME NEW h, HeapOk(h), MetasShaped(h), NEW f, IsMeaning(h, f), NEW c, CacheOk(h, c), NEW t \in Tables,
         Ref(h, t) = c.shape, c.shape # Nil
  PROVE  Lookup(h, c, t) \in {Miss, f[Hops][t]}
<1> DEFINE mt == h[t].meta
<1>1. c.slot \in Nat /\ KeyAt(h, Ref(h, t), c.slot, Field) /\ Ref(h, t) # Nil
  BY DEF CacheOk, Cache
<1>2. CASE c.slot > 0 /\ h[t].slots[c.slot] # Nil
  <2>1. Lookup(h, c, t) = OrMiss(t, h[t].slots[c.slot])
    BY <1>2 DEF Lookup, OrMiss
  <2> QED
    BY <1>1, <1>2, <2>1, HopsType, SlotMeaning
<1>3. CASE ~(c.slot > 0 /\ h[t].slots[c.slot] # Nil)
  <2>1. At(h[t], Field) = Nil
    BY <1>1, <1>3, HopsType, SlotMeaning
  <2>2. Lookup(h, c, t) = FromMeta(h, c, mt)
    BY <1>3 DEF Lookup
  <2>3. CASE mt = Nil
    <3>1. f[Hops][t] = Nothing
      BY <2>1, <2>3, HopsType, OnwardMeaning DEF IndexOf
    <3> QED
      BY <2>2, <2>3, <3>1 DEF FromMeta
  <2>4. CASE mt # Nil
    <3>1. mt \in Tables /\ Ref(h, mt) # Nil /\ IndexOf(h, t) = At(h[mt], Index)
      BY <2>4 DEF HeapOk, TableOk, MetasShaped, IndexOf
    <3> HIDE DEF mt
    <3>2. FromMeta(h, c, mt) = Miss \/ (IndexOf(h, t) \in Tables /\ FromMeta(h, c, mt) = f[Hops - 1][IndexOf(h, t)])
      BY <3>1, HopsType, FromMetaMeaning
    <3>3. IndexOf(h, t) \in Tables => f[Hops][t] = f[Hops - 1][IndexOf(h, t)]
      BY <2>1, HopsType, OnwardMeaning
    <3> QED
      BY <2>2, <3>2, <3>3 DEF mt
  <2> QED
    BY <2>3, <2>4
<1> QED
  BY <1>2, <1>3

\* Compiled code reads the first __index table, or the second.
LEMMA ReadIndexMeaning ==
  ASSUME NEW h, HeapOk(h), NEW f, IsMeaning(h, f), NEW c, CacheOk(h, c), NEW mt \in Tables,
         NEW m \in Nat \ {0}
  PROVE  \/ ReadIndex(h, c, mt) = Miss
         \/ At(h[mt], Index) \in Tables /\ ReadIndex(h, c, mt) = f[m][At(h[mt], Index)]
<1> DEFINE first == IF Ref(h, mt) = c.mtShape THEN Element(h, mt, c.mtSlot) ELSE Nil
           chain == c.chain
           mt2 == IF first \in Tables THEN h[first].meta ELSE Nil
           second == IF Len(chain.levels) = 1 /\ mt2 # Nil /\ Ref(h, mt2) = chain.levels[1].mtShape
                       THEN Element(h, mt2, chain.levels[1].mtSlot) ELSE Nil
           out == ReadIndex(h, c, mt)
<1>1. /\ c \in Cache /\ c.mtSlot \in Nat /\ c.indexSlot \in Nat /\ c.chain.slot \in Nat /\ Len(chain.levels) \in Nat
      /\ \A i \in 1 .. Len(chain.levels) : chain.levels[i] \in Level
  <2>1. c \in Cache
    BY DEF CacheOk
  <2> QED
    BY <2>1 DEF Cache
<1>2. CASE first \in Tables /\ Ref(h, first) = c.index
  <2>1. Ref(h, mt) = c.mtShape /\ first = Element(h, mt, c.mtSlot)
    BY <1>2, NilApart
  <2>2. c.mtSlot \in DOMAIN h[mt].slots
    BY <1>2, <2>1, NilApart DEF Element
  <2>3. Ref(h, mt) # Nil
    <3>1. Slotted(h[mt], Kept) /\ TableOk(h, mt)
      BY DEF HeapOk, TableOk, WellFormed
    <3>2. DOMAIN h[mt].slots = DOMAIN h[mt].shape.keys
      BY <3>1, ShapeParts
    <3>3. h[mt].shape # RootShape
      BY <2>2, <3>2 DEF RootShape
    <3> QED
      BY <3>1, <3>3, RefOfTable
  <2>4. /\ c.mtShape # Nil /\ c.index # Nil /\ c.mtSlot # 0 /\ KeyAt(h, c.mtShape, c.mtSlot, Index)
        /\ IF c.indexSlot > 0 THEN KeyAt(h, c.index, c.indexSlot, Field) ELSE PathOk(h, c)
    BY <2>1, <2>3 DEF CacheOk
  <2>5. first = At(h[mt], Index)
    BY <1>1, <2>1, <2>2, <2>3, <2>4, CachedIndex DEF Element
  <2>6. CASE c.indexSlot > 0
    <3>1. out = OrMiss(first, Element(h, first, c.indexSlot))
      BY <1>2, <2>6 DEF ReadIndex
    <3> HIDE DEF first
    <3>2. /\ c.indexSlot \in DOMAIN h[first].slots
          /\ OrMiss(first, h[first].slots[c.indexSlot]) \in {Miss, f[m][first]}
      BY <1>1, <1>2, <2>4, <2>6, SlotMeaning
    <3> QED
      BY <1>2, <2>5, <3>1, <3>2 DEF Element
  <2>7. CASE ~(c.indexSlot > 0) /\ second \in Tables /\ Ref(h, second) = chain.levels[1].index /\ chain.slot # 0
    <3>1. out = OrMiss(second, Element(h, second, chain.slot))
      BY <1>2, <2>7 DEF ReadIndex
    <3>2. /\ Len(chain.levels) = 1 /\ mt2 # Nil /\ Ref(h, mt2) = chain.levels[1].mtShape
          /\ second = Element(h, mt2, chain.levels[1].mtSlot)
      BY <2>7, NilApart
    <3>3. mt2 = h[first].meta /\ mt2 \in Tables
      BY <1>2, <3>2 DEF HeapOk, TableOk
    <3> DEFINE level == chain.levels[1]
    <3>4. /\ PathOk(h, c) /\ level \in Level /\ LevelOk(h, level)
          /\ KeyAt(h, c.index, 0, Field) /\ KeyAt(h, level.index, chain.slot, Field)
      <4>1. PathOk(h, c) /\ level \in Level
        BY <1>1, <2>4, <2>7, <3>2
      <4>2. LevelOk(h, level) /\ KeyAt(h, RefOf(c, 0), FieldSlot(c, 0), Field) /\ KeyAt(h, RefOf(c, 1), FieldSlot(c, 1), Field)
        BY ONLY <3>2, <4>1, SMTT(60) DEF PathOk
      <4> QED
        BY <3>2, <4>1, <4>2 DEF RefOf, FieldSlot
    <3>5. second # Nil /\ level.mtSlot \in DOMAIN h[mt2].slots /\ second = h[mt2].slots[level.mtSlot]
      BY <2>7, <3>2, NilApart DEF Element
    <3> HIDE DEF first, second, mt2
    <3>6. level.mtShape # Nil /\ level.mtSlot \in Nat \ {0} /\ level.index # Nil /\ KeyAt(h, level.mtShape, level.mtSlot, Index)
      BY <3>4 DEF Level, LevelOk
    <3>7. second = At(h[mt2], Index)
      <4> HIDE DEF level
      <4>1. Ref(h, mt2) = level.mtShape
        BY <3>2 DEF level
      <4> QED
        BY <3>3, <3>5, <3>6, <4>1, CachedIndex
    <3>8. IndexOf(h, first) = second
      BY <1>2, <3>2, <3>3, <3>7 DEF IndexOf
    <3>9. At(h[first], Field) = Nil
      BY <1>2, <2>4, <3>4, SlotMeaning
    <3>10. f[m][first] = f[m - 1][second]
      BY <1>2, <2>7, <3>8, <3>9, OnwardMeaning
    <3>11. /\ chain.slot \in DOMAIN h[second].slots
           /\ OrMiss(second, h[second].slots[chain.slot]) \in {Miss, f[m - 1][second]}
      <4> DEFINE slot == c.chain.slot
      <4>1. slot \in Nat /\ slot > 0 /\ m - 1 \in Nat
        BY <1>1, <2>7
      <4>2. Ref(h, second) # Nil /\ KeyAt(h, Ref(h, second), slot, Field) /\ second \in Tables
        BY <2>7, <3>4, <3>6
      <4> HIDE DEF slot
      <4>3. slot \in DOMAIN h[second].slots /\ OrMiss(second, h[second].slots[slot]) \in {Miss, f[m - 1][second]}
        BY <4>1, <4>2, SlotMeaning, SMTT(60)
      <4> QED
        BY <4>3 DEF slot
    <3> QED
      BY <1>2, <2>5, <3>1, <3>10, <3>11 DEF Element
  <2>8. CASE ~(c.indexSlot > 0) /\ (second \notin Tables \/ Ref(h, second) # chain.levels[1].index \/ chain.slot = 0)
    BY ONLY <1>2, <2>8 DEF ReadIndex, Exit
  <2> QED
    BY <2>6, <2>7, <2>8
<1>3. CASE first \notin Tables \/ Ref(h, first) # c.index
  BY <1>3 DEF ReadIndex, Exit
<1> QED
  BY <1>2, <1>3

\* Compiled code answers what Lua finds, or exits.
LEMMA CompiledMeaning ==
  ASSUME NEW h, HeapOk(h), MetasShaped(h), NEW f, IsMeaning(h, f), NEW c, CacheOk(h, c), NEW t \in Tables
  PROVE  CompiledGet(h, c, t) \in {Miss, f[Hops][t]}
<1> DEFINE mt == h[t].meta
<1>1. CASE Ref(h, t) = Nil \/ Ref(h, t) # c.shape
  BY <1>1 DEF CompiledGet, Exit
<1>2. CASE Ref(h, t) # Nil /\ Ref(h, t) = c.shape
  <2>1. c.slot \in Nat /\ KeyAt(h, Ref(h, t), c.slot, Field)
    BY <1>2 DEF CacheOk, Cache
  <2>2. /\ c.slot > 0 => c.slot \in DOMAIN h[t].slots /\ OrMiss(t, h[t].slots[c.slot]) \in {Miss, f[Hops][t]}
                         /\ At(h[t], Field) = h[t].slots[c.slot]
        /\ c.slot = 0 => At(h[t], Field) = Nil
    BY <1>2, <2>1, HopsType, SlotMeaning
  <2>3. CASE c.slot > 0 /\ Element(h, t, c.slot) # Nil
    <3>1. CompiledGet(h, c, t) = OrMiss(t, h[t].slots[c.slot])
      BY <1>2, <2>2, <2>3 DEF CompiledGet, Element, OrMiss
    <3> QED
      BY <2>2, <2>3, <3>1
  <2>4. CASE ~(c.slot > 0 /\ Element(h, t, c.slot) # Nil)
    <3>1. At(h[t], Field) = Nil
      BY <2>1, <2>2, <2>4 DEF Element
    <3>2. CASE mt = Nil
      <4>1. f[Hops][t] = Nothing
        BY <3>1, <3>2, HopsType, OnwardMeaning DEF IndexOf
      <4> QED
        BY <1>2, <2>4, <3>2, <4>1 DEF CompiledGet, Exit
    <3>3. CASE mt # Nil
      <4>1. CompiledGet(h, c, t) = ReadIndex(h, c, mt)
        BY <1>2, <2>4, <3>3 DEF CompiledGet
      <4>2. mt \in Tables /\ IndexOf(h, t) = At(h[mt], Index)
        BY <3>3 DEF HeapOk, TableOk, IndexOf
      <4> HIDE DEF mt
      <4>3. ReadIndex(h, c, mt) = Miss \/ (IndexOf(h, t) \in Tables /\ ReadIndex(h, c, mt) = f[Hops - 1][IndexOf(h, t)])
        <5> DEFINE k == Hops - 1
        <5>1. k \in Nat \ {0}
          BY HopsType, ChainAssumption
        <5> HIDE DEF k
        <5>2. \/ ReadIndex(h, c, mt) = Miss
              \/ At(h[mt], Index) \in Tables /\ ReadIndex(h, c, mt) = f[k][At(h[mt], Index)]
          BY <4>2, <5>1, ReadIndexMeaning
        <5> QED
          BY <4>2, <5>2 DEF k
      <4>4. IndexOf(h, t) \in Tables => f[Hops][t] = f[Hops - 1][IndexOf(h, t)]
        BY <3>1, HopsType, OnwardMeaning
      <4> QED
        BY <4>1, <4>3, <4>4
    <3> QED
      BY <3>2, <3>3
  <2> QED
    BY <2>3, <2>4
<1> QED
  BY <1>1, <1>2

-----------------------------------------------------------------------------
(* A write through a cache is a plain one.                                 *)

WithSlot(q, i, v) == [q EXCEPT !.slots[i] = v]
\* A write of v in slot i of q leaves the count of nil slots as it is.
Uncounted(q, i, v) == ~q.shape.dict \/ (v = Nil <=> q.slots[i] = Nil)

\* A write of a string that has a slot.
LEMMA SlotWritten ==
  ASSUME NEW q, NEW k, NEW v, NEW i, NEW crowded, Fields \subseteq DOMAIN q, SlotsOf(q.shape, k) = {i},
         Uncounted(q, i, v)
  PROVE  PutString(q, k, v, crowded) = WithSlot(q, i, v)
<1>1. (CHOOSE j \in SlotsOf(q.shape, k) : TRUE) = i
  <2>1. (CHOOSE j \in {i} : TRUE) = i
    OBVIOUS
  <2> QED
    BY <2>1
<1>2. PutString(q, k, v, crowded) = SetSlot(q, i, v)
  BY <1>1 DEF PutString
<1>3. SetSlot(q, i, v) = [q EXCEPT !.slots[i] = v, !.dead = q.dead]
  BY DEF SetSlot, Uncounted
<1>4. [q EXCEPT !.slots[i] = v, !.dead = q.dead] = [q EXCEPT !.slots[i] = v]
  BY DEF Fields
<1> QED
  BY <1>2, <1>3, <1>4 DEF WithSlot

\* What a store takes for granted: the cached slot is the field's, and a nil
\* slot of a dictionary, or one that __newindex is for, is not written.
Storable(h, c, t, v) ==
  /\ c.slot \in Nat \ {0} /\ Ref(h, t) # Nil /\ KeyAt(h, Ref(h, t), c.slot, Field)
  /\ h[t].slots[c.slot] = Nil => ~h[t].shape.dict /\ LacksNewIndex(h, t)
  /\ ~(h[t].shape.dict /\ v = Nil)

\* SetField and compiled code store only then.
LEMMA StoresOk ==
  ASSUME NEW h, HeapOk(h), NEW t \in Tables, NEW v, NEW c, CacheOk(h, c)
  PROVE  /\ SetField(h, c, t, v).ok =>
              /\ Storable(h, SetField(h, c, t, v).cache, t, v)
              /\ SetField(h, c, t, v).heap = Stored(h, SetField(h, c, t, v).cache, t, v).heap
         /\ CompiledSets(h, c, t, v) => Storable(h, c, t, v)
<1> DEFINE set == SetField(h, c, t, v)
<1>1. /\ CacheOk(h, set.cache)
      /\ set.ok => /\ Ref(h, t) # Nil /\ Ref(h, t) = set.cache.shape /\ set.cache.slot > 0
                   /\ ~(h[t].shape.dict /\ v = Nil)
                   /\ h[t].slots[set.cache.slot] = Nil => ~h[t].shape.dict /\ LacksNewIndex(h, t)
                   /\ set.heap = Stored(h, set.cache, t, v).heap
  BY SetFieldOk
<1> HIDE DEF set
<1>2. ASSUME NEW d, CacheOk(h, d), Ref(h, t) = d.shape PROVE d.slot \in Nat /\ KeyAt(h, Ref(h, t), d.slot, Field)
  BY <1>2 DEF CacheOk, Cache
<1>3. set.ok => Storable(h, set.cache, t, v)
  BY <1>1, <1>2 DEF Storable
<1>4. CompiledSets(h, c, t, v) => Storable(h, c, t, v)
  <2> SUFFICES ASSUME CompiledSets(h, c, t, v) PROVE Storable(h, c, t, v)
    OBVIOUS
  <2>1. c.slot \in Nat /\ KeyAt(h, Ref(h, t), c.slot, Field)
    BY <1>2 DEF CompiledSets
  <2>2. Slotted(h[t], Kept)
    BY DEF HeapOk, TableOk, WellFormed
  <2>3. c.slot # 0
    BY <2>2, ShapeParts DEF CompiledSets
  <2> QED
    BY <2>1, <2>3 DEF CompiledSets, Storable
<1> QED
  BY <1>1, <1>3, <1>4 DEF set

\* A store is a write of the field, of a table that has a slot for it.
LEMMA StoreWrites ==
  ASSUME NEW h, HeapOk(h), NEW c, NEW t \in Tables, NEW v, NEW crowded, Storable(h, c, t, v)
  PROVE  /\ Fields \subseteq DOMAIN h[t] /\ SlotsOf(h[t].shape, Field) = {c.slot} /\ Uncounted(h[t], c.slot, v)
         /\ c.slot \in DOMAIN h[t].slots /\ At(h[t], Field) = h[t].slots[c.slot]
         /\ PutString(h[t], Field, v, crowded) = WithSlot(h[t], c.slot, v)
         /\ Stored(h, c, t, v).heap = Written(h, t, Field, v, crowded)
<1> DEFINE r == h[t]
           i == c.slot
<1>1. TableOk(h, t) /\ Field \in Strings /\ WellFormed(r, Kept) /\ Slotted(r, Kept) /\ Fields \subseteq DOMAIN r
  BY FieldAssumption DEF HeapOk, TableOk, WellFormed
<1>2. i \in Nat \ {0} /\ Ref(h, t) # Nil /\ KeyAt(h, Ref(h, t), i, Field)
  BY DEF Storable
<1> HIDE DEF i
<1>3. i \in DOMAIN r.shape.keys /\ r.shape.keys[i] = Field /\ i \in DOMAIN r.slots /\ At(r, Field) = r.slots[i]
  BY <1>1, <1>2, KeyValue
<1>4. SlotsOf(r.shape, Field) = {i}
  BY <1>1, <1>3 DEF SlotsOf, Slotted
<1>5. Uncounted(r, i, v)
  BY DEF Uncounted, Storable, i
<1>6. PutString(r, Field, v, crowded) = WithSlot(r, i, v)
  <2>1. Fields \subseteq DOMAIN r
    BY <1>1
  <2> HIDE DEF r
  <2> QED
    BY <2>1, <1>4, <1>5, SlotWritten
<1>7. [h EXCEPT ![t].slots[i] = v] = [h EXCEPT ![t] = WithSlot(r, i, v)]
  BY DEF WithSlot
<1>8. Stored(h, c, t, v).heap = Clear([h EXCEPT ![t].slots[i] = v], t)
  BY DEF Stored, i
<1>9. Written(h, t, Field, v, crowded) = Clear([h EXCEPT ![t] = PutString(r, Field, v, crowded)], t)
  BY DEF Written
<1> QED
  BY <1>1, <1>3, <1>4, <1>5, <1>6, <1>7, <1>8, <1>9 DEF i

\* A store in the slot of the field, where the assignment would find it.
LEMMA StoreIsPlain ==
  ASSUME NEW h, HeapOk(h), NEW c, NEW t \in Tables, NEW v, Storable(h, c, t, v)
  PROVE  /\ Stored(h, c, t, v).heap[t] = SetTableAt(h, t, Field, v, FALSE)[t]
         /\ ~(/\ At(h[t], Field) = Nil
              /\ h[t].meta # Nil
              /\ At(h[h[t].meta], NewIndex) # Nil)
<1> DEFINE r == h[t]
           i == c.slot
           a == [r EXCEPT !.slots[i] = v]
           b == [a EXCEPT !.absent = {}]
<1>1. TableOk(h, t)
  BY DEF HeapOk
<1>2. /\ Fields \subseteq DOMAIN r /\ SlotsOf(r.shape, Field) = {i} /\ Uncounted(r, i, v)
      /\ i \in DOMAIN r.slots /\ At(r, Field) = r.slots[i]
      /\ PutString(r, Field, v, FALSE) = a
  <2>1. /\ Fields \subseteq DOMAIN h[t] /\ SlotsOf(h[t].shape, Field) = {c.slot} /\ Uncounted(h[t], c.slot, v)
        /\ c.slot \in DOMAIN h[t].slots /\ At(h[t], Field) = h[t].slots[c.slot]
    BY StoreWrites, ZenonT(60)
  <2>2. PutString(h[t], Field, v, FALSE) = WithSlot(h[t], c.slot, v)
    <3> HIDE DEF r, i
    <3>1. \A q, k, w, j, e : Fields \subseteq DOMAIN q /\ SlotsOf(q.shape, k) = {j} /\ Uncounted(q, j, w) => PutString(q, k, w, e) = WithSlot(q, j, w)
      BY SlotWritten
    <3> QED
      BY <2>1, <3>1
  <2> QED
    BY <2>1, <2>2 DEF WithSlot
<1>3. r.slots[i] = Nil => FastTagMethod(h, t, NewIndex) = Nil
  BY DEF LacksNewIndex, FastTagMethod, Storable
<1>4. ~(At(r, Field) = Nil /\ h[t].meta # Nil /\ At(h[h[t].meta], NewIndex) # Nil)
  BY <1>2, <1>3, TagMethod
<1>5. Chase(h, t, Field, NewIndex) = t
  BY <1>2, <1>3, ChaseStays
<1>8. Stored(h, c, t, v).heap[t] = b
  BY DEF Stored, Clear, HeapOk
<1> DEFINE g == SetTableAt(h, t, Field, v, FALSE)
<1>9. CASE At(r, Field) # Nil
  <2>1. g = Clear([h EXCEPT ![t] = a], t)
    BY <1>2, <1>5, <1>9, FieldAssumption DEF SetTableAt, TryPut
  <2>2. g[t] = b
    <3> HIDE DEF g, a
    <3> QED
      BY <2>1 DEF Clear, HeapOk
  <2> QED
    BY <1>4, <1>8, <2>2
<1>10. CASE At(r, Field) = Nil
  <2> DEFINE mt == r.meta
             known == IF mt = Nil THEN h ELSE [h EXCEPT ![mt].absent = @ \union {NewIndex}]
             q == known[t]
  <2>1. FastTagMethod(h, t, NewIndex) = Nil
    BY <1>2, <1>3, <1>10
  <2>2. g = Clear([known EXCEPT ![t] = PutString(q, Field, v, FALSE)], t)
    BY <1>5, <1>10, <2>1, FieldAssumption DEF SetTableAt, Put
  <2>3. DOMAIN known = Tables /\ (q = r \/ q = [r EXCEPT !.absent = r.absent \union {NewIndex}])
    <3>1. CASE mt = Nil
      BY <3>1 DEF HeapOk
    <3>2. CASE mt # Nil /\ mt = t
      BY <3>2 DEF HeapOk
    <3>3. CASE mt # Nil /\ mt # t
      BY <3>3 DEF HeapOk
    <3> QED
      BY <3>1, <3>2, <3>3
  <2> HIDE DEF known
  <2>4. g[t] = [PutString(q, Field, v, FALSE) EXCEPT !.absent = {}]
    <3> DEFINE w == PutString(q, Field, v, FALSE)
    <3>1. g = Clear([known EXCEPT ![t] = w], t)
      BY <2>2
    <3> HIDE DEF g, w
    <3>2. g[t] = [w EXCEPT !.absent = {}]
      BY <2>3, <3>1 DEF Clear
    <3> QED
      BY <3>2 DEF w
  <2> HIDE DEF g, q
  <2>5. /\ Fields \subseteq DOMAIN q /\ q.shape = r.shape /\ q.slots = r.slots
    BY <1>2, <2>3 DEF Fields
  <2>6. PutString(q, Field, v, FALSE) = [q EXCEPT !.slots[i] = v]
    <3>1. SlotsOf(q.shape, Field) = {i} /\ Uncounted(q, i, v)
      BY <1>2, <2>5 DEF Uncounted
    <3>2. PutString(q, Field, v, FALSE) = WithSlot(q, i, v)
      BY <2>5, <3>1, SlotWritten, ZenonT(60)
    <3> QED
      BY <3>2 DEF WithSlot
  <2>7. g[t] = b
    <3>1. CASE q = r
      BY <2>4, <2>6, <3>1
    <3>2. CASE q = [r EXCEPT !.absent = r.absent \union {NewIndex}]
      <4>1. [[q EXCEPT !.slots[i] = v] EXCEPT !.absent = {}] = b
        BY <1>1, <1>2, <3>2 DEF Fields, TableOk
      <4> QED
        BY <2>4, <2>6, <4>1
    <3> QED
      BY <2>3, <3>1, <3>2
  <2> QED
    BY <1>4, <1>8, <2>7 DEF g
<1> QED
  BY <1>9, <1>10
-----------------------------------------------------------------------------
(* Every step keeps the invariant.                                         *)

\* A store through a cache changes a heap as a write does.
LEMMA StoredOk ==
  ASSUME NEW h, HeapOk(h), NEW c, NEW t \in Tables, NEW v \in Kept, Storable(h, c, t, v)
  PROVE  Changed(h, Stored(h, c, t, v).heap)
<1>1. ASSUME NEW e \in BOOLEAN PROVE Changed(h, Stored(h, c, t, v).heap)
  <2>1. Stored(h, c, t, v).heap = Written(h, t, Field, v, e)
    BY StoreWrites, SMTT(60)
  <2>2. Changed(h, Written(h, t, Field, v, e))
    BY ClearedPut, FieldAssumption
  <2> QED
    BY <2>1, <2>2
<1>2. \E e : e \in BOOLEAN
  OBVIOUS
<1> QED
  BY <1>1, <1>2

\* What the program writes.
LEMMA WrittenValues ==
  ASSUME CacheInv, NEW t \in Tables, NEW k \in DOMAIN program.fields[t], NEW v \in ValuesOf(t, k)
  PROVE  k \in Strings /\ v \in Kept
BY ProgramsAssumption DEF CacheInv, ValuesOf, Kept

\* The caches after a change of the tables, which may replace dictionaries.
LEMMA BecomesOk ==
  ASSUME CacheInv, NEW h, HeapOk(h), Later(heap, h), NEW cs, cs = [s \in program.sites |-> cs[s]],
         \A s \in program.sites : CacheOk(heap, cs[s]), Becomes(h, cs)
  PROVE  CacheInv' /\ heap' = h
<1>1. /\ heap' = h /\ program' = program /\ stringMeta' = stringMeta
      /\ caches' = [s \in program.sites |-> Outdated(cs[s], ReplacedIn(heap, h))]
  BY DEF Becomes, ReplacedIn
<1>2. ASSUME NEW s \in program.sites PROVE CacheOk(h, caches'[s])
  BY <1>1, OutdatedOk DEF CacheInv
<1> QED
  BY <1>1, <1>2 DEF CacheInv

\* Metatables that have shapes keep them.
LEMMA MetasKeep ==
  ASSUME NEW h, NEW g, HeapOk(h), Changed(h, g), MetasShaped(h)
  PROVE  MetasShaped(g)
BY DEF Changed, Later, MetasShaped, HeapOk, TableOk

\* A change of the tables that is one keeps the invariant.
LEMMA ChangeOk ==
  ASSUME Safe, NEW h, Changed(heap, h), NEW cs, cs = [s \in program.sites |-> cs[s]],
         \A s \in program.sites : CacheOk(heap, cs[s]), Becomes(h, cs)
  PROVE  Safe'
<1>1. HeapOk(heap) /\ HeapOk(h) /\ Later(heap, h) /\ CacheInv
  BY DEF Changed, Safe, CacheInv
<1>2. CacheInv' /\ heap' = h
  BY <1>1, BecomesOk
<1>3. Uses = {} => MetasShaped(h)
  BY <1>1, MetasKeep DEF Safe
<1> QED
  BY <1>2, <1>3 DEF Safe, MetasShaped, Ref

\* One instruction's new cache.
LEMMA OneCache ==
  ASSUME CacheInv, NEW s \in program.sites, NEW c, CacheOk(heap, c)
  PROVE  LET cs == [caches EXCEPT ![s] = c]
         IN cs = [u \in program.sites |-> cs[u]] /\ \A u \in program.sites : CacheOk(heap, cs[u])
<1>1. DOMAIN caches = program.sites /\ \A u \in program.sites : CacheOk(heap, caches[u])
  BY DEF CacheInv
<1> QED
  BY <1>1

\* A table as a program starts it.
LEMMA ConstructedOk ==
  ASSUME NEW p \in Programs, NEW h, h = [t \in Tables |-> Constructed(p.start[t])], NEW t \in Tables
  PROVE  TableOk(h, t)
<1> DEFINE fields == p.start[t]
           n == Len(fields)
           r == Constructed(fields)
<1>1. /\ fields \in Seq([key : Strings, value : Contents])
      /\ \A i, j \in DOMAIN fields : fields[i].key = fields[j].key => i = j
  <2>1. fields \in Seq([key : Strings, value : Contents]) /\ IsInjective([i \in DOMAIN fields |-> fields[i].key])
    BY ProgramsAssumption
  <2> QED
    BY <2>1 DEF IsInjective
<1>2. n \in Nat /\ DOMAIN fields = 1 .. n /\ \A i \in 1 .. n : fields[i].key \in Strings /\ fields[i].value \in Contents
  <2> HIDE DEF fields
  <2> DEFINE T == [key : Strings, value : Contents]
  <2>1. \A x \in T : x.key \in Strings /\ x.value \in Contents
    OBVIOUS
  <2>2. fields \in Seq(T)
    BY <1>1
  <2> HIDE DEF T
  <2>3. Len(fields) \in Nat /\ DOMAIN fields = 1 .. Len(fields) /\ \A i \in DOMAIN fields : fields[i] \in T
    BY <2>2
  <2> QED
    BY <2>1, <2>3
<1>3. h[t] = r
  OBVIOUS
<1> HIDE DEF fields
<1>4. /\ r.shape.keys = [i \in 1 .. n |-> fields[i].key] /\ r.slots = [i \in 1 .. n |-> fields[i].value]
      /\ r.shape.dict = (n > MaxShared) /\ r.shape = [dict |-> r.shape.dict, keys |-> r.shape.keys]
      /\ r.arr = <<>> /\ r.hash = <<>> /\ r.meta = Nil /\ r.absent = {}
      /\ Fields \union {"meta", "absent"} \subseteq DOMAIN r
  BY <1>2 DEF Constructed, Fields
<1> HIDE DEF r
<1>5. /\ r.shape.keys \in Seq(Strings) /\ r.shape.keys \in Seq(Label) /\ r.slots \in Seq(Kept)
      /\ Len(r.slots) = n /\ Len(r.shape.keys) = n /\ DOMAIN r.shape.keys = 1 .. n
  <2>1. [i \in 1 .. n |-> fields[i].key] \in [1 .. n -> Strings] /\ [i \in 1 .. n |-> fields[i].value] \in [1 .. n -> Kept]
    BY <1>2 DEF Kept
  <2>2. [1 .. n -> Strings] \subseteq [1 .. n -> Label]
    BY DEF Label
  <2>3. r.shape.keys \in [1 .. n -> Strings] /\ r.shape.keys \in [1 .. n -> Label] /\ r.slots \in [1 .. n -> Kept]
    BY ONLY <1>4, <2>1, <2>2
  <2> HIDE DEF n
  <2>4. \A T : \A q \in [1 .. n -> T] : q \in Seq(T) /\ Len(q) = n /\ DOMAIN q = 1 .. n
    BY <1>2
  <2> QED
    BY <2>3, <2>4
<1>6. Slotted(r, Kept)
  <2>1. r.shape \in Shape
    <3>1. r.shape.dict \in BOOLEAN
      BY <1>4
    <3> QED
      BY <1>4, <1>5, <3>1 DEF Shape, Label
  <2>2. \A i, j \in DOMAIN r.shape.keys : r.shape.keys[i] = r.shape.keys[j] => i = j
    BY <1>1, <1>2, <1>4, <1>5
  <2>3. \A i \in DOMAIN r.shape.keys : r.shape.keys[i] \in Strings
    BY <1>2, <1>4, <1>5
  <2> QED
    BY <1>5, <2>1, <2>2, <2>3 DEF Slotted
<1>7. Numbered(r, Kept)
  <2>1. DOMAIN <<>> = {} /\ IsFiniteSet({}) /\ <<>> \in Seq(Kept)
    BY FS_EmptySet
  <2>2. DOMAIN r.hash = {} /\ r.hash = [k \in DOMAIN r.hash |-> r.hash[k]]
    BY <1>4, <2>1
  <2> QED
    BY <1>4, <2>1, <2>2 DEF Numbered
<1> QED
  BY <1>3, <1>4, <1>5, <1>6, <1>7 DEF TableOk, WellFormed, Kept

\* The invariant holds at first.
LEMMA InitOk == Init => Safe
<1> SUFFICES ASSUME Init PROVE Safe
  OBVIOUS
<1>1. program \in Programs /\ stringMeta \in Tables \union {Nil}
  BY ProgramsAssumption DEF Init
<1>2. heap = [t \in Tables |-> Constructed(program.start[t])]
  BY DEF Init
<1>3. HeapOk(heap)
  BY <1>1, <1>2, ConstructedOk DEF HeapOk
<1>4. caches = [s \in program.sites |-> caches[s]] /\ \A s \in program.sites : CacheOk(heap, caches[s])
  BY EmptyCacheOk DEF Init
<1>5. MetasShaped(heap)
  BY <1>2 DEF MetasShaped, Constructed
<1> QED
  BY <1>1, <1>3, <1>4, <1>5 DEF Safe, CacheInv

\* A read keeps the invariant.
LEMMA ReadKeeps ==
  ASSUME Safe, NEW s \in program.sites, NEW t \in Tables, NEW compiled, Read(s, t, compiled)
  PROVE  Safe'
<1> DEFINE got == GetField(heap, caches[s], t)
           h == IF got.answer = Miss THEN TableAt(heap, t).heap ELSE heap
           cs == [caches EXCEPT ![s] = got.cache]
<1>1. HeapOk(heap) /\ CacheOk(heap, caches[s]) /\ CacheInv
  BY DEF Safe, CacheInv
<1>2. CASE UNCHANGED vars
  BY <1>2 DEF vars, Safe, CacheInv, MetasShaped, Ref
<1>3. CASE Becomes(h, cs)
  <2>1. CacheOk(heap, got.cache)
    BY <1>1, GetFieldOk
  <2> HIDE DEF got
  <2>2. cs = [u \in program.sites |-> cs[u]] /\ \A u \in program.sites : CacheOk(heap, cs[u])
    BY <1>1, <2>1, OneCache
  <2>3. Changed(heap, h)
    BY ONLY <1>1, TableAtOk, Unchanged
  <2> HIDE DEF h, cs
  <2> QED
    BY <1>3, <2>2, <2>3, ChangeOk
<1> QED
  BY <1>2, <1>3 DEF Read

\* A read of a string keeps it.
LEMMA ReadStringKeeps ==
  ASSUME Safe, NEW s \in program.sites, ReadString(s)
  PROVE  Safe'
<1> DEFINE c == GetStringField(heap, caches[s], stringMeta).cache
           cs == [caches EXCEPT ![s] = c]
<1>1. HeapOk(heap) /\ CacheOk(heap, caches[s]) /\ stringMeta \in Ends /\ CacheInv
  BY DEF Safe, CacheInv, Ends
<1>2. CacheOk(heap, c)
  BY <1>1, GetStringFieldOk
<1>3. caches' = cs /\ UNCHANGED <<program, heap, stringMeta>>
  BY DEF ReadString
<1> HIDE DEF c
<1>4. cs = [u \in program.sites |-> cs[u]] /\ \A u \in program.sites : CacheOk(heap, cs[u])
  BY <1>1, <1>2, OneCache
<1> QED
  BY <1>1, <1>3, <1>4 DEF Safe, CacheInv, MetasShaped, Ref

\* A write through a cache keeps it.
LEMMA WriteKeeps ==
  ASSUME Safe, NEW s \in program.sites, NEW t \in Tables, Field \in DOMAIN program.fields[t],
         NEW v \in ValuesOf(t, Field), NEW compiled, Write(s, t, v, compiled)
  PROVE  Safe'
<1> DEFINE set == SetField(heap, caches[s], t, v)
           h == IF set.ok THEN set.heap ELSE SetTableAt(heap, t, Field, v, FALSE)
           cs == [caches EXCEPT ![s] = set.cache]
<1>1. HeapOk(heap) /\ CacheOk(heap, caches[s]) /\ CacheInv /\ v \in Kept /\ Field \in Strings
  BY WrittenValues DEF Safe, CacheInv
<1>2. CASE CompiledSets(heap, caches[s], t, v) /\ Becomes(Stored(heap, caches[s], t, v).heap, caches)
  <2>1. Storable(heap, caches[s], t, v)
    BY <1>1, <1>2, StoresOk
  <2>2. Changed(heap, Stored(heap, caches[s], t, v).heap)
    BY <1>1, <2>1, StoredOk
  <2>3. caches = [u \in program.sites |-> caches[u]] /\ \A u \in program.sites : CacheOk(heap, caches[u])
    BY <1>1 DEF CacheInv
  <2> DEFINE g == Stored(heap, caches[s], t, v).heap
  <2>4. Changed(heap, g) /\ Becomes(g, caches)
    BY <1>2, <2>2
  <2> HIDE DEF g
  <2> QED
    BY <2>3, <2>4, ChangeOk
<1>3. CASE Becomes(h, cs)
  <2>1. CacheOk(heap, set.cache)
    BY <1>1, SetFieldOk
  <2>2. set.ok => Storable(heap, set.cache, t, v) /\ set.heap = Stored(heap, set.cache, t, v).heap
    BY <1>1, StoresOk
  <2> HIDE DEF set
  <2>3. cs = [u \in program.sites |-> cs[u]] /\ \A u \in program.sites : CacheOk(heap, cs[u])
    BY <1>1, <2>1, OneCache
  <2>4. set.ok => Changed(heap, set.heap)
    BY <1>1, <2>2, StoredOk
  <2>5. Changed(heap, SetTableAt(heap, t, Field, v, FALSE))
    BY <1>1, SetTableAtOk
  <2>6. Changed(heap, h)
    BY <2>4, <2>5
  <2> HIDE DEF h, cs
  <2> QED
    BY <1>3, <2>3, <2>6, ChangeOk
<1> QED
  BY <1>2, <1>3 DEF Write

\* An assignment or a raw one keeps it.
LEMMA AssignKeeps ==
  ASSUME Safe, NEW t \in Tables, NEW k \in DOMAIN program.fields[t], NEW v \in ValuesOf(t, k),
         NEW crowded \in BOOLEAN, Assign(t, k, v, crowded) \/ RawSet(t, k, v, crowded)
  PROVE  Safe'
<1>1. HeapOk(heap) /\ CacheInv /\ v \in Kept /\ k \in Strings
  BY WrittenValues DEF Safe, CacheInv
<1>2. caches = [u \in program.sites |-> caches[u]] /\ \A u \in program.sites : CacheOk(heap, caches[u])
  BY <1>1 DEF CacheInv
<1>3. CASE Assign(t, k, v, crowded)
  <2> DEFINE g == SetTableAt(heap, t, k, v, crowded)
  <2>1. Changed(heap, g) /\ Becomes(g, caches)
    BY <1>1, <1>3, SetTableAtOk DEF Assign
  <2> HIDE DEF g
  <2> QED
    BY <1>2, <2>1, ChangeOk
<1>4. CASE RawSet(t, k, v, crowded)
  <2> DEFINE g == Written(heap, t, k, v, crowded)
  <2>1. Becomes(g, caches)
    BY <1>1, <1>4 DEF RawSet, Put, Written
  <2>2. Changed(heap, g)
    BY <1>1, ClearedPut
  <2> HIDE DEF g
  <2> QED
    BY <1>2, <2>1, <2>2, ChangeOk
<1> QED
  BY <1>3, <1>4

\* A new metatable keeps it.
LEMMA SetMetaTableKeeps ==
  ASSUME Safe, NEW t \in Tables, NEW mt \in Ends, SetMetaTable(t, mt)
  PROVE  Safe'
<1> DEFINE b == [heap[t] EXCEPT !.meta = mt]
           g == [heap EXCEPT ![t].meta = mt]
<1>1. HeapOk(heap) /\ CacheInv /\ TableOk(heap, t)
  BY DEF Safe, CacheInv, HeapOk
<1>2. caches = [u \in program.sites |-> caches[u]] /\ \A u \in program.sites : CacheOk(heap, caches[u])
  BY <1>1 DEF CacheInv
<1>3. g = [heap EXCEPT ![t] = b] /\ b.meta = mt /\ b.absent = heap[t].absent /\ SameParts(b, heap[t])
  BY <1>1 DEF SameParts, Fields, TableOk
<1>4. Becomes(g, caches) /\ (mt # Nil /\ Ref(heap, mt) = Nil => Uses # {})
  BY DEF SetMetaTable
<1> HIDE DEF b, g
<1>5. /\ HeapOk(g) /\ Later(heap, g) /\ \A u \in Tables \ {t} : g[u] = heap[u]
      /\ g[t] = b /\ \A u \in Tables : SameParts(g[u], heap[u])
  <2> DEFINE e == [heap EXCEPT ![t] = b]
  <2>1. b.meta \in Tables \union {Nil} /\ \A event \in b.absent : event \in {Index, NewIndex} /\ At(heap[t], event) = Nil
    BY <1>1, <1>3 DEF TableOk, Ends
  <2>2. /\ HeapOk(e) /\ Later(heap, e) /\ \A u \in Tables \ {t} : e[u] = heap[u]
        /\ e[t] = b /\ \A u \in Tables : SameParts(e[u], heap[u])
    BY <1>1, <1>3, <2>1, Reflagged
  <2> HIDE DEF e
  <2>3. g = e
    BY <1>3 DEF e
  <2> QED
    BY <2>2, <2>3
<1>6. CacheInv' /\ heap' = g
  BY <1>1, <1>2, <1>4, <1>5, BecomesOk
<1>7. ASSUME Uses = {} PROVE MetasShaped(g)
  <2>1. MetasShaped(heap)
    BY <1>7 DEF Safe
  <2>2. \A u \in Tables : Ref(g, u) = Nil => Ref(heap, u) = Nil
    BY <1>5 DEF Later
  <2> SUFFICES ASSUME NEW u \in Tables, g[u].meta # Nil PROVE Ref(g, g[u].meta) # Nil
    BY DEF MetasShaped
  <2>3. g[u].meta \in Tables
    BY <1>5 DEF HeapOk, TableOk
  <2>4. Ref(heap, g[u].meta) # Nil
    BY <1>3, <1>4, <1>5, <1>7, <2>1 DEF MetasShaped
  <2> QED
    BY <2>2, <2>3, <2>4
<1> QED
  BY <1>6, <1>7 DEF Safe, MetasShaped, Ref

\* A collection keeps it.
LEMMA CollectKeeps ==
  ASSUME Safe, NEW t \in Tables, Collect(t)
  PROVE  Safe'
<1> DEFINE r == heap[t]
           b == BuryDeadKeys(r)
           g == [heap EXCEPT ![t] = b]
<1>1. HeapOk(heap) /\ CacheInv /\ TableOk(heap, t) /\ WellFormed(r, Kept)
  BY DEF Safe, CacheInv, HeapOk, TableOk
<1>2. caches = [u \in program.sites |-> caches[u]] /\ \A u \in program.sites : CacheOk(heap, caches[u])
  BY <1>1 DEF CacheInv
<1>3. Becomes(g, caches)
  BY DEF Collect
<1>4. /\ WellFormed(b, Kept) /\ DOMAIN b = DOMAIN r /\ \A f \in DOMAIN r \ Fields : b[f] = r[f]
      /\ \A k \in Strings : At(b, k) = At(r, k)
  BY <1>1, BuryKeeps
<1>5. r.shape.dict => b.shape.dict
  BY <1>1 DEF BuryDeadKeys, Buried, WellFormed, Slotted, Shape, Fields
<1>6. ~r.shape.dict => b = r
  BY DEF BuryDeadKeys
<1> HIDE DEF b
<1>7. g[t] = b /\ g = [heap EXCEPT ![t] = g[t]] /\ \A u \in Tables \ {t} : g[u] = heap[u]
  BY <1>1 DEF HeapOk
<1> HIDE DEF g
<1>8. b.meta = r.meta /\ b.absent = r.absent /\ {"meta", "absent"} \subseteq DOMAIN b
  BY <1>1, <1>4 DEF TableOk, Fields
<1>9. TableOk(g, t)
  BY <1>1, <1>4, <1>5, <1>6, <1>7, <1>8, FieldAssumption DEF TableOk
<1>10. (r.shape.dict => g[t].shape.dict) /\ (g[t].shape = RootShape => r.shape = RootShape)
  BY <1>5, <1>6, <1>7 DEF RootShape
<1>11. HeapOk(g) /\ Later(heap, g)
  <2> HIDE DEF r
  <2> QED
    BY <1>1, <1>7, <1>9, <1>10, OneChanges DEF r
<1>12. Changed(heap, g)
  BY <1>7, <1>8, <1>11 DEF Changed
<1> QED
  BY <1>2, <1>3, <1>12, ChangeOk

\* A cached reference names keys that are where it says, whatever changed.
LEMMA StepOk == Safe /\ [Next]_vars => Safe'
<1> SUFFICES ASSUME Safe, [Next]_vars PROVE Safe'
  OBVIOUS
<1>0. program \in Programs /\ CacheInv
  BY DEF Safe, CacheInv
<1>1. ASSUME NEW s \in Readers \intersect program.sites, ReadString(s) PROVE Safe'
  BY <1>1, ReadStringKeeps
<1>2. ASSUME NEW s \in Readers \intersect program.sites, NEW t \in Tables, NEW compiled \in BOOLEAN, Read(s, t, compiled)
      PROVE  Safe'
  BY <1>2, ReadKeeps
<1>3. ASSUME NEW s \in Writers \intersect program.sites, NEW t \in Tables, NEW compiled \in BOOLEAN,
             Field \in DOMAIN program.fields[t], NEW v \in ValuesOf(t, Field), Write(s, t, v, compiled)
      PROVE  Safe'
  BY <1>3, WriteKeeps
<1>4. ASSUME NEW t \in Tables, NEW k \in DOMAIN program.fields[t], NEW crowded \in BOOLEAN, NEW v \in ValuesOf(t, k),
             Assign(t, k, v, crowded) \/ RawSet(t, k, v, crowded)
      PROVE  Safe'
  BY <1>4, AssignKeeps
<1>5. ASSUME NEW t \in Tables, NEW mt \in program.metas[t] \union {Nil}, SetMetaTable(t, mt) PROVE Safe'
  <2>1. program.metas \in [Tables -> SUBSET Tables]
    BY <1>0, ProgramsAssumption
  <2>2. mt \in Ends
    BY <2>1 DEF Ends
  <2> QED
    BY <1>5, <2>2, SetMetaTableKeeps
<1>6. ASSUME NEW mt \in program.stringMetas, SetStringMeta(mt) PROVE Safe'
  <2>1. program.stringMetas \subseteq Tables \union {Nil}
    BY <1>0, ProgramsAssumption
  <2> QED
    BY <1>6, <2>1 DEF SetStringMeta, Safe, CacheInv, MetasShaped, Ref
<1>7. ASSUME NEW t \in program.dicts, Collect(t) PROVE Safe'
  <2>1. program.dicts \subseteq Tables
    BY <1>0, ProgramsAssumption
  <2> QED
    BY <1>7, <2>1, CollectKeeps
<1>8. CASE UNCHANGED vars
  BY <1>8 DEF vars, Safe, CacheInv, MetasShaped, Ref
<1>9. CASE Next
  BY <1>1, <1>2, <1>3, <1>4, <1>5, <1>6, <1>7, <1>9 DEF Next
<1> QED
  BY <1>8, <1>9

\* The invariant holds of every behaviour.
LEMMA AlwaysSafe == Spec => []Safe
BY InitOk, StepOk, PTL DEF Spec

-----------------------------------------------------------------------------
(* The properties.                                                         *)

\* The parts of tables and caches are what the code takes them for: a slot for
\* each key of the shape, metatables that are tables, chains no longer than
\* the limit, one cache for each instruction.
THEOREM TypeCorrect == Spec => []TypeOK
<1>1. Safe => TypeOK
  BY DEF Safe, CacheInv, HeapOk, TableOk, WellFormed, Slotted, CacheOk, TypeOK
<1> QED
  BY <1>1, AlwaysSafe, PTL

\* A metatable's flag for a missing metamethod is true in every state,
\* whatever wrote the metatable since (invalidateTagMethodCache).
THEOREM TrueFlags == Spec => []FlagsTrue
<1>1. Safe => FlagsTrue
  BY DEF Safe, CacheInv, HeapOk, TableOk, FlagsTrue
<1> QED
  BY <1>1, AlwaysSafe, PTL

\* A store through a cache, interpreted or compiled, leaves the table as the
\* assignment without a cache does, and passes no __newindex by (setField).
THEOREM WritesExact == Spec => []CachedWriteExact
<1>1. ASSUME Safe, NEW s \in Writers \intersect program.sites, NEW t \in Tables, NEW v \in Values \union {Nil}
      PROVE  LET set == SetField(heap, caches[s], t, v)
                 compiled == CompiledSets(heap, caches[s], t, v)
             IN /\ set.ok => ~Bypasses(t) /\ set.heap[t] = Plain(t, v)
                /\ compiled => ~Bypasses(t) /\ Stored(heap, caches[s], t, v).heap[t] = Plain(t, v)
  <2> DEFINE set == SetField(heap, caches[s], t, v)
             compiled == CompiledSets(heap, caches[s], t, v)
  <2>1. HeapOk(heap) /\ CacheOk(heap, caches[s])
    BY <1>1 DEF Safe, CacheInv
  <2>2. /\ set.ok => Storable(heap, set.cache, t, v) /\ set.heap = Stored(heap, set.cache, t, v).heap
        /\ compiled => Storable(heap, caches[s], t, v)
    BY <2>1, StoresOk
  <2>3. ASSUME NEW c, Storable(heap, c, t, v) PROVE ~Bypasses(t) /\ Stored(heap, c, t, v).heap[t] = Plain(t, v)
    BY <2>1, <2>3, StoreIsPlain DEF Bypasses, Plain
  <2> HIDE DEF set, compiled
  <2>4. set.ok => ~Bypasses(t) /\ set.heap[t] = Plain(t, v)
    BY <2>2, <2>3
  <2>5. compiled => ~Bypasses(t) /\ Stored(heap, caches[s], t, v).heap[t] = Plain(t, v)
    BY <2>2, <2>3
  <2> QED
    BY <2>4, <2>5 DEF set, compiled
<1>2. Safe => CachedWriteExact
  BY <1>1 DEF CachedWriteExact
<1> QED
  BY <1>2, AlwaysSafe, PTL

\* An answer through a cache is the field that Lua finds now, for whichever
\* table (getField) and for strings (getStringField), where no table without
\* a shape is made a metatable.
THEOREM ReadsExact ==
  ASSUME Uses = {}
  PROVE  Spec => []CachedReadExact
<1>1. Safe => CachedReadExact
  <2> SUFFICES ASSUME Safe, NEW s \in Readers \intersect program.sites
               PROVE  /\ \A t \in Tables : GetField(heap, caches[s], t).answer \in {Miss, Resolve(t)}
                      /\ GetStringField(heap, caches[s], stringMeta).answer \in {Miss, ResolveString}
    BY DEF CachedReadExact
  <2>1. HeapOk(heap) /\ MetasShaped(heap) /\ CacheOk(heap, caches[s]) /\ stringMeta \in Ends
    BY DEF Safe, CacheInv, Ends
  <2>2. PICK f : IsMeaning(heap, f) /\ \A t \in Tables : Resolve(t) = f[Hops][t]
    BY ResolveIs
  <2>3. ASSUME NEW t \in Tables PROVE GetField(heap, caches[s], t).answer \in {Miss, Resolve(t)}
    <3> DEFINE got == GetField(heap, caches[s], t)
    <3>1. /\ CacheOk(heap, got.cache)
          /\ got.answer = Miss \/ (got.answer = Lookup(heap, got.cache, t) /\ got.cache.shape = Ref(heap, t)
                                     /\ Ref(heap, t) # Nil)
      BY <2>1, GetFieldOk
    <3> HIDE DEF got
    <3>2. CASE got.answer = Miss
      BY <3>2 DEF got
    <3>3. CASE got.answer # Miss
      <4>1. Lookup(heap, got.cache, t) \in {Miss, f[Hops][t]}
        BY <2>1, <2>2, <3>1, <3>3, LookupMeaning
      <4> QED
        BY <2>2, <3>1, <4>1 DEF got
    <3> QED
      BY <3>2, <3>3
  <2>4. GetStringField(heap, caches[s], stringMeta).answer \in {Miss, ResolveString}
    <3> DEFINE got == GetStringField(heap, caches[s], stringMeta)
               idx == At(heap[stringMeta], Index)
    <3>1. /\ CacheOk(heap, got.cache)
          /\ got.answer = Miss \/ (got.answer = FromMeta(heap, got.cache, stringMeta) /\ got.cache.mtShape # Nil
                                     /\ stringMeta # Nil)
      BY <2>1, GetStringFieldOk
    <3> HIDE DEF got
    <3>2. CASE got.answer = Miss
      BY <3>2 DEF got
    <3>3. CASE got.answer # Miss
      <4>1. stringMeta \in Tables /\ got.cache.mtShape # Nil
        BY <2>1, <3>1, <3>3 DEF Ends
      <4>2. Hops \in Nat /\ Hops >= MaxChain
        BY HopsType, ChainAssumption
      <4>3. FromMeta(heap, got.cache, stringMeta) = Miss \/ (idx \in Tables /\ FromMeta(heap, got.cache, stringMeta) = f[Hops][idx])
        BY <2>1, <2>2, <3>1, <4>1, <4>2, FromMetaMeaning
      <4>4. idx \in Tables => ResolveString = f[Hops][idx]
        BY <2>2, <4>1, NilApart DEF ResolveString
      <4> QED
        BY <3>1, <3>3, <4>3, <4>4 DEF got
    <3> QED
      BY <3>2, <3>3
  <2> QED
    BY <2>3, <2>4
<1> QED
  BY <1>1, AlwaysSafe, PTL

\* So are the answers of compiled code, with its shortcuts (readField, readIndex).
THEOREM CompiledReadsExact ==
  ASSUME Uses = {}
  PROVE  Spec => []CompiledReadExact
<1>1. Safe => CompiledReadExact
  <2> SUFFICES ASSUME Safe, NEW s \in Readers \intersect program.sites
               PROVE  /\ \A t \in Tables : CompiledGet(heap, caches[s], t) \in {Exit, Resolve(t)}
                      /\ CompiledGetString(heap, caches[s], stringMeta) \in {Exit, ResolveString}
    BY DEF CompiledReadExact
  <2>1. HeapOk(heap) /\ MetasShaped(heap) /\ CacheOk(heap, caches[s]) /\ stringMeta \in Ends
    BY DEF Safe, CacheInv, Ends
  <2>2. PICK f : IsMeaning(heap, f) /\ \A t \in Tables : Resolve(t) = f[Hops][t]
    BY ResolveIs
  <2>3. ASSUME NEW t \in Tables PROVE CompiledGet(heap, caches[s], t) \in {Exit, Resolve(t)}
    <3>1. CompiledGet(heap, caches[s], t) \in {Miss, f[Hops][t]}
      BY <2>1, <2>2, CompiledMeaning
    <3> QED
      BY <2>2, <3>1 DEF Exit
  <2>4. CompiledGetString(heap, caches[s], stringMeta) \in {Exit, ResolveString}
    <3> DEFINE idx == At(heap[stringMeta], Index)
               c == caches[s]
    <3>1. CASE c.shape = StringShape /\ stringMeta # Nil
      <4>1. stringMeta \in Tables
        BY <2>1, <3>1 DEF Ends
      <4>2. Hops \in Nat \ {0} /\ CacheOk(heap, c)
        BY <2>1, HopsType
      <4> HIDE DEF c
      <4>3. ReadIndex(heap, c, stringMeta) = Miss \/ (idx \in Tables /\ ReadIndex(heap, c, stringMeta) = f[Hops][idx])
        BY <2>1, <2>2, <4>1, <4>2, ReadIndexMeaning
      <4>4. idx \in Tables => ResolveString = f[Hops][idx]
        BY <2>2, <4>1, NilApart DEF ResolveString
      <4>5. CompiledGetString(heap, c, stringMeta) = ReadIndex(heap, c, stringMeta)
        BY <3>1 DEF CompiledGetString, c
      <4> QED
        BY <4>3, <4>4, <4>5 DEF Exit, c
    <3>2. CASE ~(c.shape = StringShape /\ stringMeta # Nil)
      BY <3>2 DEF CompiledGetString
    <3> QED
      BY <3>1, <3>2
  <2> QED
    BY <2>3, <2>4
<1> QED
  BY <1>1, AlwaysSafe, PTL
=============================================================================
