------------------------------ MODULE CallStack ------------------------------
(***************************************************************************)
(* The stack of one Lua thread: the slots all its calls share, the chain   *)
(* of call records over them, and the upvalues open on them.  A thread is  *)
(* a record                                                                *)
(*   stack     the slots, l.stack                                          *)
(*   array     which of Go's arrays they are in: every move makes another  *)
(*   top       l.top, the first free slot                                  *)
(*   calls     the call records, the spare ones beyond depth included      *)
(*   depth     the running call, l.callInfo                                *)
(*   upvalues  every upvalue made, open at a slot or closed over a value   *)
(*   cache     the last closure made of each function                      *)
(* A call record has the slot of its function, its top, the results wanted *)
(* (Multiple: all of them), whether it is a Lua call, whether its return   *)
(* stays in the interpreter loop that made it (reentry), the pc it resumes *)
(* at, its closure, and its frame: a slice, len slots long, of the array   *)
(* that held the stack when the slice was made, from the slot data.  What  *)
(* is written through a slice of an array the stack has left is lost, and  *)
(* what is read there nothing may count on.  hasLua says whether the       *)
(* record has room for a Lua call.  Slots count from 0, code from 1.       *)
(***************************************************************************)
EXTENDS CallValues, SequencesExt, FiniteSetsExt

CONSTANTS
  Functions,    \* prototypes: [params, size, vararg, kids, upvalues, code]
  Handlers,     \* the function a callable or indexable object's metatable has
  InitialSize,  \* basicStackSize
  ExtraStack,   \* slots beyond stackLast a tag method's arguments may use
  MinStack,     \* slots a Go function is given
  MetaLimit     \* __call metamethods in a row

At(l, slot) == l.stack[slot + 1]
Slots(l, lo, hi) == SubSeq(l.stack, lo + 1, hi)
Store(l, lo, vs) ==
  [l EXCEPT !.stack = [j \in DOMAIN @ |-> IF j \in lo + 1 .. lo + Len(vs) THEN vs[j - lo] ELSE @[j]]]
Push(l, v) == [Store(l, l.top, <<v>>) EXCEPT !.top = @ + 1]

StackLast(l) == Len(l.stack) - ExtraStack
Current(l) == l.calls[l.depth]
Base(ci) == ci.top - ci.len
StackIndex(l, a) == Base(Current(l)) + a

(* Frames, slices of the stack. *)
Nowhere == [array |-> 0, data |-> 0]
Slice(l, data) == [array |-> l.array, data |-> data]
Read(l, frame, a) == IF frame.array = l.array THEN At(l, frame.data + a) ELSE Undef
ReadAll(l, frame, a, n) == [k \in 1 .. n |-> Read(l, frame, a + k - 1)]
Write(l, frame, a, vs) == IF frame.array = l.array THEN Store(l, frame.data + a, vs) ELSE l
SetRegisters(l, a, vs) == Write(l, Current(l).frame, a, vs)

\* The stack moves, to a longer array or a shorter one; every Lua call's
\* frame is found again from its top, the one a Go call's record kept is
\* dropped, and so are the spare records.  (Go may find room to grow where
\* the stack is, which moves nothing: here it never does.)
Resized(l, size) ==
  [l EXCEPT !.stack = IF size < Len(@) THEN SubSeq(@, 1, size) ELSE @ \o Nils(size - Len(@)),
            !.array = @ + 1,
            !.calls = SubSeq(@, 1, l.depth)]
MutantReallocStack(l, size) == Resized(l, size)   \* mutant: the frames stay slices of the old array
ReallocStack(l, size) ==
  LET moved == Resized(l, size)
      found(ci) == IF ci.lua THEN [ci EXCEPT !.frame = Slice(moved, Base(ci))]
                   ELSE [ci EXCEPT !.frame = Nowhere, !.len = 0]
  IN  [moved EXCEPT !.calls = [d \in DOMAIN @ |-> found(@[d])]]
GrowStack(l, n) == ReallocStack(l, Max({2 * Len(l.stack), l.top + n + ExtraStack}))
MutantCheckStack(l, n) == IF StackLast(l) <= l.top THEN GrowStack(l, n) ELSE l   \* mutant: room for n slots is not asked for
CheckStack(l, n) == IF StackLast(l) - l.top <= n THEN GrowStack(l, n) ELSE l
\* After an error, room for what is in use, an eighth more and two reserves.
ShrinkStack(l) ==
  LET inUse == Max({l.top} \union {l.calls[d].top : d \in 1 .. l.depth}) + 1
      size == inUse + inUse \div 8 + 2 * ExtraStack
  IN  IF size < Len(l.stack) THEN ReallocStack(l, size) ELSE l

\* The record after the running call's, reused when there is one.
EnterCall(l, ci) ==
  [l EXCEPT !.calls = IF l.depth < Len(@) THEN [@ EXCEPT ![l.depth + 1] = ci] ELSE Append(@, ci),
            !.depth = @ + 1]
PushLuaFrame(l, function, base, wanted, f) ==
  LET size == Functions[f.n].size
  IN  [EnterCall(l, [function |-> function, top |-> base + size, wanted |-> wanted, lua |-> TRUE, reentry |-> FALSE,
                     pc |-> 1, closure |-> f, frame |-> Slice(l, base), len |-> size, hasLua |-> TRUE])
        EXCEPT !.top = base + size]
NewCall == [function |-> 0, top |-> 0, wanted |-> 0, lua |-> FALSE, reentry |-> FALSE,
            pc |-> 0, closure |-> Nil, frame |-> Nowhere, len |-> 0, hasLua |-> FALSE]
PushGoFrame(l, function, wanted) ==
  LET spare == IF l.depth < Len(l.calls) THEN l.calls[l.depth + 1] ELSE NewCall
  IN  EnterCall(l, [spare EXCEPT !.function = function, !.top = l.top + MinStack, !.wanted = wanted,
                                 !.lua = FALSE, !.reentry = FALSE])
Reenter(l) == [l EXCEPT !.calls[l.depth].reentry = TRUE]

(* Upvalues. *)
UpValue(l, u) == IF l.upvalues[u].open THEN At(l, l.upvalues[u].index) ELSE l.upvalues[u].v
SetUpValue(l, u, v) ==
  IF l.upvalues[u].open THEN Store(l, l.upvalues[u].index, <<v>>) ELSE [l EXCEPT !.upvalues[u].v = v]
OpenAt(l, level) == {u \in DOMAIN l.upvalues : l.upvalues[u].open /\ l.upvalues[u].index >= level}
Close(l, level) ==
  [l EXCEPT !.upvalues = [u \in DOMAIN @ |->
     IF u \in OpenAt(l, level) THEN [open |-> FALSE, index |-> 0, v |-> At(l, l.upvalues[u].index)] ELSE @[u]]]
CloseFrame(l) == IF Functions[Current(l).closure.n].kids THEN Close(l, Base(Current(l))) ELSE l

FindUpValue(l, level) == {u \in OpenAt(l, level) : l.upvalues[u].index = level}
NewClosure(l, p, enclosing, base) ==
  LET capture(acc, d) ==
        LET found == FindUpValue(acc.l, base + d.index)
        IN  IF ~d.local THEN [acc EXCEPT !.ids = Append(@, enclosing[d.index])]
            ELSE IF found # {} THEN [acc EXCEPT !.ids = Append(@, Max(found))]
            ELSE [l |-> [acc.l EXCEPT !.upvalues = Append(@, [open |-> TRUE, index |-> base + d.index, v |-> Nil])],
                  ids |-> Append(acc.ids, Len(acc.l.upvalues) + 1)]
      made == FoldLeft(capture, [l |-> l, ids |-> <<>>], Functions[p].upvalues)
  IN  [l |-> [made.l EXCEPT !.cache[p] = Closure(p, made.ids)], closure |-> Closure(p, made.ids)]
\* Open at the same slot, or closed over equal values.
SameHome(l, u, w) == l.upvalues[u] = l.upvalues[w]
Cached(l, p, enclosing, base) ==
  /\ l.cache[p] # Nil
  /\ \A k \in DOMAIN Functions[p].upvalues :
       LET d == Functions[p].upvalues[k]
           u == l.cache[p].upvalues[k]
       IN  IF d.local THEN l.upvalues[u].open /\ l.upvalues[u].index = base + d.index
           ELSE SameHome(l, u, enclosing[d.index])
\* CLOSURE, which clears the frame above the register it sets.
MakeClosure(l, frame, a, p) ==
  LET ci == Current(l)
      made == IF Cached(l, p, ci.closure.upvalues, Base(ci)) THEN [l |-> l, closure |-> l.cache[p]]
              ELSE NewClosure(l, p, ci.closure.upvalues, Base(ci))
  IN  Write(made.l, frame, a, <<made.closure>> \o Nils(ci.len - a - 1))

(* Calls. *)
\* A __call metamethod takes the callee's slot, and the callee the next.
Slide(l, function) ==
  LET slid == [Store(l, function + 1, Slots(l, function, l.top)) EXCEPT !.top = @ + 1]
  IN  Store(CheckStack(slid, 0), function, <<Handlers[At(l, function).n]>>)
Callable(l, function) ==
  LET slid[k \in 0 .. MetaLimit] ==
        IF k = 0 THEN l
        ELSE IF At(slid[k - 1], function).type = "object" THEN Slide(slid[k - 1], function) ELSE slid[k - 1]
  IN  slid[MetaLimit]

\* The fixed parameters move above the arguments, and the register after
\* them, the vararg table's, is nil: no function here names its table.
AdjustVarArgs(l, p, args) ==
  LET fixed == l.top - args
  IN  Store(Store(l, l.top, Append(Slots(l, fixed, fixed + p.params), Nil)), fixed, Nils(p.params))
\* preCall of the Lua closure at function, its arguments up to the top.
EnterLua(l, function, wanted) ==
  LET f == At(l, function)
      p == Functions[f.n]
      room == CheckStack(l, p.size + IF p.vararg THEN p.params ELSE 0)
      missing == Max({0, p.params - (l.top - function - 1)})
      full == [Store(room, l.top, Nils(missing)) EXCEPT !.top = @ + missing]
  IN  IF p.vararg
      THEN PushLuaFrame(AdjustVarArgs(full, p, full.top - function - 1), function, full.top, wanted, f)
      ELSE PushLuaFrame(full, function, function + 1, wanted, f)
\* The interpreter's call of a fixed-parameter function in register a.
CallLua(l, a, args, wanted) ==
  LET function == StackIndex(l, a)
      f == At(l, function)
      p == Functions[f.n]
      room == CheckStack([l EXCEPT !.top = function + 1 + args], p.size)
  IN  Reenter(PushLuaFrame(Store(room, room.top, Nils(Max({0, p.params - args}))), function, function + 1, wanted, f))

\* Results from first up to the top go to the function's slot.
PostCall(l, first) ==
  LET results == Adjusted(Slots(l, first, l.top), Current(l).wanted)
  IN  [Store(l, Current(l).function, results) EXCEPT !.depth = @ - 1, !.top = Current(l).function + Len(results)]
\* What a caller that wants a fixed count does with the top afterwards.
RestoreTop(l, wanted) == IF wanted = Multiple THEN l ELSE [l EXCEPT !.top = Current(l).top]
\* Results of a Lua call that go straight to a Lua caller.
ReturnFixed(l, results) ==
  LET ci == Current(l)
      caller == l.calls[l.depth - 1]
  IN  [Store(l, ci.function, Adjusted(results, ci.wanted)) EXCEPT !.depth = @ - 1, !.top = caller.top]

\* VARARG: the extra arguments below the frame, all of them when b is 0,
\* for which the frame may have to grow.
VarArgs(l, a, b) ==
  LET ci == Current(l)
      extra == Base(ci) - ci.function - 1 - Functions[ci.closure.n].params
      room == CheckStack(l, extra)
      top == Base(ci) + a + extra
      grown == [room EXCEPT !.top = top, !.calls[l.depth].top = Max({ci.top, top}),
                            !.calls[l.depth].len = Max({ci.top, top}) - Base(ci),
                            !.calls[l.depth].frame = IF ci.top < top THEN Slice(room, Base(ci)) ELSE @]
      ready == IF b = 0 THEN grown ELSE l
  IN  SetRegisters(ready, a, Adjusted(Slots(ready, Base(ci) - extra, Base(ci)), b - 1))

\* TAILCALL: the new frame replaces its caller's.
ReplaceFrame(l) ==
  LET new == Current(l)
      old == l.calls[l.depth - 1]
      caller == [l EXCEPT !.depth = @ - 1]
      closed == CloseFrame(caller)
      moved == Slots(closed, new.function, Base(new) + Functions[new.closure.n].params)
      top == old.function + (l.top - new.function)
      base == old.function + (Base(new) - new.function)
  IN  [Store(closed, old.function, moved)
        EXCEPT !.calls[l.depth - 1] = [old EXCEPT !.top = top, !.len = top - base, !.frame = Slice(l, base), !.pc = new.pc,
                                                  !.closure = new.closure],
               !.top = top]
=============================================================================
