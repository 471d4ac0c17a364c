# Verification of apogee

apogee is a Lua 5.5 implementation in Go: a compiler, a register virtual
machine with a just-in-time compiler for amd64 and arm64, the standard
library, a C-style API for hosts, and a standalone program. This directory
holds TLA+ models of the parts where the order of events decides whether the
program is right, the TLC configurations that check them, and TLAPS proofs.

`PROJECT.json` ties every definition to the lines it models, every run to its
properties, every property to a mutation of the code it would catch, and
every hazard of the code to the properties that cover it.

## 1. The system

| Component | State | Operations | Talks to |
|---|---|---|---|
| Interrupts (`lua/interrupt.go`) | `globalState.interrupt`, each thread's `interruptPoll`, `jitRuns`, `nestedGoCallCount`; `jitContext.budget` | `Interrupt`, `pollInterrupt`, `checkInterrupt`, `dropInterrupt` | loops of the VM and of compiled code, `call`, `protect`, `Resume`, finalizers |
| Coroutines and calls (`lua/coroutine.go`, `lua/stack.go`, `lua/api_call.go`, `stdlib/coroutine.go`) | each thread's status, `deathError`, `callInfo` list, `nonYieldableCallCount`, stack; Go's own stack | `Resume`, `Yield`, `Call`, `ProtectedCall` with and without continuations, `recover`, `unroll` | everything that calls |
| To-be-closed variables (`lua/tbc.go`) | each thread's `tbc` list | `newTBC`, `closeTBC`, `closeProtected`, `CloseThread`, `CloseRunning` | JMP, RETURN, `pcall`, coroutine.close |
| Garbage collector (`lua/gc.go`) | `finalizable`, `toFinalize`, `gcBusy`, `gcWatch`, `closed`, the pace | `collect`, `noteMetaTable`, `runFinalizers`, `Close`, `GC` | allocation in the VM, `Resume`, the finalizer thread |
| Calls and the stack (`lua/stack.go`, `lua/vararg.go`) | the stack, call records, open upvalues, each function's last closure | `preCall`, `postCall`, tail calls, `adjustVarArgs`, `findUpValue`, growing and shrinking the stack | VM, compiled code, the API |
| Virtual machine (`lua/vm.go`, `lua/vm_jit.go`) | frames: pc, base, top | one case per instruction | tables, metamethods, calls |
| Tables, shapes, field caches (`lua/tables.go`, `lua/shape.go`, `lua/field_cache.go`, `lua/specialise.go`) | array, shape and slots, hash, dead keys; the caches in instructions | get, put, next, length, migration between the three | VM, compiled code, collector |
| JIT (`lua/jit*.go`, `internal/jit`) | counters per function, compiled code, exits | compile, enter, exit, resume in the interpreter | VM, executable memory |
| Memory limit (`lua/memory.go`) | bytes charged | charge before an allocation | VM, libraries |
| Debug hooks (`lua/debug_api.go`) | mask, count | line, count, call and return hooks; yields from hooks | VM |
| Compiler (`internal/compiler`) | registers, jump lists, blocks, upvalues | one function per production | VM, through bytecode |
| Binary chunks (`internal/chunk`) | — | dump, load | compiler, `string.dump` |
| Libraries (`stdlib`) | open files, loaded packages | Lua's standard functions | the API |
| Standalone program (`cmd/apogee`) | line editor, history | run a script, a prompt | `Interrupt` on Ctrl-C |

**What is hard here.** One goroutine runs Lua, but the code is concurrent in
other senses. Any goroutine may call `Interrupt`. Go's stack is shared by
threads whose own call lists outlive it: a yield or an error is a panic that
drops Go's frames up to some `recover`, and whatever caught it must bring the
thread's counts, call infos, pending variables and protected calls back in
step. Finalizers run Lua inside an allocation. A `__close` metamethod may fail,
yield, or close the very coroutine that closes it. Compiled code runs ahead of
the interpreter's view of the frame. Each is a long sequence of legal calls
that a unit test reaches only by luck.

**What makes each component correct.**

- Interrupts: one request raises at most one error; it is not lost while code
  runs; it does not survive the code it was for; it is noticed in any loop.
- Coroutines: what `coroutine.status` derives follows one chain of resumes; a
  yield happens only where every Go function left has a continuation; an error
  caught by a `pcall` never kills the coroutine; counts return to what they were.
- To-be-closed variables: each declared variable's `__close` is called exactly
  once however its scope is left; a coroutine that closes itself ends.
- Collector: exactly the weak entries Lua describes go; exactly the unreachable
  objects are finalized, once, in order; `Close` finalizes the rest; the
  finalizer thread is empty when a collection marks.
- Tables: an insertion, migration or field cache never loses or confuses an
  entry; `next` visits each key once while existing keys are cleared.
- VM: the frame's top covers every live register at each call, error and
  collection.
- Compiler: compiled code does what the tree says; a register is free when it
  is allocated, every jump list is patched.
- Calls: whoever runs a call, in whatever order frames are made, moved and
  reused, each sees its own registers, extra arguments and upvalues.
- Numbers and compiled code: every fast path, and the machine code of both
  processors, computes what the plain instruction does, or leaves it to it.
- Chunks: a load of a dump is the function dumped.
- Memory limit: a charge precedes its allocation and the limit is not passed.

## 2. Modules

| Module | Models | Runs, proofs |
|---|---|---|
| `Interrupt` | the flag, its polls, the calls that count | `Interrupt`, `InterruptLive` |
| `InterruptProofs` | theorems about `Interrupt` | TLAPS |
| `Lifecycle` | what `coroutine.status` promises (abstract) | through `Coroutine` |
| `Coroutine` | calls, pcalls, yields, errors, closing | through `MCCoroutine` |
| `CoroutineInvariant` | what stays true of Go's stack and the frames beside it | through the next |
| `CoroutineLemmas` | what the operations of `Coroutine` do to it | TLAPS |
| `CoroutineProofs` | theorems about `Coroutine`, and that it implements `Lifecycle` | TLAPS |
| `MCCoroutine` | its symmetry for TLC | `Coroutine`, `CoroutineChain` |
| `Collector` | marking, weak tables, finalizers, Close | through `MCCollector` |
| `Selections` | the elements of a sequence that are in a set | through `Collector`, `TableOps` |
| `CollectorProofs` | theorems about `Collector`; lemmas about selections | TLAPS |
| `MCCollector` | its symmetry, and heaps to start one collection from | `Collector` |
| `Shapes` | the layout of string keys in slots | through `TableOps` |
| `TableOps` | the operations of one table, as functions on it | through the two below |
| `Table`, `MCTable` | one table in use: assignments, `next`, collections | `Table` |
| `LuaMap` | what Lua promises of a table (abstract) | through `Table` |
| `TableLemmas` | lemmas about finite sets, searches, and the operators of `Shapes` and `TableOps` | TLAPS |
| `TableProofs` | theorems about `Table` | TLAPS |
| `FieldCache`, `MCFieldCache` | several tables, and instructions that cache a field's place | `FieldCache` |
| `FieldCacheProofs` | theorems about `FieldCache` | TLAPS |
| `CodeGen` | the compiler's `code.go`: registers, expressions, jump lists | through `Machine` |
| `Parser` | the compiler's `parser.go`: statements, blocks, labels | through `Machine` |
| `World` | what a program can observe, and what answers it | through `Machine` |
| `Meaning` | what a tree means, without code (the reference) | through `Machine` |
| `Machine`, `MCMachine` | the VM running a compiled function | `Machine` |
| `Numbers` | integers and floats at a small width | through the rest |
| `Native`, `Amd64`, `Arm64` | what the two compilers emit for numbers | through the two below |
| `CompiledCode` | the code for one instruction, on either | through the two below |
| `Arithmetic`, `MCArithmetic` | the interpreter's number instructions, specialised and not | `Arithmetic` |
| `ArithmeticProofs` | a theorem about `Arithmetic` | TLAPS |
| `Kernel` | which loops compile as kernels, with which types | through `Loop` |
| `Loop`, `MCLoop` | a compiled loop with its kernels, beside the interpreter | `Loop` |
| `CallValues` | closures, upvalues, functions, as values | through `Frames` |
| `CallStack` | the stack and its frames, as functions on a thread | through `Frames` |
| `Activations` | calls without a stack (the reference) | through `Frames` |
| `Frames`, `MCFrames` | interpreter, driver and compiled code making calls | `Frames`, `FramesVararg` |

### Interrupt

State: the atomic flag; per thread `poll` (`interruptPoll`), `runs`
(`jitRuns`), `nested` (`nestedGoCallCount`); `budget`, shared because compiled
code is entered with a fresh one; `stack`, Go's calls in progress with the count
each `protect` would restore; `where`, which code runs.

Actions: `RequestInterrupt` by another goroutine at any moment, between the
load and the swap too; `HostCall`, `NestedCall`, `ScriptResume`, `HostResume`,
`CallFinalizer` inside `Collect`/`HostCollect`/`ResumeCollect`; `Return` and
`Error`, which unwind to the nearest `protect`; the polls `PollInterrupt`,
`CompiledBackEdge`, `ExitBudget`, `EnterCompiled`; and `DropStore`, the store of
`dropInterrupt` as a step of its own, for a request may come before it.

`Uses` chooses what the surrounding program does: resume a coroutine from the
host, resume a thread that is active (which fails), collect at the start of a
`Resume`. The safety run has none of these; `InterruptLive` has all three.

*Fairness.* `WF(LuaStep)`: Go schedules the goroutine that runs Lua, and a
straight line of Lua code is finite between two back-edges (`MaxLine`). Neither
the host nor the interrupting goroutine owes a step. No strong fairness: the
code has to notice whatever mixture of loops it runs.

*Bounds.* `PollPeriod` 1 or 2 (1024 in the code), `JitBudget` 1 or 2 (2^16),
`EntryPeriod` 1 or 2 (1024): the periods matter only through their end being
reached and being reset, and 2 has both a poll that looks and one that does
not. Three nested calls on two threads give each of outermost, inner and
coroutine; two requests give one before and one after a drop.

### Coroutine and Lifecycle

`th[t]` is a State: status, `deathError`, whether it has been started, its call
infos, its `tbc` list, and `nny`, `nonYieldableCallCount`. `go` is Go's stack: an activation
of `call`, of `protect` in a `pcall`, of a closing loop (`closeProtected` or
`CloseThread`), or of `Resume`. A helper maps a machine `[th, go]` to the next,
so that a panic and the recovery that runs on from it are one step, as no Lua
code runs between them. `Throw` drops activations up to one that `Catches`;
`Recover` and `Continued` are `recover`, `unroll` and `finishGoCall`; `CloseNext`
pops one variable and calls its `__close` as Lua code, which may then do
anything; `EndClose` returns from it.

Lua code does whatever `Uses` allows: `call`, `meta` (through a Go frame that
cannot yield), `pcall`, `callk`, `plain` (`Call` without continuation),
`declare` a to-be-closed variable, `jump` out of its scope, `return`, `error`,
`yield`, `resume` (with `wrap` or not), `close`, `closeSelf`. Where a defect is
known, one name per defect (`closeRecovered`, `closeInPcall`) lets the runs go
on past it; a configuration that names it lets it happen (section 3).

`Lifecycle` is the abstract specification: a chain of threads, each resuming
the next; the last one runs; one whose closing has begun never yields again and
ends dead. `StatusFollowsLifecycle` states that `Coroutine` implements it under
a refinement mapping that derives the chain from Go's stack and the status
exactly as `coroutineStatus` does (status, call infos, stack top).

*Bounds.* `MaxPos` bounds the frames and variables of a thread, `MaxGo` Go's
activations, both only where Lua code would call once more: what is in progress
always finishes. Two variables let one `__close` run, fail or yield while
another waits; two coroutines let one resume, wrap or close the other.
`Slack`, what a stack shrink leaves free, is 20 (larger than any frame here, as
in a shallow program) or 1.

Left out: stack overflow, error objects and messages, hooks, and the limit
on nested calls.

### Collector

Objects are tables with a `__mode` and perhaps a `__gc`; closures, userdata and
threads hold references as a strong table does. `entries` are triples of table,
key and value. `roots` stands for the registry, the stacks, the metatables of
basic types: what Lua holds at a moment.

Between collections (and inside finalizers) Lua makes tables, stores, loads and
drops. `Collect` starts a collection; `Propagate` handles one gray object, in any
order; `ConvergeTable` and `ConvergeAgain` are the ephemeron loop; `Resurrect` is
the middle of `collect`; `Finish` the end. `CallFinalizer`, `EndFinalizer` and
`AbortFinalizers` run what is due. `Close` queues the rest.

The reference is `Reach`, the least set closed under the rules of the manual for
strong, weak-valued, ephemeron and all-weak tables, defined by quantification
over sets and computed from the heap as it was when the collection began.
`WeakEntriesExact` says that a collection removes exactly the entries `Cleared`
describes, and `FinalizesUnreachable` that it queues exactly what `Reach` misses,
newest first.

A traversal of an ephemeron table marks, in the model, the values of keys
marked before it began; the code may also see keys it marks on the way. Both
orders leave the rest to convergence and end in the same set.

*Bounds.* The run starts in two ways. From an empty heap, a program builds tables
of any mode, at most one of them weak, up to three with finalizers, with one
entry at a time, and any number of collections: enough for a weak entry or an
object that a finalizer brings back, and for three objects in order in each
queue. An ephemeron chain that takes two passes needs a root, three objects in a
chain and three entries: `Heap` starts one collection from every heap of that
size, with one ephemeron table at its root and one object of any mode with a
finalizer. `OnceInHeap` ends those behaviours with that collection, and three of
the four objects are used from an empty heap.

Left out: the pace (`gcBackoff`, `gcHeapBase`), `GC`'s parameters and counts,
and objects whose `__gc` is removed before its turn (they leave the queue
without a call). `Close` after a panic is not modelled: nothing may use
the state then.

### Table, Shapes and LuaMap

`tab` is one table: `arr`, the array; `shape` and `slots` for string keys;
`hash`; `dead` and `buried`, its counts; `snapshot`, `iterationKeys`. `Shapes`
has the shapes: a shared one is the sequence of its keys, since the tree of
shapes has one node per sequence, and a dictionary is private and may hold
tombstones. Every operator of `Table` maps a table to the table after it, as
the functions of `tables.go` do by assignment.

Actions: `Assign` (`setTableAt` without metamethods, through `tryPut` or
`put`), `RawSet`, `SetList` in a constructor, `Collect` (a collection that
reaches the table and buries dead keys) and `WalkOn` (one call of `next`).
Whether a shape has too many children, or a key is too long, is any boolean:
both depend on other tables.

`LuaMap` is the abstract specification: a map from keys to values, in which an
assignment changes the keys assigned (`SetList` assigns several at once) and no
other, and traversals that visit each key present once, in any order, while fields
are assigned to or cleared. One that sees a field added is given up, as Lua's
manual says. Two histories relate `Table` to it: `stored`, what was last assigned
to each key, which no action reads, and in `walk` what a traversal has seen and
still owes. `IsLuaMap` states that `stored` and `walk` behave as `LuaMap` does, and
that at every moment a read (`At`, over the array, the slots and the hash)
gives for every key what is in `stored`: whatever a migration, a new shape, a
compaction or a collection moves, no key loses its value or takes another's.
`Uses` keeps two known disagreements (section 3) out of the passing run. Adding
a buried key again is one of them only where its tombstone stays: an assignment
that compacts the dictionary first drops it, and is always allowed.

*Bounds.* Three strings with `MaxShared` 1 have a shared shape, one that becomes a
dictionary, a crowded one, and a dictionary with a live key, whose slot a compaction
moves; `MinCompact` 0 lets two dead slots bring one. Integers 1 to 3 with an array of
at most one from the constructor have keys in the array, in the hash and migrating,
with holes between. No more than three keys are present at once (`FewPresent`). Two
values show a slot or an element that moves to another key's place. One traversal
starts, meets each of the others' steps, and starts again with the snapshot of the last.

Left out: metatables, charges for memory, other kinds of keys (floats are
integers or go the way of integers the hash holds, NaN and nil are errors),
`iterationNext`, a shortcut into the snapshot, and overflow in `unboundSearch`.

### FieldCache

`heap` is a few tables, each with the parts `TableOps` gives it, a metatable and
`absent`, the flags of metamethods it is known not to have; `caches` the cache
of each GETTABLE, SELF or SETTABLE with a constant key; `stringMeta` the
metatable of strings. `Lookup`, `FillIndex`, `Chain`, `Fill`, `GetField`,
`GetStringField` and `SetField` are the functions of `field_cache.go` and
`specialise.go`; `CompiledGet`, `ReadIndex` and `CompiledSets` are what the two
compilers emit, which test less and exit to Go for the rest. A shape is named as
its address would tell it apart: a shared one by its keys, a dictionary by its
table, until `compact` or a burial replaces it (`Outdated`).

`Read`, `ReadString` and `Write` run an instruction through its cache, compiled
or not; `Assign`, `RawSet`, `SetMetaTable`, `SetStringMeta` and `Collect` change
tables behind its back. `CachedReadExact`, `CompiledReadExact` and
`CachedWriteExact` compare every answer the caches would give now, for every
table, with a lookup that has none (`Resolve`, `SetTableAt`).

*Bounds.* Three programs of an object, its class and a base class: `Inherited`
reads along a chain, `Dictionaries` reads tables that become dictionaries and
back, and strings, `Written` writes past a `__newindex` that comes and goes.
`MaxChain` is 1 (8 in the code): a chain of none, one and one too many. Left
out: array elements by compiled code.

### CodeGen, Parser, Meaning and Machine

`CodeGen` and `Parser` are the one-pass compiler as functions from trees to
instructions: registers as a stack, expression descriptors, jump lists threaded
through the instructions, blocks with their local variables, `goto`, to-be-closed
variables, method calls, multiple assignment, table constructors, folding of
numerals. What the compiler asserts is collected in `sane`.

`Machine` runs the code, one action per instruction, on registers, the stack top,
open and closed upvalues and pending variables. It leaves junk where a call or a
metamethod may leave its own values, above the slot it starts at, so a register
the compiler believes free, and that the code reads later, shows. `Meaning` is
the abstract specification: a direct interpreter of the tree, with environments
instead of registers. Both act on one `World`: each call, access, comparison
and close is an event; answers are functions of the trace, and the outcome of
the first question is either.

`TraceIsMeaning` says that the trace so far is a beginning of what the tree
means, and all of it at the end; `OpenUpvaluesInScope` that a captured variable
in a register is one that is active there; `Ends` that the code ends.

*Fairness.* `WF(Next)` in `Machine`: an instruction takes finite time. Host
functions return, as `World`'s do; every tree ends under `Meaning`.

*Bounds.* Some three thousand programs, in families that put each statement and
each operator in each place another can hold: jump lists in conditions, values
and calls; calls and dots as the last of every list; `break`, `goto`, `return`
across captured and to-be-closed variables; assignments whose targets and values
share a local; constructors of one item fewer, as many and one more than
`ListItemsPerFlush`, 2 here (50 in the code). Two answers to the first question,
and a sequence of answers that ends any loop, take both sides of every test.

Left out: the scanner, bodies of nested functions (a getter returns a variable),
assignment to an upvalue, `global` and `const` declarations, named varargs, limits
on registers and constants, line information.

### Numbers, Native, Arithmetic

`Numbers` has Lua's numbers at a small size: integers of `Width` bits that wrap, and
floats of `Precision` bits with an exponent up to `MaxExponent`, rounded to even,
with infinities and NaN, held as a count of halves. A zero has no sign, and powers
are left out. Functions keep the names of `numbers.go`.

`Native` is what the compilers share (`jit_divide.go`, the operands, the type
tests), `Amd64` and `Arm64` what the instructions each emits compute, where they
differ: amd64 tests for a divisor of minus one, on which IDIV traps, and shifts by
the low bits of a register; a comparison sets the processor's own flags, NaN's
among them, and every condition and its negation is read from those. `Exit` leaves
the instruction to the interpreter.

`Arithmetic` runs the code of a small function three ways at once: as the
interpreter does after `specialise` and `fuseMulAdd`; as each instruction is
defined; and, at every instruction, as both compilers' code would.
`SpecialisedAgrees`, `CompiledAgrees` and `NumbersExact`, the last of which compares
with arithmetic over TLA+'s integers, are its properties.

*Bounds.* `Width` 5, `Precision` 3, `MaxExponent` 3: integers from -16 to 15, of which
half have no exact float, as integers beyond 2^53 do not, and floats beyond
every integer. `ImmediateWidth` 4 has constants that fit an instruction and that do
not. Every pair of numbers for every operator; every divisor for the multiply
that replaces a division; strings that are numerals, at the ends of the integers
too, and values that are none.

Left out of `CompiledAgrees`: a float loop with a NaN step (section 3). Left out of
`NumbersExact`: a NaN limit. Comparison of strings and metamethods stand as an
error, the same for all.

### Kernel and Loop

`Kernel` is `planKernel`: which innermost loops compile to code that keeps its
variables in machine registers, which instructions it takes, the types it infers
(an operand's, a slot's, the loop's), which registers stay, are loaded at entry and
stored at exits, and the runs of intrinsics and buffers. `Loop` executes a `for`
loop by compiled code: ordinary code, `EnterKernel` when the types fit, kernel steps on
machine registers, `SideExit` in the middle for an argument, an element or an
operand it does not handle, a budget's end at the back-edge, and the latch. Beside it
`ref` is the interpreter, step for step.

`KernelAgrees`: in a kernel, each slot that is live has in its register the value the
interpreter's frame has, and the stored ones too. `FrameAgrees`: wherever ordinary
code, an exit or an error may read the frame, it is the interpreter's.

*Bounds.* Nineteen loops: sums, products and divisions of both types, variables that
change type in the loop, copies, tests and jumps over parts of the body, calls of an
intrinsic, buffers of three kinds; integer loops at the ends of the integers, float loops,
and loops of neither; locals of every type, NaN and nil among them. `MaxFloats` and `MaxInts`
are the processors' own, and one loop has more integers than amd64 takes.

### CallValues, CallStack, Activations and Frames

`CallStack` has the stack as a thread holds it: slots in an array, call records that
are reused, open upvalues, the cache of closures per function, `preCall`, `postCall`,
TAILCALL, `adjustVarArgs`. An upvalue is an index into the stack, and a frame a slice
of the array that held the stack when it was made. Growing (`checkStack`) and shrinking
(`shrinkStack`, after an error that a `pcall` catches) make another array: a frame
that is not found again stays a slice of the old one, where what is written is lost and
what is read is undefined (`Undef`). `ReallocStack` finds the frames of the call records again;
the interpreter's and the compiled code's own `frame` they find themselves, after
whatever may have moved the stack.

`Frames` has the levels of Go's own calls: an interpreter loop, compiled code with
the driver (`runJIT`) that entered it, Go functions that call back, `pcall` among
them. Functions become compiled at any moment, at their entry or at the latch of a
numeric loop; compiled code calls, tail-calls and returns to compiled code by itself, or
exits, for its budget (at a call or a latch), the write barrier, or what it does not
handle, and the driver, or the interpreter, goes on. An error ends every
level down to the last protected call, closes the upvalues of the calls between,
and shrinks the stack.

`Activations` is the reference: calls with registers of their own and variables as
cells, no stack; an error drops the calls down to the protected one. `FramesAgree`
relates the two: the same calls at the same instructions, the same values in every
register, extra argument and upvalue, and the top where the next instruction looks for
it. `TypeOK` has the stack's own invariants: every call's top fits the stack, every
Lua frame is the slice of the current array at the call's base, and the frame in use
is that slice. A frame left on the old array breaks both.

*Bounds.* Fourteen programs over seventeen small functions, each run three times
(`Rounds`: interpreted, as it gets hot, compiled): results wanted by count or all of
them, fewer and more than there are; varargs in and out, and copies of them that need
room; tail calls of Lua, Go and callable objects; closures over a variable, over
another's upvalue, and made again; an `__index` and a `__call`; Go functions that call
Lua; loops whose body calls, or protects an error; an error below frames that
made the stack grow, one through a metamethod, one whose value is a closure over a
variable of the failed call, and a `pcall` in a tail call. `InitialSize` 14 (the code
has 40) has the stack grow in the middle of calls, under every kind of level, and
shrink again; `MinRuns` 4 is the code's, and 0 what its tests set.

Left out: hooks, coroutines and to-be-closed variables (the last two in `Coroutine`),
vararg tables with a name, the stack's limit, loops other than `for` over numbers
(whose heads count as the latches do), functions compiled for
numbers alone, library functions that call one another, and `callMetamethods`. Go's
`append` may find room to grow where the stack is; here it always moves. The
passing run has no compiled vararg function that tail-calls a compiled one
(`FramesVararg`), and no two closures equal but for the variables they hold
(section 3).

## 3. Runs

| Run | Shows |
|---|---|
| `Interrupt` | types, `EachRaiseWasAsked`, `NoInterruptLost`, `NoStaleRaise` in every order of interrupts, calls, errors, coroutines and finalizers |
| `InterruptLive` | `InterruptNoticed`: no loop, in the interpreter or compiled, hides from an interrupt |
| `Coroutine` | one coroutine, two variables: `PendingHasCloser`, `UnyieldableCounted`, `ContinuationsReady`, `DeathIsUncaught`, `ClosedOnce`, `SelfCloseEnds`, `SelfCloseReturns` |
| `CoroutineChain` | two coroutines: `StatusFollowsLifecycle` |
| `Collector` | `QueuedOrCalledOnce`, `FinalizerThreadEmpty`, `CloseFinalizesAll`, `WeakEntriesExact`, `FinalizesUnreachable` while Lua builds any structure, and for every heap of a size |
| `Table` | `IsLuaMap`, `LengthIsBorder`: every key keeps its value, and a traversal its keys, while keys move between the parts of a table |
| `FieldCache` | `CachedReadExact`, `CompiledReadExact`, `CachedWriteExact`, `FlagsTrue`: no cache and no flag is ever stale where it is used |
| `Machine` | `TraceIsMeaning`, `OpenUpvaluesInScope`, `Ends`: compiled programs do what their trees mean, whatever is left above a frame |
| `Arithmetic` | `SpecialisedAgrees`, `CompiledAgrees`, `NumbersExact`: fast paths, fused pairs, both processors' code and arithmetic itself agree |
| `Loop` | `KernelAgrees`, `FrameAgrees`: a loop kept in machine registers is the interpreter's, at every way out |
| `Frames` | `FramesAgree`: calls and errors on a stack that grows and shrinks into other arrays, run by whoever, are calls without a stack |
| `FramesVararg` | violates `FramesAgree`: the finding below |

`InterruptLive` has constants of its own, for liveness needs the host and the
collections that the safety properties of `Interrupt` do not allow, and
`CoroutineChain` a second coroutine. Deadlock is not checked by `Collector`,
`Machine` and `Frames`, where after `Close`, after the last instruction and after
the last round the system stops. Each property of a passing run has a mutant, a
plausible bug in one mapped definition under which the run fails.

### Where the code and its comments disagree

`FramesVararg`: `tailCallLua` of both compilers says that the callee runs in the
caller's frame "as the interpreter's TAILCALL replaces the frame"
(`jit_arm64_calls.go:147`, `jit_amd64_calls.go:145`), and looks whether the callee has
a vararg part, not the caller. A variadic caller's frame is not one slot above its
function, so the callee's data and its record's `base()` differ afterwards, where
`vm_jit.go:490` states they are one.

The others have no run. A configuration beside a passing run's shows most:

| What | Shown by |
|---|---|
| `Resume` collects (`coroutine.go:65`) before it sets `nestedGoCallCount`; a finalizer run there counts as outermost, and its end drops an interrupt meant for the code that resumes (`gc.go:382`) | `Interrupt` with `Uses = {"resumeCollect"}`, `NoInterruptLost` |
| `Resume` recognises `errClosed` only in its first `protect` (`coroutine.go:79-92`): a coroutine that a yieldable `pcall` recovered from an error, and which then closes itself, is reported dead by an error | `Coroutine` with `closeRecovered` in `Uses`, `SelfCloseReturns` |
| `recover` shrinks the stack (`coroutine.go:215`) before the variables above the `pcall` are closed; one beyond the shrunk stack is never closed | `Coroutine` with `Slack = 1`, `ClosedOnce` |
| `closeProtected` (`tbc.go:96`) takes `errClosed` for an error of the `__close`: a coroutine that closes itself in a `__close` run for a `pcall` that is not yieldable runs on | `Coroutine` with `closeInPcall` in `Uses`, `MaxPos = 6`, `MaxGo = 7`, `SelfCloseEnds` |
| `rawset` of an integer key the hash holds may move it, and others, to the array (`tables.go:263`); a traversal under way ends without them, although no field was added | `Table` with `Uses = {"rawset"}`, `IsLuaMap` |
| A key that was buried, added again, cleared and buried again has two tombstones alike; `buriedSlot` (`shape.go:95`) returns the first, and `next` goes back to keys it has visited | `Table` with `Uses = {"readd"}`, `IsLuaMap` |
| A metatable without string keys has no shape, and neither has an empty cache: `getField` takes one for the other, and `c.mtSlot` is beyond its slots (`field_cache.go:8-10`) | `FieldCache` with `Uses = {"bareMeta"}`, `CachedReadExact` |
| CONCAT lowers the top for its metamethod and does not raise it again (`vm.go:683`): the next metamethod in the frame runs over registers in use | `Machine` with `ConcatPrograms`, `ConcatCompiled`, `ConcatMeanings` of `MCMachine`, `TraceIsMeaning` |
| A closure is taken from a function's cache if its upvalues are equal, closed ones by value (`stack.go:85-91`): two closures over variables of two calls are one, and share what either assigns; `lua-5.5-tests/closure.lua:80-92` has them apart | `Frames` with `Mains <- SameClosures`, `FramesAgree` |
| A float loop with a NaN step runs its body once in the interpreter (`numbers.go:263`), and not at all if the start is below the limit in compiled code, which tests the limit first (`Prep` in `Amd64` and `Arm64`) | `Arithmetic` without the exception in `CompiledAgrees` |

Others are plain from the models: an interrupt that arrives while nothing runs stops
the next call, where the comment on `Interrupt` says it is dropped (`interrupt.go:7`); a
host's own `Resume` counts down to zero without `dropInterrupt` (`coroutine.go:97`), and
one that fails because its thread is active changes that thread's count for good
(`hostResume` and `resumeActive` in `Uses`, which `InterruptLive` includes); nothing
resets `finalizable` on an object (`gc.go:266`), so one finalized already is not finalized
by `Close`, whose comment says "every object that has one" (`CloseFinalizesAll` states
what the code does); `dead` does not count the nil slots a shared shape brings when it
becomes a dictionary, so burial and compaction come late (`IsLuaMap` holds all the
same).

## 4. Proofs

`InterruptProofs`, for every set of coroutines, every period and every bound:

- `TypeCorrect` and `RaisesAreAsked`, from `Inv`: the types, a call in progress
  whenever Lua runs, and the count of errors plus a set flag against requests.
  `Inv` is inductive as it stands, with one lemma per action.
- `StaleNeverRaised` and `InterruptNeverLost`, for `Uses = {}`, from `DropInv`,
  whose heart is `Counts`: the entry at the bottom of Go's stack, and only
  that one, saved a zero count; the entries of a thread are next to each other,
  each saved the count of the one around it, and the innermost has the thread's
  present count. It is needed because the drop looks at one number, while the
  properties speak of the whole stack; no weaker invariant survives an error
  that unwinds several calls (`UnwindCounts`). Without `Uses = {}` both are
  false (section 3).

`CoroutineProofs`, for every set of coroutines and variables, any `Uses` without
`closeInPcall`, and every bound: `CoroutineTypes`, `CountIsExact`, `ContinuationsAreReady`,
`DeathsAreUncaught`, `NoneStranded`, `SelfCloseIsLast`; `SelfCloseIsNoDeath` also without
`closeRecovered`; `VariablesCloseOnce` also where `MaxPos <= Slack`, so that no shrunk stack
has lost a variable; and `StatusesFollow`, that `Coroutine` implements `Lifecycle`. Section 3
has the three defects that these conditions set aside. An error or a yield may drop any
number of Go's activations, with the frames of several threads; what the survivors find
must fit them. `CoroutineInvariant` defines `Inv`, `CoroutineLemmas` shows that each
operation keeps it, and `CoroutineProofs` that each step does, in layers:

- `Inv` puts a sequence `F` beside Go's stack: the floor of an activation is how many of its
  thread's call infos lay below it when it began. The activations of one thread are next
  to each other and begin with the host's call, a `Resume` or a `CloseThread` (`GoOk`). A
  `protect` or a closing loop has kept exactly the call infos below its floor; a call that
  is not over still has its own above it (`FloorOk`). So to cut Go's stack and to cut the
  frames above the floor is one thing. The frames say the rest: a Go function that waits
  without a continuation has the activation that waits with it (`Anchored`), and none of
  them lies under a yieldable `pcall` (`FramesOk`). A yield or a recovery therefore leaves
  only frames that can be run on. What a `CloseRunning` has cut away is excepted (`Live`):
  the activations below it are still there, their frames are not.
- The count is a function of the stack (`Count`), the same before and after a piece of
  another thread, and each `protect` has kept the one of the stack below it.
- `Listed` has each variable covered by a live function, or by what cut that function. It
  needs the order of levels, since a cut at a level must cover all above it.
- `SelfInv` follows a coroutine that has closed itself (`Finished`): no operation can start,
  resume or recover it again.
- `Once` counts the places of a variable in all lists and its calls; only `Declare` and
  `CloseNext` change a list (`StepKinds`), whatever `Throw` does.
- `StatusesFollow` maps Go's stack to the chain of `Lifecycle` by `Links`, a function of how
  many activations are counted: the first of a thread adds a link, a `CloseRunning` marks
  the last one. By `Inv` the chain shows the threads of the stack, the last one last
  (`Shows`), and none twice (`Apart`), so that the last link is the running thread, the
  others are the normal ones, and what is on no stack is suspended or dead by its own
  record (`StatusOfIs`). A call, a return or a jump changes neither chain nor status
  (`OwnLife`). An error takes one thread at most from the chain, as `Resume` catches it,
  and that thread is dead or, under `wrap`, begins to close in its place (`ThrowEnds`). The
  end of a closing may throw once more, to the next thread; two such ends are one `End`
  (`EndedTwice`). What was on no stack is left alone throughout (`Passes`). So each action of
  `Coroutine` is one step of `Lifecycle` or none (`LifeStep`). `closeInPcall` is excluded, as
  in the run, because `Inv` does not survive it.

`CollectorProofs`, for every set of objects, every assignment of modes and finalizers,
and every bound: `FinalizerExcludesMarking`, `TypeCorrect`, `FinalizedOnce`,
`ClosedFinalizesAll`, `UnreachableFinalized`, `WeakEntriesCleared`. In layers:

- `BusyInv` ties `gcBusy` to the phase in both directions, so each way out of a
  collection or a finalizer has to reset it.
- `CountInv` adds the types, and that queues, `dying` and calls together hold each
  flagged object once. How often an element occurs in what a selection, a reversal or
  an append makes is counted by lemmas about sequences at its beginning.
- `MarkInv` is about a collection under way. It keeps the heap of its beginning
  (`BeforeInv`), has marked what a traversed object holds (`TraversedInv`), has each
  weak and ephemeron table on its list (`ListsInv`), and marks nothing but `Reach` (`SoundInv`).
  `Reach` is the union of sets each defined by induction on the number of steps; when
  convergence ends, the marked set is closed under the rules and so contains it
  (`ConvergedExact`). What `Finish` queues and clears follows, for the marked set before
  and after resurrection. It is not enough to know the set at the end: a table that
  was gray once must still be listed, or its weak entries would stay.

`TableLemmas` says what each operator of `TableOps` does to a table that is well
formed (`WellFormed`, `Slotted`): what `At` reads after `PutString`, `ExtendArray`, `Compact`
or `Bury`, which keys keep their slots, and that no key is lost. `TableProofs`, for every
set of strings, integers and values and every bound:

- `TypeCorrect`, from `TableInv`: the parts fit each other, an integer is in the array
  or the hash and never in both, the snapshot has each key of the hash once.
- `LengthsAreBorders`, from `TypeCorrect`. The two loops are functions of the number of
  their steps, as many as suffice. Each halving keeps an integer present below one absent
  (`Brackets`) and leaves less between them, so that the last interval has nothing inside; each
  doubling goes at least one further, and past the greatest integer of the hash the next
  is absent (`LoopRuns`, `LoopKeeps`, `BorderIs`, `UnboundIs`, by induction on the
  steps, for every interval).
- `RefinesMap`, that `Table` implements `LuaMap`, for `Uses = {}`; with either of its
  elements it is false (section 3). That each key has what was last assigned to it (`stored`)
  is inductive, from what `At` reads after each operation: a write changes its own keys, and a
  migration, a compaction or a collection none. For `next`, the order of a traversal is array, slots, snapshot, and `Passed` says which keys
  are not after another. `WalkInv` adds to the types that a string has one slot, live or
  buried, and that a traversal stands where `next` can take it up, has seen the keys
  it passed, and is owed all there are. It is inductive because no write that does not end the
  traversal moves a key across the place where it stands.

`FieldCacheProofs`, for every program, every set of tables and every length of chain:
`TypeCorrect`, `TrueFlags`, `WritesExact`, and for `Uses = {}`, without which they are false
(section 3), `ReadsExact` and `CompiledReadsExact`. `Safe` is inductive: the tables are well
formed and their flags true; a cached reference and slot name a key's place (`KeyAt`), or
its absence if the shape is shared; and a cached chain ends where the classes
it names lead (`PathOk`). A shared shape is its keys and never changes. A
dictionary may only have grown since (`Later`), else its old name was replaced, and
the caches that had it match no table (`ReplacedIn`). So a cache says nothing of the
tables it was filled from, but holds of whatever table has the shapes now. What a cache
answers is then followed along the chain to what `IsMeaning` says of it, a
function of the steps left of which `Resolve`, the reference, is one value.

`ArithmeticProofs`: `SpecialisedIsExact`, `SpecialisedAgrees` for every program, constants,
strings and widths. Its lemmas say what `Form` and `FuseMulAdd` keep of an instruction
(`FormKeeps`, `SpecialiseKeeps`), that the fast paths and `arith` apply the operation of the
plain instruction to its operands (`FastIsDefined`, `SlowIsDefined`, `FastHoldsIsDefined`),
and that a dispatch is one plain instruction, or two where a fused pair went through
(`DispatchIsDefined`, `MulAddIsDefined`). The invariant adds to the property that the
interpreter runs `Specialise(code)`, and that a multiply's register is in the frame:
without these a fused add could read another product. Numbers stay unopened, but for
sums and products of floats being floats, so that neither is taken for an error.

The proofs assume the ASSUMEs of the modules, which TLC evaluates in the runs:
periods and bounds are natural numbers, and some positive; nil is no object, key or value;
strings are not integers and differ from their own tombstones (`KindsAssumption`); there
are as many integers as an array may have elements (`ArrayBound`); there are
finitely many tables, and the contents of fields are not nil (`ContentsAssumption`);
programs name tables, fields and instructions that exist (`ProgramsAssumption`); and the name
of a dictionary is no sequence of keys, nor one of the other names (`RefsAssumption`), as a
pointer to one shape is not a pointer to another. Before each was proved, TLC
checked its inductive invariant in the run of its module.

Only model-checked:

- Liveness, `InterruptNoticed` and `Ends`, which the prover does not reach.
- `TraceIsMeaning` and `OpenUpvaluesInScope` of `Machine`, and those of `Loop`, compare code with what a
  recursion over a tree or a program makes; `Parser`, `Meaning`, `CodeGen` and `Kernel` have
  recursive operators, which no module with a theorem may reach.
- `FramesAgree`, which relates a stack that moves to calls without one, over programs given by TLC.
- `CompiledAgrees` and `NumbersExact`, which need facts of powers of two and of division
  that the SMT solver does not have.

## 5. Not modelled

- Debug hooks (`debug_api.go`): counts, lines, and yields from hooks.
- The memory limit (`memory.go`): a charge may fail at every allocation.
- The pace of automatic collections, `collectgarbage`'s parameters and counts.
- In compiled code: elements of arrays, functions compiled for numbers alone, the
  encodings of instructions (`internal/jit`), executable memory.
- In the compiler: the scanner, bodies of nested functions, assignment to upvalues,
  `global` and `const`, named varargs, limits, line information.
- Numbers: powers, the sign of zero, formatting.
- In `length`, a doubling that overflows an `int`: it takes an integer present at each
  doubled place up to 2^62.
- Binary chunks and the packing of instructions: encodings, without state.
- Libraries: `coroutine`, `pcall`, `error`, `next` and `rawset` are in the models where they change
  their state; the rest are sequential functions over the API, files and system calls.
- The standalone program's display, and the benchmarks.

## 6. Plan

Written, in the order of importance: `Interrupt`, `Coroutine` with `Lifecycle`,
`Collector`, `Table` with `LuaMap`, `FieldCache`, the compiler with `Machine` and `Meaning`,
numbers and compiled code with `Arithmetic` and `Loop`, calls with `Frames` and
`Activations`; proofs for `Interrupt`, `Coroutine`, `Collector`, `Arithmetic`, `Table` and
`FieldCache`.

Next:

1. `Hooks`: counts, lines and yields from hooks; `finishOp` after them.
2. `AllocLimit`: charges, and failures half way through a library function.
3. Assignment to upvalues and nested bodies in `Parser` and `Meaning`, once `Machine` and
   `Frames` share their frames.
4. Array access in compiled code, beside `FieldCache`.
5. Algorithms as functions against reference definitions: `table.sort`,
   `table.move`, patterns, `string.pack`, chunks.

Theorems planned: `TypeOK` and `OpenUpvaluesInScope` of `Machine`, once `Meaning` and the compiler are apart from it.
