------------------------- MODULE CoroutineInvariant -------------------------
(***************************************************************************)
(* The inductive invariant of Coroutine.  Go's stack is cut into pieces,   *)
(* one for each thread in progress; F, a sequence beside it, says how many *)
(* of its thread's call infos lay below each activation when it began.     *)
(* The invariant ties the two stacks together: an activation is dropped    *)
(* with the frames above its floor, and a Go function that waits without a *)
(* continuation has the activation that waits with it.                     *)
(***************************************************************************)
EXTENDS Coroutine

Halts(e) == e.k \in {"protect", "closing"}
\* CloseThread's loop, and protectedCall with what it ends in.
Ends(e) == e.k = "closing" /\ e.then # "pcall"
Protects(e) == e.k = "protect" \/ (e.k = "closing" /\ e.then = "pcall")
ClosesSelf(e) == e.k = "closing" /\ e.then = "self"
\* ProtectedCall by the host.
Hosts(e) == e.t = Main /\ Protects(e) /\ e.ci = <<>>
\* The first activation of a thread.
Begins(e) == e.k = "resume" \/ (e.k = "closing" /\ e.then \in {"close", "wrap"})

Runs(g, t) == g # <<>> /\ Last(g).t = t
On(g, t) == \E i \in DOMAIN g : g[i].t = t
\* Code runs on at the top of g: none of its loops closes variables.
Lua(g) == g # <<>> /\ Last(g).k \in {"call", "resume"}

\* No CloseRunning has cut the frames of activation i.
Live(g, i) == \A j \in i + 1 .. Len(g) : g[j].t = g[i].t => ~ClosesSelf(g[j])

\* The count of t while the first n activations of g are in progress.
From(g, n, t) == Max({0} \union {i \in 1 .. n : g[i].t = t /\ (g[i].k = "resume" \/ Ends(g[i]))})
Unyieldable(g, n, t) == {i \in From(g, n, t) + 1 .. n : g[i].t = t /\ g[i].k = "call" /\ g[i].ny}
Count(g, n, t) ==
  Cardinality(Unyieldable(g, n, t)) + (IF From(g, n, t) = 0 \/ g[From(g, n, t)].k = "closing" THEN 1 ELSE 0)

\* One activation and what is below and above it.
ActivationOk(g, i) ==
  /\ i > 1 => IF Begins(g[i]) THEN \A j \in 1 .. i - 1 : g[j].t # g[i].t ELSE g[i].t = g[i - 1].t
  /\ i > 1 /\ g[i].k # "call" => g[i - 1].k \in {"call", "resume"}
  /\ Halts(g[i]) /\ i < Len(g) => g[i + 1].k = "call" /\ g[i + 1].ny
  /\ Ends(g[i]) => g[i].t # Main /\ g[i].ci = <<>> /\ g[i].nny = 1 /\ g[i].level = 1
  /\ ClosesSelf(g[i]) =>
       \A j \in 1 .. i - 1 : g[j].t = g[i].t =>
         /\ ~(g[j].k = "closing" /\ g[j].then = "pcall")
         /\ g[j].k = "resume" /\ g[j].loop => "closeRecovered" \in Uses
  /\ Protects(g[i]) => g[i].nny = Count(g, i - 1, g[i].t)
GoOk(g) ==
  /\ g # <<>> => Hosts(g[1])
  /\ \A i \in DOMAIN g : ActivationOk(g, i)

\* A thread's call infos.
FramesOk(c) ==
  /\ \A p, q \in DOMAIN c : p < q => c[p].pos < c[q].pos
  /\ \A p \in DOMAIN c :
       /\ c[p].op \in GoOps => ~c[p].fresh
       /\ ~c[p].fresh => p > 1 /\ c[p - 1].op = "call"
       /\ p < Len(c) => c[p].op # "run"
       /\ c[p].op \in {"pcall", "error"} => \A q \in 1 .. p - 1 : c[q].op \notin {"protect", "plain"}
       /\ c[p].op = "return" => c[p].level = c[p].pos
       /\ c[p].op = "error" => c[p].level = c[p].pos + 1

\* All a frame waits for has a continuation.
Settled(c) == \A p \in DOMAIN c : c[p].op \notin {"protect", "plain"}
Waits(c) == c # <<>> /\ Last(c).op = "call"

\* Activation i of t, whose frames are c, and its floor.
FloorOk(c, g, F, t, i) ==
  /\ Halts(g[i]) => F[i] = Len(g[i].ci) /\ F[i] <= Len(c) /\ g[i].ci = SubSeq(c, 1, F[i])
  /\ Protects(g[i]) => g[i].level = (IF F[i] = 0 THEN 1 ELSE c[F[i]].pos + 1)
  /\ Protects(g[i]) /\ F[i] > 0 => c[F[i]].op = "protect"
  /\ g[i].k = "call" =>
       /\ F[i] < Len(c) /\ c[F[i] + 1].fresh
       /\ \A p \in F[i] + 1 .. Len(c) : c[p].fresh =>
            \E j \in DOMAIN g : g[j].t = t /\ g[j].k = "call" /\ Live(g, j) /\ F[j] + 1 = p
  /\ \A j \in i + 1 .. Len(g) : g[j].t = t =>
       /\ F[i] <= F[j]
       /\ g[i].k \in {"call", "resume"} => F[i] < F[j]
       /\ Halts(g[i]) /\ j = i + 1 => F[j] = F[i]
\* A frame that waits without a continuation has its activation.
Anchored(c, g, F, t) ==
  \A p \in 1 .. Len(c) - 1 :
    /\ c[p].op = "protect" =>
         \E i \in DOMAIN g : g[i].t = t /\ Protects(g[i]) /\ Live(g, i) /\ F[i] = p
    /\ c[p].op = "plain" =>
         \E i \in DOMAIN g : g[i].t = t /\ g[i].k = "call" /\ g[i].ny /\ Live(g, i) /\ F[i] = p
Floors(c, g, F, t) ==
  /\ \A i \in DOMAIN g : g[i].t = t =>
       /\ g[i].k = "resume" \/ Ends(g[i]) => F[i] = 0
       /\ Live(g, i) => FloorOk(c, g, F, t, i)
  /\ Anchored(c, g, F, t)

\* Variable x is some live function's, or is to be closed.
Covered(r, t, g, x) ==
  \/ \E f \in DOMAIN r.ci : r.ci[f].op \in LuaOps /\ r.ci[f].pos = x.base
  \/ \E i \in DOMAIN r.ci : r.ci[i].op = "error" /\ x.level >= r.ci[i].level
  \/ \E i \in DOMAIN g : g[i].k = "closing" /\ g[i].t = t /\ x.level >= g[i].level
  \/ r.death
Listed(r, t, g) ==
  /\ \A i, j \in DOMAIN r.tbc : i < j => r.tbc[i].level < r.tbc[j].level
  /\ \A i \in DOMAIN r.tbc : r.tbc[i].base < r.tbc[i].level /\ Covered(r, t, g, r.tbc[i])

\* A thread in progress, and one that is not.
OnGo(r, t, g, F) ==
  /\ ~r.fresh /\ ~r.death /\ r.status # "yield"
  /\ r.status = "error" => Runs(g, t) /\ Ends(Last(g)) /\ r.tbc = <<>>
  /\ r.nny = Count(g, Len(g), t)
  /\ Floors(r.ci, g, F, t)
  /\ ~Runs(g, t) => Waits(r.ci)
  /\ Runs(g, t) /\ ~Lua(g) => Len(r.ci) = F[Len(g)]
  /\ Runs(g, t) /\ Lua(g) => r.ci # <<>>
OffGo(r, t) ==
  /\ r.status = "yield" => Waits(r.ci) /\ Settled(r.ci)
  /\ r.fresh => r.status = "ok" /\ r.ci = <<>> /\ ~r.death
  /\ r.death => r.status = "error" /\ \A p \in DOMAIN r.ci : r.ci[p].op \notin {"protect", "pcall", "error"}
  /\ t = Main => r.ci = <<>> /\ r.status = "ok" /\ ~r.death /\ r.nny = 1
ThreadOk(r, t, g, F) ==
  /\ FramesOk(r.ci) /\ Listed(r, t, g)
  /\ r.fresh => t # Main
  /\ IF On(g, t) THEN OnGo(r, t, g, F) ELSE OffGo(r, t)

Typed(T, g, F) ==
  /\ T \in [Threads -> ThreadRecord] /\ g \in Seq(Activation)
  /\ F \in Seq(Nat) /\ Len(F) = Len(g)
\* Whatever the function on top has come to; and when it runs, or closes.
Body(m, F) ==
  /\ m = [th |-> m.th, go |-> m.go]
  /\ Typed(m.th, m.go, F) /\ GoOk(m.go) /\ \A t \in Threads : ThreadOk(m.th[t], t, m.go, F)
Top(m) == Last(m.th[Last(m.go).t].ci)
Good(m, F) ==
  /\ Body(m, F)
  /\ m.go # <<>> => Last(m.go).k # "protect"
  /\ Lua(m.go) => Top(m).op \in {"run", "jump", "return", "error"}
Inv == \E F : Good(Machine, F)
=============================================================================
