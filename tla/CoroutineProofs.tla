-------------------------- MODULE CoroutineProofs ---------------------------
(***************************************************************************)
(* Proofs about Coroutine, for every set of coroutines and variables, any  *)
(* uses and every bound, with the invariant of CoroutineInvariant and what *)
(* CoroutineLemmas says of the operations; and that coroutines follow      *)
(* Lifecycle.                                                              *)
(***************************************************************************)
EXTENDS CoroutineLemmas

-----------------------------------------------------------------------------
(* The steps.                                                              *)

\* The machine becomes one in order.
LEMMA NextInv ==
  ASSUME NEW n, \E E : Good(n, E), th' = n.th, go' = n.go
  PROVE  Inv'
<1>1. PICK E : Good(n, E)
  OBVIOUS
<1>2. n = [th |-> n.th, go |-> n.go]
  BY <1>1 DEF Good, Body
<1>3. Machine' = n
  BY <1>2 DEF Machine
<1>4. Good(Machine', E)
  BY <1>1, <1>3
<1> QED
  BY <1>4 DEF Inv

\* Lua code runs.
LEMMA LuaParts ==
  ASSUME NEW F, Good(Machine, F), NEW op, LuaRuns(op)
  PROVE  /\ Body(Machine, F) /\ Machine.th = th /\ Machine.go = go /\ Lua(go) /\ Top(Machine) = Frame
         /\ Top(Machine).op = "run" /\ Top(Machine).op \in LuaOps /\ Running = Last(go).t /\ Running \in Threads
         /\ th \in [Threads -> ThreadRecord] /\ go # <<>> /\ th[Running] \in ThreadRecord /\ th[Running].status = "ok"
         /\ th[Running].nny \in Nat /\ th[Running].ci # <<>> /\ Frame \in CallInfo /\ Frame = Last(th[Running].ci)
<1>1. Machine.th = th /\ Machine.go = go /\ Machine = [th |-> th, go |-> go]
  BY DEF Machine
<1>2. Body(Machine, F)
  BY DEF Good
<1>3. Lua(go) /\ go # <<>> /\ Frame.op = "run"
  BY DEF LuaRuns, Lua
<1>4. Top(Machine) = Frame
  BY <1>1 DEF Top, Frame, Running
<1> HIDE DEF Machine
<1>5. /\ Last(go).t \in Threads /\ th[Last(go).t] \in ThreadRecord /\ th[Last(go).t].nny \in Nat
      /\ th[Last(go).t].status = "ok" /\ th[Last(go).t].ci # <<>> /\ Last(th[Last(go).t].ci) \in CallInfo
  <2>1. Lua(Machine.go) /\ Machine.go # <<>>
    BY ONLY <1>1, <1>3
  <2>2. LET t == Last(Machine.go).t
            r == Machine.th[t]
        IN t \in Threads /\ r \in ThreadRecord /\ r.nny \in Nat /\ r.status = "ok" /\ r.ci # <<>> /\ Last(r.ci) \in CallInfo
    BY <1>2, <2>1, RunningParts
  <2> QED
    BY <1>1, <2>2
<1>6. th \in [Threads -> ThreadRecord]
  BY <1>1, <1>2, BodyParts
<1> QED
  BY <1>1, <1>2, <1>3, <1>4, <1>5, <1>6 DEF Running, Frame, LuaOps

\* An error of Lua code.
LEMMA ErrorInv ==
  ASSUME Inv, Error
  PROVE  Inv'
<1>1. PICK F : Good(Machine, F)
  BY DEF Inv
<1>2. LuaRuns("error") /\ Become(Throw("error", Machine))
  BY DEF Error
<1>3. Body(Machine, F) /\ Lua(Machine.go) /\ Top(Machine).op \in LuaOps
  BY <1>1, <1>2, LuaParts
<1>4. \E E : Good(Throw("error", Machine), E)
  BY <1>3, ErrorBody
<1> QED
  BY <1>2, <1>4, NextInv DEF Become

\* A call begins.
CallOf(t, ny) == [k |-> "call", t |-> t, ny |-> ny]

\* What State.call pushes and counts.
LEMMA CalledIs ==
  ASSUME NEW r \in ThreadRecord
  PROVE  /\ Called(r, FALSE) = PushFrame(r, "run", TRUE)
         /\ Called(r, TRUE) = [PushFrame(r, "run", TRUE) EXCEPT !.nny = @ + 1]
<1> DEFINE p == PushFrame(r, "run", TRUE)
<1>1. p \in ThreadRecord
  BY PushIs DEF LuaOps
<1> HIDE DEF p
<1>2. p.nny \in Nat /\ p.nny + 0 = p.nny /\ [p EXCEPT !.nny = p.nny] = p
  BY <1>1 DEF ThreadRecord
<1>3. [p EXCEPT !.nny = @ + (IF FALSE THEN 1 ELSE 0)] = p
  BY <1>2
<1>4. [p EXCEPT !.nny = @ + (IF TRUE THEN 1 ELSE 0)] = [p EXCEPT !.nny = @ + 1]
  OBVIOUS
<1> QED
  BY <1>3, <1>4 DEF Called, p

\* A call of a function keeps the invariant where what waits for it may.
LEMMA CallInv ==
  ASSUME NEW m, NEW F, Body(m, F), m.go # <<>>, NEW t, t = Last(m.go).t, m.th[t].status = "ok",
         NEW ny \in BOOLEAN, Halts(Last(m.go)) => ny,
         m.th[t].ci # <<>> => /\ Last(m.th[t].ci).op # "run"
                              /\ Last(m.th[t].ci).op = "plain" => ny
                              /\ Last(m.th[t].ci).op = "protect" => Protects(Last(m.go)),
         th' = [m.th EXCEPT ![t] = Called(m.th[t], ny)], go' = Append(m.go, CallOf(t, ny))
  PROVE  Inv'
<1> DEFINE n == [th |-> [m.th EXCEPT ![t] = Called(m.th[t], ny)], go |-> Append(m.go, CallOf(t, ny))]
<1>1. \E E : Good(n, E)
  BY CallBody, ZenonT(60) DEF Called, CallOf
<1>2. th' = n.th /\ go' = n.go
  OBVIOUS
<1> HIDE DEF n
<1> QED
  BY ONLY <1>1, <1>2, NextInv

\* The thread that runs, once MarkBody has marked its frame as a call.
CallingMachine == [th |-> [th EXCEPT ![Running] = Calling(th[Running])], go |-> go]

\* Lua code that has called is a machine in order.
LEMMA CallingParts ==
  ASSUME NEW F, Good(Machine, F), NEW op, LuaRuns(op)
  PROVE  LET n == CallingMachine
             q == Calling(th[Running])
         IN /\ Body(n, F) /\ Lua(n.go) /\ n.go = go /\ n.th = [th EXCEPT ![Running] = q] /\ n.th[Running] = q
            /\ Top(n).op = "call" /\ q.ci # <<>> /\ Last(q.ci).op = "call" /\ q \in ThreadRecord
            /\ SameRest(q, th[Running]) /\ n.go # <<>> /\ Last(n.go).t = Running
            /\ Settled(th[Running].ci) => Settled(q.ci)
<1> DEFINE t == Running
           q == Mark(th[t], "call", 0)
           n == [th |-> [th EXCEPT ![t] = q], go |-> go]
<1>1. /\ Body(Machine, F) /\ Machine.th = th /\ Machine.go = go /\ Lua(go) /\ Top(Machine).op \in LuaOps /\ t = Last(go).t
      /\ t \in Threads /\ th \in [Threads -> ThreadRecord]
  BY LuaParts
<1>2. "call" \in LuaOps /\ 0 \in Nat /\ "call" # "return"
  BY DEF LuaOps
<1>3. /\ Body(n, F) /\ Lua(n.go) /\ n.th[t] = q /\ Top(n).op = "call" /\ q.ci # <<>> /\ q \in ThreadRecord
      /\ SameRest(q, th[t]) /\ (Settled(th[t].ci) => Settled(q.ci))
  <2> HIDE DEF Machine
  <2> DEFINE p == Mark(Machine.th[t], "call", 0)
             o == [th |-> [Machine.th EXCEPT ![t] = p], go |-> Machine.go]
  <2>1. Lua(Machine.go) /\ t = Last(Machine.go).t
    BY <1>1
  <2>2. /\ Body(o, F) /\ Lua(o.go) /\ o.th[t] = p /\ Top(o).op = "call" /\ p.ci # <<>> /\ p \in ThreadRecord
        /\ SameRest(p, Machine.th[t]) /\ (Settled(Machine.th[t].ci) => Settled(p.ci))
    BY <1>1, <1>2, <2>1, MarkBody
  <2>3. p = q /\ o = n
    BY <1>1
  <2> QED
    BY <1>1, <2>2, <2>3
<1>4. n = CallingMachine /\ q = Calling(th[t]) /\ n.go = go /\ n.th = [th EXCEPT ![t] = q]
  BY DEF CallingMachine, Calling
<1>5. Top(n) = Last(q.ci)
  BY <1>1, <1>3 DEF Top
<1>6. go # <<>>
  BY <1>1 DEF Lua
<1> QED
  BY <1>1, <1>3, <1>4, <1>5, <1>6

\* Two elements.
LEMMA TwoOnes ==
  ASSUME NEW S, NEW a \in S, NEW b \in S
  PROVE  Append(<<a>>, b) = <<a, b>>
<1> DEFINE s == Append(<<a>>, b)
           r == <<a, b>>
<1>1. <<a>> \in Seq(S) /\ Len(<<a>>) = 1 /\ <<a>>[1] = a
  OBVIOUS
<1>2. r \in Seq(S) /\ Len(r) = 2 /\ r[1] = a /\ r[2] = b
  OBVIOUS
<1>3. s \in Seq(S) /\ Len(s) = 1 + 1 /\ s[1] = a /\ s[1 + 1] = b
  BY <1>1
<1> HIDE DEF s, r
<1>4. \A i \in 1 .. Len(s) : s[i] = r[i]
  BY <1>2, <1>3
<1>5. s = r
  BY <1>2, <1>3, <1>4, SeqEqual
<1> QED
  BY <1>5 DEF s, r

\* Two updates of a thread's State.
LEMMA SetTwice ==
  ASSUME NEW T \in [Threads -> ThreadRecord], NEW t, NEW q, NEW r
  PROVE  [[T EXCEPT ![t] = q] EXCEPT ![t] = r] = [T EXCEPT ![t] = r]
OBVIOUS

\* OP_CALL of a Lua function.
LEMMA CallLuaInv ==
  ASSUME Inv, CallLua
  PROVE  Inv'
<1>1. PICK F : Good(Machine, F)
  BY DEF Inv
<1> DEFINE t == Running
           q == Calling(th[t])
           p == PushFrame(q, "run", FALSE)
<1>2. LuaRuns("call") /\ th' = [th EXCEPT ![t] = p] /\ go' = go
  BY DEF CallLua
<1> DEFINE m == CallingMachine
<1>3. Body(m, F) /\ Lua(m.go) /\ m.go = go /\ m.th = [th EXCEPT ![t] = q] /\ m.th[t] = q /\ Top(m).op = "call" /\ t = Last(m.go).t
  BY <1>1, <1>2, CallingParts
<1>4. th \in [Threads -> ThreadRecord]
  BY <1>1, <1>2, LuaParts
<1> HIDE DEF m, q
<1> DEFINE n == Pushed(m, t, "run")
<1>5. Body(n, F) /\ Lua(n.go) /\ Top(n).op = "run"
  <2>1. "run" \in Pushes /\ "run" # "pcall"
    BY DEF Pushes
  <2> HIDE DEF t
  <2>2. Body(n, F) /\ Lua(n.go) /\ Does(n, "run")
    BY <1>3, <2>1, PushBody
  <2> QED
    BY ONLY <2>2 DEF Does
<1>6. n.th = [th EXCEPT ![t] = p] /\ n.go = go
  <2> HIDE DEF p
  <2>1. PushFrame(m.th[t], "run", FALSE) = p
    BY <1>3 DEF p
  <2> QED
    BY <1>3, <1>4, <2>1, SetTwice DEF Pushed
<1> HIDE DEF n
<1>7. Good(n, F)
  BY <1>5, GoodLua
<1> QED
  BY <1>2, <1>6, <1>7, NextInv

\* A metamethod.
LEMMA CallMetaInv ==
  ASSUME Inv, CallMeta
  PROVE  Inv'
<1>1. PICK F : Good(Machine, F)
  BY DEF Inv
<1> DEFINE t == Running
           q == Calling(th[t])
<1>2. /\ LuaRuns("meta") /\ th' = [th EXCEPT ![t] = Called(q, FALSE)]
      /\ go' = Append(go, [k |-> "call", t |-> t, ny |-> FALSE])
  BY DEF CallMeta
<1> DEFINE m == CallingMachine
<1>3. /\ Body(m, F) /\ Lua(m.go) /\ m.go = go /\ m.th = [th EXCEPT ![t] = q] /\ m.th[t] = q /\ t = Last(m.go).t
      /\ m.go # <<>> /\ q \in ThreadRecord /\ Last(q.ci).op = "call" /\ q.status = th[t].status
  BY <1>1, <1>2, CallingParts DEF SameRest
<1>4. th \in [Threads -> ThreadRecord] /\ th[t].status = "ok"
  BY <1>1, <1>2, LuaParts
<1> HIDE DEF m, q
<1>5. th' = [m.th EXCEPT ![t] = Called(m.th[t], FALSE)]
  BY <1>2, <1>3, <1>4, SetTwice
<1>6. go' = Append(m.go, CallOf(t, FALSE))
  BY <1>2, <1>3 DEF CallOf
<1>7. ~Halts(Last(m.go))
  BY <1>3 DEF Halts, Lua
<1> QED
  BY <1>3, <1>4, <1>5, <1>6, <1>7, CallInv

\* A JMP, or a RETURN, that closes.
LEMMA MarkInv ==
  ASSUME Inv, NEW use, LuaRuns(use), NEW op \in {"jump", "return"}, NEW level \in Nat, op = "return" => level = Frame.pos,
         th' = [th EXCEPT ![Running] = Mark(th[Running], op, level)], go' = go
  PROVE  Inv'
<1>1. PICK F : Good(Machine, F)
  BY DEF Inv
<1>2. /\ Body(Machine, F) /\ Machine.th = th /\ Machine.go = go /\ Lua(go) /\ Top(Machine) = Frame
      /\ Top(Machine).op \in LuaOps /\ Running = Last(go).t
  BY <1>1, LuaParts
<1> DEFINE n == [th |-> [Machine.th EXCEPT ![Running] = Mark(Machine.th[Running], op, level)], go |-> Machine.go]
<1>3. Body(n, F) /\ Lua(n.go) /\ Top(n).op = op
  <2>1. op \in LuaOps
    BY DEF LuaOps
  <2> HIDE DEF Machine
  <2>2. Lua(Machine.go) /\ Running = Last(Machine.go).t /\ (op = "return" => level = Top(Machine).pos)
    BY <1>2
  <2> QED
    BY <1>2, <2>1, <2>2, MarkBody
<1>4. th' = n.th /\ go' = n.go
  BY <1>2
<1> HIDE DEF n
<1>5. Good(n, F)
  BY <1>3, GoodLua
<1> QED
  BY <1>4, <1>5, NextInv

\* The end of a scope keeps the invariant.
LEMMA JumpInv ==
  ASSUME Inv, NEW i, Jump(i)
  PROVE  Inv'
<1> DEFINE level == th[Running].tbc[i].level
<1>1. LuaRuns("jump") /\ i \in DOMAIN th[Running].tbc /\ th' = [th EXCEPT ![Running] = Mark(@, "jump", level)] /\ go' = go
  BY DEF Jump
<1>2. th[Running] \in ThreadRecord
  <2>1. PICK F : Good(Machine, F)
    BY DEF Inv
  <2> QED
    BY <1>1, <2>1, LuaParts
<1>3. level \in Nat
  BY <1>1, <1>2, LevelsAre
<1> HIDE DEF level
<1>4. th' = [th EXCEPT ![Running] = Mark(th[Running], "jump", level)]
  BY <1>1
<1> QED
  BY <1>1, <1>3, <1>4, MarkInv

\* A return keeps the invariant.
LEMMA ReturnInv ==
  ASSUME Inv, Return
  PROVE  Inv'
<1>1. LuaRuns("return") /\ th' = [th EXCEPT ![Running] = Mark(th[Running], "return", Frame.pos)] /\ go' = go
  BY DEF Return
<1>2. Frame.pos \in Nat
  <2>1. PICK F : Good(Machine, F)
    BY DEF Inv
  <2>2. Frame \in CallInfo
    BY <1>1, <2>1, LuaParts
  <2> QED
    BY <2>2 DEF CallInfo
<1> QED
  BY <1>1, <1>2, MarkInv

\* ProtectedCall by the host.
LEMMA HostCallInv ==
  ASSUME Inv, HostCall
  PROVE  Inv'
<1>1. PICK F : Good(Machine, F)
  BY DEF Inv
<1>2. /\ go = <<>> /\ th' = [th EXCEPT ![Main] = Called(th[Main], TRUE)]
      /\ go' = <<[k |-> "protect", t |-> Main, ci |-> <<>>, nny |-> 1, level |-> 1], [k |-> "call", t |-> Main, ny |-> TRUE]>>
  BY DEF HostCall
<1>3. Machine.th = th /\ Machine.go = go
  BY DEF Machine
<1>4. Body(Machine, F)
  BY <1>1 DEF Good
<1> DEFINE r == th[Main]
           e == [k |-> "protect", t |-> Main, ci |-> r.ci, nny |-> r.nny, level |-> 1]
           h == Append(go, e)
           n == [th |-> th, go |-> h]
<1> HIDE DEF Machine
<1>5. /\ \E E : Body(n, E)
      /\ h # <<>> /\ Last(h) = e /\ r.status = "ok" /\ r.ci = <<>> /\ r.nny = 1
  <2> DEFINE m == Machine
             x == [k |-> "protect", t |-> Main, ci |-> m.th[Main].ci, nny |-> m.th[Main].nny, level |-> 1]
  <2>1. m.go = <<>> /\ Body(m, F) /\ 1 = 1
    BY <1>2, <1>3, <1>4
  <2>2. /\ \E E : Body([th |-> m.th, go |-> Append(m.go, x)], E)
        /\ Append(m.go, x) # <<>> /\ Last(Append(m.go, x)) = x
        /\ m.th[Main].status = "ok" /\ (m.go = <<>> => m.th[Main].ci = <<>> /\ m.th[Main].nny = 1)
    BY ONLY <2>1, ProtectBody
  <2> QED
    BY <1>3, <2>1, <2>2
<1>6. th \in [Threads -> ThreadRecord] /\ Main \in Threads
  BY <1>3, <1>4, BodyParts DEF Threads
<1>7. h = <<e>> /\ e = [k |-> "protect", t |-> Main, ci |-> <<>>, nny |-> 1, level |-> 1]
  BY <1>2, <1>5
<1>8. go' = Append(h, CallOf(Main, TRUE))
  <2> HIDE DEF e
  <2>1. go' = <<e, CallOf(Main, TRUE)>>
    BY <1>2, <1>7 DEF CallOf
  <2>2. e \in {e, CallOf(Main, TRUE)} /\ CallOf(Main, TRUE) \in {e, CallOf(Main, TRUE)}
    OBVIOUS
  <2> HIDE DEF h
  <2> QED
    BY <1>7, <2>1, <2>2, TwoOnes
<1>9. th' = [th EXCEPT ![Main] = Called(th[Main], TRUE)]
  BY <1>2
<1>10. Protects(e) /\ e.t = Main
  BY DEF Protects
<1>11. PICK E : Body(n, E)
  BY <1>5
<1>12. n.th = th /\ n.go = h
  OBVIOUS
<1> HIDE DEF n, h, e
<1> QED
  BY <1>5, <1>8, <1>9, <1>10, <1>11, <1>12, CallInv

\* The Lua function that runs calls a Go function, which does op.
GoCalling(op) == [th |-> [th EXCEPT ![Running] = PushFrame(Calling(th[Running]), op, FALSE)], go |-> go]

\* Lua code that has called a Go function is a machine in order.
LEMMA GoCallingParts ==
  ASSUME NEW F, Good(Machine, F), NEW use, LuaRuns(use), NEW op \in Pushes, op = "pcall" => th[Running].nny = 0
  PROVE  LET n == GoCalling(op)
             q == PushFrame(Calling(th[Running]), op, FALSE)
         IN /\ Body(n, F) /\ Lua(n.go) /\ n.go = go /\ n.th = [th EXCEPT ![Running] = q] /\ n.th[Running] = q /\ Does(n, op)
            /\ q.ci # <<>> /\ Last(q.ci).op = op /\ q \in ThreadRecord /\ q.status = "ok" /\ q.nny = th[Running].nny
            /\ n.go # <<>> /\ Last(n.go).t = Running /\ ~Halts(Last(n.go))
<1> DEFINE t == Running
           c == Calling(th[t])
           m == CallingMachine
           q == PushFrame(c, op, FALSE)
<1>1. /\ Body(m, F) /\ Lua(m.go) /\ m.go = go /\ m.th = [th EXCEPT ![t] = c] /\ m.th[t] = c /\ Top(m).op = "call" /\ t = Last(m.go).t
      /\ c \in ThreadRecord /\ c.ci # <<>> /\ Last(c.ci).op = "call" /\ c.status = th[t].status /\ c.nny = th[t].nny
  BY CallingParts DEF SameRest
<1>2. th \in [Threads -> ThreadRecord] /\ th[t].status = "ok" /\ go # <<>> /\ Lua(go)
  BY LuaParts
<1> HIDE DEF m, c, t
<1>3. op = "pcall" => Settled(m.th[t].ci)
  <2> SUFFICES ASSUME op = "pcall" PROVE Settled(c.ci)
    BY <1>1
  <2>1. m.th[t].nny = 0
    BY <1>1 DEF t
  <2>2. \A p \in 1 .. Len(m.th[t].ci) - 1 : m.th[t].ci[p].op \notin {"protect", "plain"}
    BY ONLY <1>1, <2>1, ZeroSettled, ZenonT(60)
  <2>3. c.ci \in Seq(CallInfo) /\ Last(c.ci) = c.ci[Len(c.ci)]
    BY <1>1, ThreadParts DEF Last
  <2> DEFINE d == c.ci
  <2>4. d \in Seq(CallInfo) /\ d # <<>> /\ (\A p \in 1 .. Len(d) - 1 : d[p].op \notin {"protect", "plain"}) /\ d[Len(d)].op = "call"
    BY <1>1, <2>2, <2>3
  <2> HIDE DEF d
  <2>5. \A p \in DOMAIN d : p \in 1 .. Len(d) - 1 \/ p = Len(d)
    BY <2>4
  <2>6. Settled(d)
    BY <2>4, <2>5 DEF Settled
  <2> QED
    BY <2>6 DEF d
<1> DEFINE n == Pushed(m, t, op)
<1>4. /\ Body(n, F) /\ Lua(n.go) /\ n.go = m.go /\ n.th = [m.th EXCEPT ![t] = PushFrame(m.th[t], op, FALSE)]
      /\ n.th[t] = PushFrame(m.th[t], op, FALSE) /\ Does(n, op) /\ PushFrame(m.th[t], op, FALSE).ci # <<>>
      /\ PushFrame(m.th[t], op, FALSE) \in ThreadRecord
      /\ SameRest(PushFrame(m.th[t], op, FALSE), m.th[t])
  <2>1. Body(n, F) /\ Lua(n.go) /\ Does(n, op)
    BY <1>1, <1>3, PushBody
  <2>2. n.go = m.go /\ n.th = [m.th EXCEPT ![t] = PushFrame(m.th[t], op, FALSE)]
    BY DEF Pushed
  <2>3. m.th \in [Threads -> ThreadRecord] /\ t \in Threads /\ m.th[t] \in ThreadRecord
    <3>1. Body(m, F) /\ m.go # <<>> /\ t = Last(m.go).t
      BY <1>1, <1>2
    <3> QED
      BY <3>1, BodyParts
  <2>4. op \in LuaOps \union GoOps
    BY DEF Pushes, LuaOps, GoOps
  <2> HIDE DEF n
  <2>5. /\ PushFrame(m.th[t], op, FALSE).ci # <<>> /\ PushFrame(m.th[t], op, FALSE) \in ThreadRecord
        /\ SameRest(PushFrame(m.th[t], op, FALSE), m.th[t])
    BY <2>3, <2>4, PushIs
  <2>6. n.th[t] = PushFrame(m.th[t], op, FALSE)
    BY <2>2, <2>3
  <2> QED
    BY <2>1, <2>2, <2>5, <2>6
<1>5. PushFrame(m.th[t], op, FALSE) = q
  BY <1>1
<1> HIDE DEF q
<1>6. n.th = [th EXCEPT ![t] = q]
  BY <1>1, <1>2, <1>4, <1>5, SetTwice, ZenonT(30)
<1>7. n = GoCalling(op)
  <2>1. n = [th |-> n.th, go |-> n.go]
    BY DEF Pushed
  <2> HIDE DEF n
  <2>2. GoCalling(op) = [th |-> [th EXCEPT ![t] = q], go |-> go]
    BY DEF GoCalling, q, t, c
  <2> QED
    BY <1>1, <1>4, <1>6, <2>1, <2>2
<1>8. ~Halts(Last(go))
  BY <1>2 DEF Halts, Lua
<1>9. q.status = "ok" /\ q.nny = th[t].nny
  BY <1>1, <1>2, <1>4, <1>5 DEF SameRest
<1> HIDE DEF n
<1>10. q = PushFrame(Calling(th[Running]), op, FALSE)
  BY DEF q, c, t
<1>11. Last(q.ci).op = op
  <2>1. Top(n) = Last(q.ci)
    BY <1>1, <1>4, <1>5 DEF Top
  <2> QED
    BY <1>4, <2>1 DEF Does
<1> DEFINE o == GoCalling(op)
<1>12. Body(o, F) /\ Lua(o.go) /\ o.go = go /\ o.th = [th EXCEPT ![t] = q] /\ o.th[t] = q /\ Does(o, op)
  BY <1>1, <1>4, <1>5, <1>6, <1>7
<1>13. q.ci # <<>> /\ q \in ThreadRecord
  BY <1>4, <1>5
<1> HIDE DEF o
<1>14. o.go # <<>> /\ Last(o.go).t = t /\ ~Halts(Last(o.go))
  BY <1>1, <1>2, <1>8, <1>12
<1> QED
  BY ONLY <1>9, <1>10, <1>11, <1>12, <1>13, <1>14 DEF t, o

\* A call by a Go function, with a continuation or without.
LEMMA CallGoInv ==
  ASSUME Inv, NEW continuation \in BOOLEAN, CallGo(continuation)
  PROVE  Inv'
<1>1. PICK F : Good(Machine, F)
  BY DEF Inv
<1> DEFINE t == Running
           ny == ~continuation \/ th[t].nny > 0
           op == IF ny THEN "plain" ELSE "callk"
           use == IF continuation THEN "callk" ELSE "plain"
           f == PushFrame(Calling(th[t]), op, FALSE)
           m == GoCalling(op)
<1>2. LuaRuns(use) /\ th' = [th EXCEPT ![t] = Called(f, ny)] /\ go' = Append(go, [k |-> "call", t |-> t, ny |-> ny])
  BY DEF CallGo
<1>3. th \in [Threads -> ThreadRecord] /\ th[t].nny \in Nat
  BY <1>1, <1>2, LuaParts
<1>4. ny \in BOOLEAN
  BY <1>3
<1>5. op \in Pushes /\ op # "pcall" /\ op \notin {"run", "protect"} /\ (op = "plain" => ny)
  BY DEF Pushes
<1> HIDE DEF op, ny, use
<1>6. /\ Body(m, F) /\ m.go = go /\ m.th = [th EXCEPT ![t] = f] /\ m.th[t] = f /\ Last(f.ci).op = op /\ f.status = "ok"
      /\ m.go # <<>> /\ Last(m.go).t = t /\ ~Halts(Last(m.go))
  BY <1>1, <1>2, <1>5, GoCallingParts
<1> HIDE DEF m, f
<1>7. th' = [m.th EXCEPT ![t] = Called(m.th[t], ny)] /\ go' = Append(m.go, CallOf(t, ny))
  BY <1>2, <1>3, <1>6, SetTwice DEF CallOf
<1> HIDE DEF t
<1>8. /\ t = Last(m.go).t /\ m.th[t].status = "ok" /\ (Halts(Last(m.go)) => ny)
      /\ m.th[t].ci # <<>> => /\ Last(m.th[t].ci).op # "run"
                              /\ Last(m.th[t].ci).op = "plain" => ny
                              /\ Last(m.th[t].ci).op = "protect" => Protects(Last(m.go))
  BY <1>5, <1>6
<1> QED
  BY ONLY <1>4, <1>6, <1>7, <1>8, CallInv

\* A frame just pushed takes another operation.
LEMMA MarkPushed ==
  ASSUME NEW r \in ThreadRecord, NEW op \in LuaOps \union GoOps, NEW other \in LuaOps \union GoOps, NEW fresh \in BOOLEAN
  PROVE  Mark(PushFrame(r, op, fresh), other, 0) = PushFrame(r, other, fresh)
<1> DEFINE p == PushFrame(r, op, fresh)
           q == PushFrame(r, other, fresh)
           m == Mark(p, other, 0)
           f == [op |-> op, pos |-> Height(r) + 1, fresh |-> fresh, level |-> 0]
           h == [op |-> other, pos |-> Height(r) + 1, fresh |-> fresh, level |-> 0]
<1>1. p \in ThreadRecord /\ p.ci = Append(r.ci, f) /\ p.ci # <<>> /\ Last(p.ci) = f /\ SameRest(p, r) /\ f \in CallInfo
  BY PushIs
<1>2. q \in ThreadRecord /\ q.ci = Append(r.ci, h) /\ Last(q.ci) = h /\ SameRest(q, r) /\ h \in CallInfo
  BY PushIs
<1> HIDE DEF p, q
<1>3. /\ m \in ThreadRecord /\ Len(m.ci) = Len(p.ci) /\ m.ci # <<>>
      /\ \A i \in 1 .. Len(p.ci) - 1 : m.ci[i] = p.ci[i]
      /\ Last(m.ci) = m.ci[Len(p.ci)] /\ Last(m.ci).op = other /\ Last(m.ci).level = 0
      /\ Last(m.ci).pos = p.ci[Len(p.ci)].pos /\ Last(m.ci).fresh = p.ci[Len(p.ci)].fresh
      /\ SameRest(m, p)
  BY <1>1, MarkIs
<1> HIDE DEF m
<1> DEFINE n == Len(r.ci)
<1>4. r.ci \in Seq(CallInfo) /\ m.ci \in Seq(CallInfo) /\ q.ci \in Seq(CallInfo) /\ n \in Nat
  BY <1>2, <1>3, ThreadParts
<1> HIDE DEF f, h
<1>5. Len(p.ci) = n + 1 /\ (\A i \in 1 .. n : p.ci[i] = r.ci[i]) /\ p.ci[n + 1] = f
  BY <1>1, <1>4, OneMore
<1>6. Len(q.ci) = n + 1 /\ (\A i \in 1 .. n : q.ci[i] = r.ci[i]) /\ q.ci[n + 1] = h
  BY <1>2, <1>4, OneMore
<1> HIDE DEF n
<1>7. Last(m.ci) = h
  <2>1. Last(m.ci) \in CallInfo
    BY <1>3, <1>4, LastOne
  <2>2. Last(m.ci).pos = f.pos /\ Last(m.ci).fresh = f.fresh
    BY <1>3, <1>5
  <2> QED
    BY <1>3, <2>1, <2>2 DEF CallInfo, f, h
<1>8. m.ci = q.ci
  <2>1. n + 1 - 1 = n /\ \A i \in 1 .. n + 1 : i \in 1 .. n \/ i = n + 1
    BY <1>4
  <2>2. \A i \in 1 .. n + 1 : m.ci[i] = q.ci[i]
    BY <1>3, <1>5, <1>6, <1>7, <2>1
  <2>3. Len(m.ci) = n + 1 /\ Len(q.ci) = n + 1
    BY <1>3, <1>5, <1>6
  <2> DEFINE x == m.ci
             y == q.ci
  <2>4. x \in Seq(CallInfo) /\ y \in Seq(CallInfo) /\ Len(x) = Len(y) /\ \A i \in 1 .. Len(x) : x[i] = y[i]
    BY <1>4, <2>2, <2>3
  <2> HIDE DEF x, y
  <2>5. x = y
    BY <2>4, SeqEqual
  <2> QED
    BY <2>5 DEF x, y
<1>9. m = q
  <2>1. \A x \in ThreadRecord : x = [status |-> x.status, death |-> x.death, fresh |-> x.fresh, ci |-> x.ci, tbc |-> x.tbc, nny |-> x.nny]
    BY DEF ThreadRecord
  <2>2. m = [status |-> m.status, death |-> m.death, fresh |-> m.fresh, ci |-> m.ci, tbc |-> m.tbc, nny |-> m.nny]
    BY <1>3, <2>1
  <2>3. q = [status |-> q.status, death |-> q.death, fresh |-> q.fresh, ci |-> q.ci, tbc |-> q.tbc, nny |-> q.nny]
    BY <1>2, <2>1
  <2>4. m.status = q.status /\ m.death = q.death /\ m.fresh = q.fresh /\ m.ci = q.ci /\ m.tbc = q.tbc /\ m.nny = q.nny
    BY <1>1, <1>2, <1>3, <1>8 DEF SameRest
  <2> QED
    BY <2>2, <2>3, <2>4
<1> QED
  BY <1>9 DEF m, p, q

\* Two elements more.
LEMMA TwoMore ==
  ASSUME NEW S, NEW s \in Seq(S), NEW a \in S, NEW b \in S
  PROVE  s \o <<a, b>> = Append(Append(s, a), b)
<1>1. Append(s, a) = s \o <<a>> /\ Append(s, a) \in Seq(S)
  BY AppendIsConcat
<1>2. Append(Append(s, a), b) = (s \o <<a>>) \o <<b>>
  BY <1>1, AppendIsConcat
<1>3. (s \o <<a>>) \o <<b>> = s \o (<<a>> \o <<b>>)
  <2>1. <<a>> \in Seq(S) /\ <<b>> \in Seq(S)
    OBVIOUS
  <2> QED
    BY <2>1, ConcatAssociative
<1>4. <<a>> \o <<b>> = <<a, b>>
  <2>1. <<a>> \in Seq(S)
    OBVIOUS
  <2> QED
    BY <2>1, TwoOnes, AppendIsConcat
<1> QED
  BY <1>2, <1>3, <1>4

\* pcall.
LEMMA CallPcallInv ==
  ASSUME Inv, CallPcall
  PROVE  Inv'
<1>1. PICK F : Good(Machine, F)
  BY DEF Inv
<1> DEFINE t == Running
           c == Calling(th[t])
           r == PushFrame(c, "pcall", FALSE)
           s == PushFrame(c, "protect", FALSE)
<1>2. LuaRuns("pcall")
  BY DEF CallPcall
<1>3. th \in [Threads -> ThreadRecord] /\ th[t].nny \in Nat /\ go # <<>>
  BY <1>1, <1>2, LuaParts
<1>4. c \in ThreadRecord /\ c.nny = th[t].nny
  BY <1>1, <1>2, CallingParts DEF SameRest
<1>5. "pcall" \in LuaOps \union GoOps /\ "protect" \in LuaOps \union GoOps /\ "pcall" \in Pushes /\ "protect" \in Pushes /\ "protect" # "pcall"
  BY DEF LuaOps, GoOps, Pushes
<1>6. r.nny = th[t].nny
  BY <1>4, <1>5, PushIs DEF SameRest
<1>7. CASE th[t].nny = 0
  <2> DEFINE m == GoCalling("pcall")
  <2>1. th' = [th EXCEPT ![t] = Called(r, FALSE)] /\ go' = Append(go, [k |-> "call", t |-> t, ny |-> FALSE])
    BY <1>6, <1>7 DEF CallPcall
  <2>2. /\ Body(m, F) /\ m.go = go /\ m.th = [th EXCEPT ![t] = r] /\ m.th[t] = r /\ Last(r.ci).op = "pcall" /\ r.status = "ok"
        /\ m.go # <<>> /\ Last(m.go).t = t /\ ~Halts(Last(m.go))
    BY <1>1, <1>2, <1>5, <1>7, GoCallingParts
  <2> HIDE DEF m, r
  <2>3. th' = [m.th EXCEPT ![t] = Called(m.th[t], FALSE)] /\ go' = Append(m.go, CallOf(t, FALSE))
    BY <1>3, <2>1, <2>2, SetTwice DEF CallOf
  <2> HIDE DEF t
  <2>4. /\ t = Last(m.go).t /\ m.th[t].status = "ok" /\ FALSE \in BOOLEAN
        /\ m.th[t].ci # <<>> => /\ Last(m.th[t].ci).op # "run"
                                /\ Last(m.th[t].ci).op = "plain" => FALSE
                                /\ Last(m.th[t].ci).op = "protect" => Protects(Last(m.go))
    BY <2>2
  <2> QED
    BY ONLY <2>2, <2>3, <2>4, CallInv
<1>8. CASE th[t].nny # 0
  <2> DEFINE m == GoCalling("protect")
             l == Last(s.ci).pos + 1
             e == [k |-> "protect", t |-> t, ci |-> s.ci, nny |-> s.nny, level |-> l]
             h == Append(go, e)
             n == [th |-> m.th, go |-> h]
  <2>1. Mark(r, "protect", 0) = s /\ Last(r.ci).pos = Last(s.ci).pos /\ r.nny = s.nny
    <3>1. Mark(r, "protect", 0) = s
      BY <1>4, <1>5, MarkPushed
    <3>2. Last(r.ci).pos = Height(c) + 1 /\ SameRest(r, c)
      <4> HIDE DEF c
      <4> DEFINE k == Height(c) + 1
      <4>1. Last(r.ci) = [op |-> "pcall", pos |-> k, fresh |-> FALSE, level |-> 0] /\ SameRest(r, c)
        BY <1>4, <1>5, PushIs
      <4> HIDE DEF k, r
      <4>2. Last(r.ci).pos = k /\ SameRest(r, c)
        BY <4>1
      <4> QED
        BY <4>2 DEF k
    <3>3. Last(s.ci).pos = Height(c) + 1 /\ SameRest(s, c)
      <4> HIDE DEF c
      <4> DEFINE k == Height(c) + 1
      <4>1. Last(s.ci) = [op |-> "protect", pos |-> k, fresh |-> FALSE, level |-> 0] /\ SameRest(s, c)
        BY <1>4, <1>5, PushIs
      <4> HIDE DEF k, s
      <4>2. Last(s.ci).pos = k /\ SameRest(s, c)
        BY <4>1
      <4> QED
        BY <4>2 DEF k
    <3> HIDE DEF c, r, s
    <3> QED
      BY <3>1, <3>2, <3>3 DEF SameRest
  <2>2. th' = [th EXCEPT ![t] = Called(s, TRUE)] /\ go' = go \o <<e, CallOf(t, TRUE)>>
    BY <1>6, <1>8, <2>1 DEF CallPcall, CallOf
  <2>3. /\ Body(m, F) /\ Lua(m.go) /\ m.go = go /\ m.th = [th EXCEPT ![t] = s] /\ m.th[t] = s /\ Does(m, "protect")
        /\ Last(s.ci).op = "protect" /\ s.status = "ok" /\ m.go # <<>> /\ Last(m.go).t = t
    BY <1>1, <1>2, <1>5, GoCallingParts
  <2> HIDE DEF m, s, t
  <2>4. (\E E : Body(n, E)) /\ h # <<>> /\ Last(h) = e
    <3> DEFINE x == [k |-> "protect", t |-> t, ci |-> m.th[t].ci, nny |-> m.th[t].nny, level |-> l]
    <3>1. Top(m) = Last(s.ci) /\ Top(m).op = "protect" /\ l = Top(m).pos + 1
      BY <2>3 DEF Top
    <3> HIDE DEF l
    <3>2. Body(m, F) /\ Lua(m.go) /\ t = Last(m.go).t /\ Top(m).op = "protect" /\ l = Top(m).pos + 1
      BY ONLY <2>3, <3>1
    <3>3. /\ \E E : Body([th |-> m.th, go |-> Append(m.go, x)], E)
          /\ Append(m.go, x) # <<>> /\ Last(Append(m.go, x)) = x
          /\ m.th[t].status = "ok" /\ (m.go = <<>> => m.th[t].ci = <<>> /\ m.th[t].nny = 1)
      BY ONLY <3>2, ProtectBody
    <3> QED
      BY <2>3, <3>3
  <2>5. go' = Append(h, CallOf(t, TRUE))
    <3> DEFINE a == CallOf(t, TRUE)
               S == Activation \union {e, a}
    <3>1. go \in Seq(Activation)
      BY <2>3, BodyParts
    <3> HIDE DEF e, a
    <3>2. go \in Seq(S) /\ e \in S /\ a \in S
      BY <3>1
    <3> HIDE DEF S
    <3>3. go \o <<e, a>> = Append(Append(go, e), a)
      BY <3>2, TwoMore
    <3> QED
      BY <2>2, <3>3 DEF a
  <2>6. PICK E : Body(n, E)
    BY <2>4
  <2>7. Protects(e) /\ e.t = t
    BY DEF Protects
  <2>8. n.th = m.th /\ n.go = h
    OBVIOUS
  <2> HIDE DEF n, h, e
  <2>9. th' = [n.th EXCEPT ![t] = Called(n.th[t], TRUE)]
    BY <1>3, <2>2, <2>3, <2>8, SetTwice, ZenonT(60)
  <2>10. /\ Body(n, E) /\ n.go # <<>> /\ t = Last(n.go).t /\ n.th[t].status = "ok" /\ TRUE \in BOOLEAN
         /\ n.th[t].ci # <<>> => /\ Last(n.th[t].ci).op # "run"
                                 /\ Last(n.th[t].ci).op = "protect" => Protects(Last(n.go))
    BY <2>3, <2>4, <2>6, <2>7, <2>8
  <2>11. go' = Append(n.go, CallOf(t, TRUE))
    BY <2>5, <2>8
  <2> QED
    BY ONLY <2>9, <2>10, <2>11, CallInv
<1> QED
  BY <1>7, <1>8

\* One variable more, above the others and in the function on top.
LEMMA MoreListed ==
  ASSUME NEW r \in ThreadRecord, r.ci # <<>>, Last(r.ci).op \in LuaOps, NEW t, NEW g, Listed(r, t, g),
         NEW x \in [level : Nat \ {0}, base : Nat \ {0}, id : Variables], x.level = Height(r) + 1, x.base = Last(r.ci).pos,
         NEW q \in ThreadRecord, q.ci = r.ci, q.death = r.death, q.tbc = Append(r.tbc, x)
  PROVE  Listed(q, t, g)
<1> DEFINE S == [level : Nat \ {0}, base : Nat \ {0}, id : Variables]
           b == r.tbc
           n == Len(b)
<1>1. b \in Seq(S) /\ n \in Nat /\ DOMAIN b = 1 .. n /\ r.ci \in Seq(CallInfo)
  BY ThreadParts, AllOnes
<1>2. \A i \in DOMAIN b : b[i].level \in Nat
  BY LevelsAre
<1>3. Last(r.ci) \in CallInfo /\ Last(r.ci) = r.ci[Len(r.ci)] /\ Len(r.ci) \in DOMAIN r.ci
  BY <1>1, LastOne
<1>4. Height(r) \in Nat /\ Last(r.ci).pos <= Height(r) /\ (b # <<>> => Last(b).level <= Height(r))
  BY HeightIs
<1>5. \A i \in 1 .. n : b[i].level < x.level
  <2> SUFFICES ASSUME NEW i \in 1 .. n PROVE b[i].level < x.level
    OBVIOUS
  <2>1. b # <<>> /\ Last(b) = b[n] /\ n \in 1 .. n
    BY <1>1 DEF Last
  <2> DEFINE k == b[i].level
             l == b[n].level
             o == Height(r)
  <2>2. i = n \/ i < n
    BY <1>1
  <2>3. i < n => k < l
    BY <1>1, <2>1 DEF Listed
  <2>4. k \in Nat /\ l \in Nat /\ o \in Nat /\ l <= o /\ x.level = o + 1
    BY <1>1, <1>2, <1>4, <2>1
  <2>5. i = n => k = l
    OBVIOUS
  <2> HIDE DEF k, l, o, n
  <2>6. k <= o
    BY <2>2, <2>3, <2>4, <2>5
  <2>7. k < o + 1
    BY <2>4, <2>6
  <2>8. k < x.level
    BY <2>4, <2>7
  <2> QED
    BY <2>8 DEF k
<1>6. x.base < x.level
  <2>1. Last(r.ci).pos \in Nat
    BY <1>3 DEF CallInfo
  <2> QED
    BY <1>4, <2>1
<1> HIDE DEF S
<1> DEFINE d == Append(b, x)
<1>7. Len(d) = n + 1 /\ DOMAIN d = 1 .. n + 1 /\ (\A i \in 1 .. n : d[i] = b[i]) /\ d[n + 1] = x
  <2> HIDE DEF b, n
  <2>1. x \in S
    BY DEF S
  <2>2. Len(d) = Len(b) + 1 /\ DOMAIN d = 1 .. Len(b) + 1 /\ (\A i \in 1 .. Len(b) : d[i] = b[i]) /\ d[Len(b) + 1] = x
    BY <1>1, <2>1, OneMore
  <2> QED
    BY <2>2 DEF n
<1>8. \A i \in 1 .. n : b[i].base < b[i].level /\ Covered(r, t, g, b[i])
  BY <1>1 DEF Listed
<1>9. \A i \in 1 .. n : Covered(q, t, g, b[i])
  BY <1>8 DEF Covered
<1>10. Covered(q, t, g, x)
  <2>1. Len(r.ci) \in DOMAIN q.ci /\ q.ci[Len(r.ci)].op \in LuaOps /\ q.ci[Len(r.ci)].pos = x.base
    BY <1>3
  <2> QED
    BY <2>1 DEF Covered
<1>11. \A i, j \in 1 .. n : i < j => b[i].level < b[j].level
  BY <1>1 DEF Listed
<1> HIDE DEF b, n
<1>12. q.tbc = d
  BY DEF b
<1> HIDE DEF d
<1>13. \A i \in 1 .. n + 1 : i \in 1 .. n \/ i = n + 1
  BY <1>1
<1>14. \A i, j \in 1 .. n + 1 : i < j => i \in 1 .. n /\ (j \in 1 .. n \/ j = n + 1)
  BY <1>1
<1>15. \A i, j \in 1 .. n + 1 : i < j => d[i].level < d[j].level
  BY <1>5, <1>7, <1>11, <1>14
<1>16. \A i \in 1 .. n + 1 : d[i].base < d[i].level /\ Covered(q, t, g, d[i])
  BY <1>6, <1>7, <1>8, <1>9, <1>10, <1>13
<1> QED
  BY <1>7, <1>12, <1>15, <1>16 DEF Listed

\* A local variable to be closed.
LEMMA DeclareInv ==
  ASSUME Inv, NEW v \in Variables, Declare(v)
  PROVE  Inv'
<1>1. PICK F : Good(Machine, F)
  BY DEF Inv
<1> DEFINE t == Running
           r == th[t]
           x == [level |-> Height(r) + 1, base |-> Frame.pos, id |-> v]
           q == [r EXCEPT !.tbc = Append(r.tbc, x)]
           n == [th |-> [th EXCEPT ![t] = q], go |-> go]
<1>2. LuaRuns("declare") /\ th' = [th EXCEPT ![t].tbc = Append(@, x)] /\ go' = go
  BY DEF Declare
<1>3. /\ Body(Machine, F) /\ Machine.th = th /\ Machine.go = go /\ Lua(go) /\ Top(Machine) = Frame
      /\ Top(Machine).op = "run" /\ Top(Machine).op \in LuaOps /\ Running = Last(go).t /\ Running \in Threads
      /\ th \in [Threads -> ThreadRecord] /\ go # <<>> /\ th[Running] \in ThreadRecord
      /\ th[Running].ci # <<>> /\ Frame \in CallInfo /\ Frame = Last(th[Running].ci)
  BY <1>1, <1>2, LuaParts
<1> HIDE DEF Machine
<1>4. FramesOk(r.ci) /\ Listed(r, t, go) /\ Floors(r.ci, go, F, t)
  <2>1. Machine.go # <<>> /\ t = Last(Machine.go).t
    BY ONLY <1>3, SMTT(60)
  <2>2. LET s == Last(Machine.go).t
            w == Machine.th[s]
        IN FramesOk(w.ci) /\ Listed(w, s, Machine.go) /\ Floors(w.ci, Machine.go, F, s)
    BY <1>3, <2>1, RunningParts
  <2> QED
    BY <1>3, <2>2
<1>5. th' = [th EXCEPT ![t] = q]
  <2> HIDE DEF t, x
  <2> QED
    BY <1>2
<1>6. x \in [level : Nat \ {0}, base : Nat \ {0}, id : Variables] /\ x.level = Height(r) + 1 /\ x.base = Frame.pos
  <2>1. Height(r) \in Nat
    BY <1>3, HeightIs
  <2>2. Height(r) + 1 \in Nat \ {0}
    BY <2>1
  <2>3. Frame.pos \in Nat \ {0}
    BY <1>3 DEF CallInfo
  <2> DEFINE k == Height(r) + 1
  <2> HIDE DEF k
  <2>4. k \in Nat \ {0}
    BY <2>2 DEF k
  <2>5. [level |-> k, base |-> Frame.pos, id |-> v] \in [level : Nat \ {0}, base : Nat \ {0}, id : Variables]
    BY <2>3, <2>4
  <2> QED
    BY <2>5 DEF k
<1> HIDE DEF x
<1>7. q \in ThreadRecord /\ q.tbc = Append(r.tbc, x) /\ q.ci = r.ci /\ q.status = r.status /\ q.death = r.death /\ q.fresh = r.fresh /\ q.nny = r.nny
  <2>1. r \in ThreadRecord
    BY <1>3
  <2> DEFINE S == [level : Nat \ {0}, base : Nat \ {0}, id : Variables]
             b == Append(r.tbc, x)
  <2>2. r.tbc \in Seq(S) /\ x \in S
    BY <1>6, <2>1, ThreadParts
  <2>3. b \in Seq(S)
    <3> HIDE DEF S
    <3> QED
      BY <2>2
  <2> HIDE DEF b, r
  <2> QED
    BY <2>1, <2>3 DEF ThreadRecord, b
<1> HIDE DEF q
<1>8. Listed(q, t, go)
  <2>1. r.ci # <<>> /\ Last(r.ci).op \in LuaOps /\ x.base = Last(r.ci).pos
    BY <1>3, <1>6
  <2>2. r \in ThreadRecord
    BY <1>3
  <2> HIDE DEF r, t
  <2> QED
    BY ONLY <1>4, <1>6, <1>7, <2>1, <2>2, MoreListed
<1>9. Body(n, F)
  <2> DEFINE m == Machine
  <2>1. /\ Body(m, F) /\ Lua(m.go) /\ q \in ThreadRecord /\ t = Last(m.go).t
        /\ q.status = m.th[t].status /\ q.death = m.th[t].death /\ q.fresh = m.th[t].fresh /\ q.nny = m.th[t].nny
        /\ q.ci # <<>> /\ FramesOk(q.ci) /\ Floors(q.ci, m.go, F, t) /\ Listed(q, t, m.go)
    BY <1>3, <1>4, <1>7, <1>8
  <2> HIDE DEF t
  <2>2. Body([th |-> [m.th EXCEPT ![t] = q], go |-> m.go], F)
    BY ONLY <2>1, RunningStep
  <2> QED
    BY <1>3, <2>2
<1>10. Lua(n.go) /\ Top(n).op = "run"
  <2>1. n.th[t] = q /\ Last(n.go).t = t
    BY <1>3
  <2>2. Top(n) = Last(q.ci)
    BY <2>1 DEF Top
  <2> QED
    BY <1>3, <1>7, <2>2
<1>11. th' = n.th /\ go' = n.go
  BY <1>2, <1>5
<1> HIDE DEF n
<1>12. Good(n, F)
  BY <1>9, <1>10, GoodLua
<1> QED
  BY <1>11, <1>12, NextInv

\* A yield of Lua code.
LEMMA YieldInv ==
  ASSUME Inv, Yield
  PROVE  Inv'
<1>1. PICK F : Good(Machine, F)
  BY DEF Inv
<1> DEFINE t == Running
           m == Machine
           n == Throw("yield", [m EXCEPT !.th[t] = [Calling(m.th[t]) EXCEPT !.status = "yield"]])
<1>2. LuaRuns("yield") /\ th[t].nny = 0 /\ Become(n)
  BY DEF Yield
<1>3. Body(m, F) /\ Lua(m.go) /\ Top(m).op = "run" /\ t = Last(m.go).t /\ m.th[t].nny = 0
  BY <1>1, <1>2, LuaParts
<1>4. \E E : Good(n, E)
  <2> HIDE DEF m, t
  <2> QED
    BY ONLY <1>3, YieldBody
<1> HIDE DEF n
<1> QED
  BY <1>2, <1>4, NextInv DEF Become

\* A coroutine that is not in progress.
LEMMA NotOn ==
  ASSUME NEW F, Body(Machine, F), Lua(go), NEW co \in Coroutines,
         \/ th[co].status \in {"yield", "error"}
         \/ th[co].fresh
         \/ Running # co /\ th[co].ci = <<>>
  PROVE  ~On(go, co) /\ th[co] \in ThreadRecord /\ FramesOk(th[co].ci) /\ Listed(th[co], co, go) /\ OffGo(th[co], co) /\ co # Main
<1> DEFINE r == th[co]
<1>1. r \in ThreadRecord /\ ThreadOk(r, co, go, F)
  <2>1. Machine.th = th /\ Machine.go = go
    BY DEF Machine
  <2>2. co \in Threads
    BY DEF Threads
  <2> HIDE DEF Machine
  <2> QED
    BY <2>1, <2>2, BodyParts
<1> HIDE DEF r
<1>2. go # <<>> /\ ~Ends(Last(go))
  BY DEF Lua, Ends
<1>3. ASSUME On(go, co) PROVE FALSE
  <2>1. OnGo(r, co, go, F)
    BY <1>1, <1>3 DEF ThreadOk
  <2>2. r.status # "yield" /\ r.status # "error" /\ ~r.fresh
    BY <1>2, <2>1 DEF OnGo
  <2>3. ~Runs(go, co) => Waits(r.ci)
    BY <2>1 DEF OnGo
  <2>4. Running # co => ~Runs(go, co)
    BY DEF Runs, Running
  <2> QED
    BY <2>2, <2>3, <2>4 DEF Waits, r
<1>4. co # Main
  BY ThreadsAssumption
<1> QED
  BY <1>1, <1>3, <1>4 DEF ThreadOk, r

\* The frame that runs waits for CloseThread.
LEMMA CloseCallInv ==
  ASSUME Inv, NEW use, LuaRuns(use), NEW co \in Coroutines, NEW then \in {"close", "wrap"},
         \/ th[co].status \in {"yield", "error"}
         \/ th[co].fresh
         \/ Running # co /\ th[co].ci = <<>>,
         Become(CloseThread([Machine EXCEPT !.th[Running] = Calling(@)], co, then))
  PROVE  Inv'
<1>1. PICK F : Good(Machine, F)
  BY DEF Inv
<1> DEFINE m == CallingMachine
           n == CloseThread(m, co, then)
<1>2. Body(m, F) /\ Lua(m.go) /\ m.go = go /\ Top(m).op = "call"
  BY <1>1, CallingParts
<1>3. Body(Machine, F) /\ Lua(go)
  BY <1>1, LuaParts
<1>4. ~On(m.go, co)
  BY <1>2, <1>3, NotOn
<1>5. [Machine EXCEPT !.th[Running] = Calling(@)] = m
  BY DEF Machine, CallingMachine
<1> HIDE DEF m
<1>6. \E E : Good(n, E)
  BY <1>2, <1>4, CloseBegin
<1>7. Become(n)
  BY <1>5
<1> HIDE DEF n
<1> QED
  BY <1>6, <1>7, NextInv DEF Become

\* wrap, of a dead coroutine, keeps the invariant.
LEMMA WrapDeadInv ==
  ASSUME Inv, NEW co \in Coroutines, WrapDead(co)
  PROVE  Inv'
<1>1. LuaRuns("resume") /\ th[co].status = "error" /\ Become(CloseThread([Machine EXCEPT !.th[Running] = Calling(@)], co, "wrap"))
  BY DEF WrapDead
<1>2. "wrap" \in {"close", "wrap"}
  OBVIOUS
<1> QED
  BY <1>1, <1>2, CloseCallInv

\* coroutine.close keeps the invariant.
LEMMA CloseCoroutineInv ==
  ASSUME Inv, NEW co \in Coroutines, CloseCoroutine(co)
  PROVE  Inv'
<1>1. /\ LuaRuns("close") /\ Status(co) \in {"dead", "suspended"}
      /\ Become(CloseThread([Machine EXCEPT !.th[Running] = Calling(@)], co, "close"))
  BY DEF CloseCoroutine
<1>2. PICK F : Good(Machine, F)
  BY DEF Inv
<1>3. go # <<>> /\ th \in [Threads -> ThreadRecord]
  BY <1>1, <1>2, LuaParts
<1>4. co \in Threads
  BY DEF Threads
<1>5. th[co].status \in {"ok", "yield", "error"}
  BY <1>3, <1>4 DEF ThreadRecord
<1>6. Running # co
  BY <1>1, <1>3 DEF Status
<1>7. th[co].status = "ok" => th[co].ci = <<>>
  BY <1>1, <1>6 DEF Status
<1>8. "close" \in {"close", "wrap"}
  OBVIOUS
<1> QED
  BY <1>1, <1>5, <1>6, <1>7, <1>8, CloseCallInv

\* A coroutine closes itself, outside every __close that a pcall runs.
LEMMA CloseRunningInv ==
  ASSUME "closeInPcall" \notin Uses, Inv, CloseRunning
  PROVE  Inv'
<1>1. PICK F : Good(Machine, F)
  BY DEF Inv
<1> DEFINE co == Running
           m == Machine
           n == CloseThread(m, co, "self")
<1>2. LuaRuns("closeSelf") /\ co # Main /\ (Recovered(co) => "closeRecovered" \in Uses) /\ ~PcallCloses(co) /\ Become(n)
  BY DEF CloseRunning
<1>3. Body(m, F) /\ Lua(m.go) /\ m.go = go /\ co = Last(m.go).t
  BY <1>1, <1>2, LuaParts
<1>4. \A i \in DOMAIN m.go : m.go[i].t = co =>
        /\ ~(m.go[i].k = "closing" /\ m.go[i].then = "pcall")
        /\ m.go[i].k = "resume" /\ m.go[i].loop => "closeRecovered" \in Uses
  BY <1>2, <1>3 DEF Recovered, PcallCloses
<1>5. \E E : Good(n, E)
  <2> HIDE DEF m, co
  <2> QED
    BY <1>2, <1>3, <1>4, CloseSelf
<1>6. Become(n)
  BY <1>2
<1> HIDE DEF n
<1> QED
  BY <1>5, <1>6, NextInv DEF Become

\* Resume.
LEMMA ResumedIs ==
  ASSUME NEW r \in ThreadRecord, FramesOk(r.ci), NEW t, NEW g, NEW h, Listed(r, t, g), \A j \in DOMAIN g : g[j].t # t,
         OffGo(r, t), r.status = "yield" \/ (r.status = "ok" /\ r.ci = <<>> /\ r.fresh)
  PROVE  LET q == Resumed(r) IN
         /\ q \in ThreadRecord /\ q.status = "ok" /\ ~q.fresh /\ ~q.death /\ q.nny = 0 /\ q.tbc = r.tbc
         /\ FramesOk(q.ci) /\ Settled(q.ci) /\ Listed(q, t, h) /\ q.ci # <<>> /\ Last(q.ci).op = "run"
<1> DEFINE q == Resumed(r)
           p == IF r.fresh THEN PushFrame(r, "run", TRUE) ELSE Continued(r)
<1>1. ~r.death
  BY DEF OffGo
<1>2. r.ci \in Seq(CallInfo)
  BY ThreadParts
<1>3. /\ p \in ThreadRecord /\ SameRest(p, r) /\ FramesOk(p.ci) /\ Settled(p.ci) /\ p.ci # <<>> /\ Last(p.ci).op = "run"
      /\ \A i \in DOMAIN r.ci : i \in DOMAIN p.ci /\ p.ci[i].pos = r.ci[i].pos
                                /\ (r.ci[i].op \in LuaOps => p.ci[i].op \in LuaOps)
                                /\ (r.ci[i].op = "error" => p.ci[i].op = "error" /\ p.ci[i].level = r.ci[i].level)
  <2>1. CASE r.fresh
    <3> DEFINE f == [op |-> "run", pos |-> Height(r) + 1, fresh |-> TRUE, level |-> 0]
    <3>1. r.ci = <<>> /\ p = PushFrame(r, "run", TRUE)
      BY <2>1 DEF OffGo
    <3>2. f \in CallInfo /\ p \in ThreadRecord /\ p.ci = Append(r.ci, f) /\ p.ci # <<>> /\ Last(p.ci) = f /\ SameRest(p, r)
      <4>1. "run" \in LuaOps \union GoOps /\ TRUE \in BOOLEAN
        BY DEF LuaOps
      <4> HIDE DEF p
      <4> DEFINE w == PushFrame(r, "run", TRUE)
      <4>2. f \in CallInfo /\ w \in ThreadRecord /\ w.ci = Append(r.ci, f) /\ w.ci # <<>> /\ Last(w.ci) = f /\ SameRest(w, r)
        BY <4>1, PushIs
      <4> HIDE DEF w, f
      <4>3. p = w
        BY <3>1 DEF w
      <4> QED
        BY <4>2, <4>3
    <3>3. f.op = "run" /\ f.fresh = TRUE
      <4> DEFINE k == Height(r) + 1
      <4> HIDE DEF k
      <4>1. [op |-> "run", pos |-> k, fresh |-> TRUE, level |-> 0].op = "run" /\ [op |-> "run", pos |-> k, fresh |-> TRUE, level |-> 0].fresh = TRUE
        OBVIOUS
      <4> QED
        BY <4>1 DEF k
    <3> HIDE DEF f, p
    <3>4. FramesOk(Append(r.ci, f))
      <4>1. /\ r.ci # <<>> => Last(r.ci).op # "run" /\ Last(r.ci).pos < f.pos
            /\ f.op \notin {"return", "error"} /\ (f.op \in GoOps => ~f.fresh) /\ (~f.fresh => Waits(r.ci))
            /\ (f.op = "pcall" => Settled(r.ci))
        BY <3>1, <3>3 DEF GoOps
      <4> QED
        BY <1>2, <3>2, <4>1, FramesPush
    <3>5. Len(p.ci) = Len(r.ci) + 1 /\ DOMAIN p.ci = 1 .. Len(r.ci) + 1 /\ p.ci[Len(r.ci) + 1] = f /\ Len(r.ci) = 0
      <4> DEFINE c == r.ci
      <4>1. c \in Seq(CallInfo) /\ f \in CallInfo /\ p.ci = Append(c, f) /\ Len(c) = 0
        BY <1>2, <3>1, <3>2
      <4> HIDE DEF c
      <4>2. Len(p.ci) = Len(c) + 1 /\ DOMAIN p.ci = 1 .. Len(c) + 1 /\ p.ci[Len(c) + 1] = f
        BY <4>1, OneMore
      <4> QED
        BY <4>1, <4>2 DEF c
    <3>6. Settled(p.ci)
      <4>1. DOMAIN p.ci = 1 .. 0 + 1 /\ p.ci[0 + 1] = f
        BY <3>5
      <4>2. \A i \in 1 .. 0 + 1 : i = 0 + 1
        OBVIOUS
      <4> QED
        BY <3>3, <4>1, <4>2 DEF Settled
    <3>7. \A i \in DOMAIN r.ci : FALSE
      BY <3>1
    <3> QED
      BY <3>2, <3>3, <3>4, <3>6, <3>7
  <2>2. CASE ~r.fresh
    <3>1. r.status = "yield" /\ Waits(r.ci) /\ Settled(r.ci)
      BY <2>2 DEF OffGo
    <3>2. r.ci # <<>> /\ Last(r.ci).op = "call"
      BY <3>1 DEF Waits
    <3>3. p = Mark(r, "run", 0)
      BY <2>2, <3>2 DEF Continued
    <3> HIDE DEF p
    <3> DEFINE n == Len(r.ci)
    <3>4. /\ p \in ThreadRecord /\ Len(p.ci) = n /\ p.ci # <<>> /\ \A i \in 1 .. n - 1 : p.ci[i] = r.ci[i]
          /\ Last(p.ci) = p.ci[n] /\ Last(p.ci).op = "run" /\ Last(p.ci).pos = r.ci[n].pos /\ Last(p.ci).fresh = r.ci[n].fresh
          /\ SameRest(p, r)
      <4> DEFINE op == "run"
      <4>1. op \in LuaOps \union GoOps /\ 0 \in Nat /\ p = Mark(r, op, 0) /\ r \in ThreadRecord
        BY <3>3 DEF LuaOps
      <4> HIDE DEF op
      <4>2. /\ p \in ThreadRecord /\ Len(p.ci) = Len(r.ci) /\ p.ci # <<>> /\ \A i \in 1 .. Len(r.ci) - 1 : p.ci[i] = r.ci[i]
            /\ Last(p.ci) = p.ci[Len(r.ci)] /\ Last(p.ci).op = op /\ Last(p.ci).pos = r.ci[Len(r.ci)].pos
            /\ Last(p.ci).fresh = r.ci[Len(r.ci)].fresh /\ SameRest(p, r)
        BY ONLY <3>2, <4>1, MarkIs
      <4> QED
        BY <4>2 DEF op
    <3>5. p.ci \in Seq(CallInfo) /\ DOMAIN p.ci = 1 .. n /\ DOMAIN r.ci = 1 .. n /\ n \in 1 .. n /\ Last(r.ci) = r.ci[n]
      <4>1. p.ci \in Seq(CallInfo)
        BY <3>4, ThreadParts
      <4>2. DOMAIN p.ci = 1 .. Len(p.ci) /\ DOMAIN r.ci = 1 .. Len(r.ci)
        BY <1>2, <4>1, AllOnes
      <4>3. n \in 1 .. n /\ Last(r.ci) = r.ci[n]
        BY <1>2, <3>2, LastOne
      <4> QED
        BY <3>4, <4>1, <4>2, <4>3
    <3>6. p.ci[n].op = "run" /\ p.ci[n].pos = r.ci[n].pos /\ p.ci[n].fresh = r.ci[n].fresh
      BY <3>4
    <3>7. FramesOk(p.ci)
      <4> DEFINE c == r.ci
                 d == p.ci
      <4>1. /\ c \in Seq(CallInfo) /\ FramesOk(c) /\ c # <<>> /\ d \in Seq(CallInfo) /\ Len(d) = Len(c)
            /\ \A i \in 1 .. Len(c) - 1 : d[i] = c[i]
            /\ d[Len(c)].pos = c[Len(c)].pos /\ d[Len(c)].fresh = c[Len(c)].fresh
            /\ d[Len(c)].op \in LuaOps /\ d[Len(c)].op # "return"
        BY <1>2, <3>2, <3>4, <3>5, <3>6 DEF LuaOps
      <4> HIDE DEF c, d
      <4>2. FramesOk(d)
        BY <4>1, FramesMark
      <4> QED
        BY <4>2 DEF d
    <3>8. \A i \in 1 .. n : i \in 1 .. n - 1 \/ i = n
      BY <3>5
    <3>9. Settled(p.ci)
      BY <3>1, <3>4, <3>5, <3>6, <3>8 DEF Settled
    <3>10. \A i \in DOMAIN r.ci : i \in DOMAIN p.ci /\ p.ci[i].pos = r.ci[i].pos
                                /\ (r.ci[i].op \in LuaOps => p.ci[i].op \in LuaOps)
                                /\ (r.ci[i].op = "error" => p.ci[i].op = "error" /\ p.ci[i].level = r.ci[i].level)
      BY ONLY <3>2, <3>4, <3>5, <3>6, <3>8 DEF LuaOps
    <3> QED
      BY <3>4, <3>7, <3>9, <3>10
  <2> QED
    BY <2>1, <2>2
<1>4. q = [p EXCEPT !.status = "ok", !.fresh = FALSE, !.nny = 0]
  BY DEF Resumed
<1> HIDE DEF p
<1>5. q \in ThreadRecord /\ q.status = "ok" /\ ~q.fresh /\ q.nny = 0 /\ q.ci = p.ci /\ q.tbc = p.tbc /\ q.death = p.death
  <2>1. \A v \in ThreadRecord : LET w == [v EXCEPT !.status = "ok", !.fresh = FALSE, !.nny = 0] IN
           w.status = "ok" /\ ~w.fresh /\ w.nny = 0 /\ w.ci = v.ci /\ w.tbc = v.tbc /\ w.death = v.death
    BY DEF ThreadRecord
  <2>2. \A v \in ThreadRecord : [v EXCEPT !.status = "ok", !.fresh = FALSE, !.nny = 0] \in ThreadRecord
    BY DEF ThreadRecord
  <2> HIDE DEF q
  <2> QED
    BY <1>3, <1>4, <2>1, <2>2
<1> HIDE DEF q
<1>6. q.tbc = r.tbc /\ ~q.death
  BY <1>1, <1>3, <1>5 DEF SameRest
<1>7. Listed(q, t, h)
  <2>1. \A i \in DOMAIN r.ci : i \in DOMAIN q.ci /\ q.ci[i].pos = r.ci[i].pos
                                /\ (r.ci[i].op \in LuaOps => q.ci[i].op \in LuaOps)
                                /\ (r.ci[i].op = "error" => q.ci[i].op = "error" /\ q.ci[i].level = r.ci[i].level)
    BY <1>3, <1>5
  <2> QED
    BY <1>1, <1>5, <1>6, <2>1, SameListed
<1> QED
  BY <1>3, <1>5, <1>6, <1>7 DEF q

\* Resume keeps the invariant.
LEMMA ResumeInv ==
  ASSUME Inv, NEW co \in Coroutines, NEW wrap \in BOOLEAN, Resume(co, wrap)
  PROVE  Inv'
<1>1. PICK F : Good(Machine, F)
  BY DEF Inv
<1> DEFINE t == Running
           r == th[co]
           q == Resumed(r)
           c == Calling(th[t])
           m == CallingMachine
           x == [k |-> "resume", t |-> co, nny |-> r.nny, loop |-> FALSE, wrap |-> wrap]
           h == Append(go, x)
           E == Append(F, 0)
           n == [th |-> [m.th EXCEPT ![co] = q], go |-> h]
<1>2. /\ LuaRuns("resume") /\ (r.status = "yield" \/ (r.status = "ok" /\ r.ci = <<>> /\ r.fresh))
      /\ th' = [th EXCEPT ![t] = c, ![co] = q] /\ go' = h
  BY DEF Resume
<1>3. Body(Machine, F) /\ Lua(go) /\ go # <<>> /\ t = Last(go).t
  BY <1>1, <1>2, LuaParts
<1>4. Body(m, F) /\ Lua(m.go) /\ m.go = go /\ m.th = [th EXCEPT ![t] = c] /\ Top(m).op = "call" /\ go # <<>>
  BY <1>1, <1>2, CallingParts
<1>5. ~On(go, co) /\ r \in ThreadRecord /\ FramesOk(r.ci) /\ Listed(r, co, go) /\ OffGo(r, co) /\ co # Main
  BY <1>2, <1>3, NotOn
<1>6. go \in Seq(Activation) /\ F \in Seq(Nat) /\ Len(F) = Len(go)
  BY <1>4, BodyParts
<1>7. \A j \in DOMAIN go : go[j].t # co
  BY <1>5 DEF On
<1>8. /\ q \in ThreadRecord /\ q.status = "ok" /\ ~q.fresh /\ ~q.death /\ q.nny = 0 /\ q.tbc = r.tbc
      /\ FramesOk(q.ci) /\ Settled(q.ci) /\ Listed(q, co, h) /\ q.ci # <<>> /\ Last(q.ci).op = "run"
  <2> DEFINE w == Resumed(r)
  <2> HIDE DEF r, h
  <2>1. /\ w \in ThreadRecord /\ w.status = "ok" /\ ~w.fresh /\ ~w.death /\ w.nny = 0 /\ w.tbc = r.tbc
        /\ FramesOk(w.ci) /\ Settled(w.ci) /\ Listed(w, co, h) /\ w.ci # <<>> /\ Last(w.ci).op = "run"
    BY <1>2, <1>5, <1>7, ResumedIs
  <2> QED
    BY <2>1
<1>9. x \in Activation /\ x.t = co /\ x.k = "resume"
  <2>1. r.nny \in Nat
    BY <1>5, ThreadParts
  <2> QED
    BY <2>1 DEF Activation
<1> HIDE DEF x, q, r, m, c
<1>10. h \in Seq(Activation) /\ Len(h) = Len(go) + 1 /\ h[Len(h)] = x /\ Last(h) = x /\ h # <<>> /\ Len(h) \in 1 .. Len(h) /\ Len(h) \in DOMAIN h
  <2>1. h \in Seq(Activation) /\ Len(h) = Len(go) + 1 /\ h[Len(go) + 1] = x /\ Last(h) = x /\ h # <<>>
    BY <1>6, <1>9, OneMore
  <2> HIDE DEF h
  <2>2. Len(h) \in 1 .. Len(h) /\ Len(h) \in DOMAIN h
    BY <2>1, LastOne
  <2> QED
    BY <2>1, <2>2
<1>11. Floors(q.ci, h, E, co)
  <2>1. q.ci \in Seq(CallInfo)
    BY <1>8, ThreadParts
  <2>2. \A j \in 1 .. Len(go) : go[j].t # co
    BY <1>6, <1>7
  <2> QED
    BY <1>6, <1>8, <1>9, <2>1, <2>2, FloorsBegun
<1> HIDE DEF h
<1>12. Count(h, Len(h), co) = 0
  BY <1>9, <1>10, CountNext
<1>13. Runs(h, co) /\ Lua(h) /\ On(h, co)
  BY <1>9, <1>10 DEF Runs, Lua, On
<1>14. OnGo(q, co, h, E)
  BY <1>8, <1>11, <1>12, <1>13 DEF OnGo
<1>15. ThreadOk(q, co, h, E)
  BY <1>8, <1>13, <1>14 DEF ThreadOk
<1>16. Begins(x) /\ ~Ends(x) /\ co \in Threads
  BY <1>9 DEF Begins, Ends, Threads
<1>17. Body(n, E)
  <2>1. /\ Body(m, F) /\ Lua(m.go) /\ Top(m).op = "call" /\ co \in Threads /\ co # Main /\ ~On(m.go, co) /\ x \in Activation
        /\ x.t = co /\ Begins(x) /\ ~Ends(x) /\ q \in ThreadRecord
    BY <1>4, <1>5, <1>8, <1>9, <1>16
  <2>2. ThreadOk(q, co, Append(m.go, x), Append(F, 0))
    BY <1>4, <1>15 DEF h
  <2>3. Body([th |-> [m.th EXCEPT ![co] = q], go |-> Append(m.go, x)], Append(F, 0))
    BY ONLY <2>1, <2>2, BeginStep
  <2> QED
    BY <1>4, <2>3 DEF h
<1>18. m.th \in [Threads -> ThreadRecord]
  BY <1>4, BodyParts
<1>19. Lua(n.go) /\ Top(n).op = "run"
  <2>1. n.th[co] = q /\ Last(n.go).t = co
    BY <1>9, <1>10, <1>16, <1>18
  <2>2. Top(n) = Last(q.ci)
    BY <2>1 DEF Top
  <2> QED
    BY <1>8, <1>13, <2>2
<1>20. th' = n.th /\ go' = n.go
  BY <1>2, <1>4
<1> HIDE DEF n
<1>21. Good(n, E)
  BY <1>17, <1>19, GoodLua
<1> QED
  BY <1>20, <1>21, NextInv

\* The last variable leaves the list.
Popped(r) == [r EXCEPT !.tbc = Front(@)]

\* A record whose last variable has left its list.
LEMMA PoppedIs ==
  ASSUME NEW r \in ThreadRecord, r.tbc # <<>>
  PROVE  LET q == Popped(r) IN
         /\ q \in ThreadRecord /\ q.ci = r.ci /\ q.status = r.status /\ q.death = r.death /\ q.fresh = r.fresh /\ q.nny = r.nny
         /\ Len(r.tbc) - 1 \in 0 .. Len(r.tbc) /\ q.tbc = SubSeq(r.tbc, 1, Len(r.tbc) - 1)
<1> DEFINE S == [level : Nat \ {0}, base : Nat \ {0}, id : Variables]
           b == r.tbc
           d == SubSeq(b, 1, Len(b) - 1)
<1>1. b \in Seq(S) /\ b # <<>>
  BY ThreadParts
<1>2. Len(b) - 1 \in 0 .. Len(b) /\ d \in Seq(S)
  <2> HIDE DEF S, b
  <2>1. Len(b) \in Nat /\ Len(b) > 0
    BY <1>1
  <2>2. Len(b) - 1 \in 0 .. Len(b)
    BY <2>1
  <2> QED
    BY <1>1, <2>2, FirstOnes
<1>3. Popped(r) = [r EXCEPT !.tbc = d]
  BY DEF Popped, Front
<1> HIDE DEF d
<1>4. [r EXCEPT !.tbc = d] \in ThreadRecord
  BY <1>2 DEF ThreadRecord
<1>5. LET q == [r EXCEPT !.tbc = d] IN
        q.ci = r.ci /\ q.status = r.status /\ q.death = r.death /\ q.fresh = r.fresh /\ q.nny = r.nny /\ q.tbc = d
  BY DEF ThreadRecord
<1> QED
  BY <1>2, <1>3, <1>4, <1>5 DEF d

\* The last variable of the running thread leaves its list.
LEMMA PoppedBody ==
  ASSUME NEW m, NEW F, Body(m, F), m.go # <<>>, NEW t, t = Last(m.go).t, m.th[t].tbc # <<>>
  PROVE  LET n == [th |-> [m.th EXCEPT ![t] = Popped(m.th[t])], go |-> m.go] IN
         Body(n, F) /\ m.th[t].status = "ok" /\ t \in Threads
<1> DEFINE r == m.th[t]
           q == Popped(r)
           g == m.go
           n == [th |-> [m.th EXCEPT ![t] = q], go |-> g]
<1>1. t \in Threads /\ r \in ThreadRecord /\ Runs(g, t) /\ FramesOk(r.ci) /\ Listed(r, t, g) /\ OnGo(r, t, g, F) /\ ~r.fresh
  BY RunningParts
<1>2. g \in Seq(Activation) /\ F \in Seq(Nat) /\ Len(F) = Len(g) /\ GoOk(g) /\ ThreadOk(r, t, g, F)
  BY <1>1, BodyParts, SMTT(60)
<1>3. /\ q \in ThreadRecord /\ q.ci = r.ci /\ q.status = r.status /\ q.death = r.death /\ q.fresh = r.fresh /\ q.nny = r.nny
      /\ Len(r.tbc) - 1 \in 0 .. Len(r.tbc) /\ q.tbc = SubSeq(r.tbc, 1, Len(r.tbc) - 1)
  BY <1>1, PoppedIs
<1> HIDE DEF q, r, g
<1>4. r.tbc # <<>>
  BY DEF r
<1>5. r.status = "ok"
  <2>1. r.status \in {"ok", "yield", "error"}
    BY <1>1, ThreadParts
  <2> QED
    BY <1>1, <1>4, <2>1 DEF OnGo
<1>6. Listed(q, t, g)
  <2>1. \A x : Covered(r, t, g, x) => Covered(q, t, g, x)
    BY <1>3 DEF Covered
  <2> QED
    BY <1>1, <1>3, <2>1, ListedKeeps
<1>7. OnGo(q, t, g, F)
  BY <1>1, <1>3, <1>5 DEF OnGo
<1>8. On(g, t)
  BY <1>2, <1>1, LastOne DEF Runs, On
<1>9. ThreadOk(q, t, g, F)
  BY <1>1, <1>3, <1>6, <1>7, <1>8 DEF ThreadOk
<1>10. \A s \in Threads \ {t} : SameView(m.go, F, g, F, s) /\ ~Runs(m.go, s) /\ ~Runs(g, s)
  BY <1>1 DEF SameView, Runs, g
<1>11. Body(n, F)
  BY <1>1, <1>2, <1>3, <1>9, <1>10, BodyStep
<1> QED
  BY <1>1, <1>5, <1>11 DEF q, r, g

\* closeTBC's loop.
LEMMA CloseNextInv ==
  ASSUME Inv, CloseNext
  PROVE  Inv'
<1>1. PICK F : Good(Machine, F)
  BY DEF Inv
<1> DEFINE t == Running
           r == th[t]
           q == Popped(r)
           n == [th |-> [th EXCEPT ![t] = q], go |-> go]
           ny == Last(go).k = "closing"
<1>2. go # <<>> /\ (Last(go).k # "closing" => Frame.op \in {"jump", "return", "error"}) /\ r.tbc # <<>>
  BY DEF CloseNext, Closing, HasTBC
<1>3. Machine.th = th /\ Machine.go = go
  BY DEF Machine
<1>4. Body(Machine, F) /\ Last(go).k # "protect"
  BY <1>1, <1>2, <1>3 DEF Good
<1> HIDE DEF Machine
<1>5. Body(n, F) /\ r.status = "ok" /\ t \in Threads
  <2> DEFINE m == Machine
  <2>1. Body(m, F) /\ m.go # <<>> /\ t = Last(m.go).t /\ m.th[t].tbc # <<>>
    BY <1>2, <1>3, <1>4 DEF Running
  <2> HIDE DEF t
  <2>2. Body([th |-> [m.th EXCEPT ![t] = Popped(m.th[t])], go |-> m.go], F) /\ m.th[t].status = "ok" /\ t \in Threads
    BY ONLY <2>1, PoppedBody
  <2> QED
    BY <1>3, <2>2
<1>6. Last(go) \in Activation /\ th \in [Threads -> ThreadRecord] /\ t = Last(go).t
  BY <1>2, <1>3, <1>4, BodyParts DEF Running
<1>7. q \in ThreadRecord /\ q.ci = r.ci /\ q.status = r.status
  <2>1. r \in ThreadRecord
    BY <1>5, <1>6
  <2> QED
    BY <1>2, <2>1, PoppedIs
<1>8. n.th[t] = q /\ n.go = go /\ Frame = Last(r.ci)
  BY <1>5, <1>6 DEF Frame
<1>9. ~ny => Lua(go)
  BY <1>2, <1>4, <1>6, ActivationParts DEF Lua
<1>10. CASE Truncated
  <2>1. th' = [th EXCEPT ![t] = q] /\ go' = go
    <3>1. th' = [th EXCEPT ![t].tbc = Front(@)] /\ go' = go
      BY <1>10 DEF CloseNext
    <3> HIDE DEF t
    <3> QED
      BY <3>1 DEF Popped
  <2>2. Lua(go) /\ Frame.op = "error"
    BY <1>9, <1>10 DEF Truncated
  <2>3. Top(n) = Frame
    BY <1>6, <1>7, <1>8 DEF Top
  <2> HIDE DEF n
  <2>4. Good(n, F)
    BY ONLY <1>5, <1>8, <2>2, <2>3, GoodLua
  <2> QED
    BY <2>1, <2>4, NextInv DEF n
<1>11. CASE ~Truncated
  <2>1. th' = [th EXCEPT ![t] = Called(q, ny)] /\ go' = Append(go, CallOf(t, ny))
    BY <1>11 DEF CloseNext, CallClose, Popped, CallOf
  <2> HIDE DEF q
  <2>2. th' = [n.th EXCEPT ![t] = Called(n.th[t], ny)] /\ go' = Append(n.go, CallOf(t, ny))
    BY <1>6, <1>8, <2>1, SetTwice
  <2>3. n.th[t].ci # <<>> => /\ Last(n.th[t].ci).op # "run"
                             /\ Last(n.th[t].ci).op = "plain" => ny
                             /\ Last(n.th[t].ci).op = "protect" => Protects(Last(n.go))
    <3> DEFINE c == r.ci
               l == Len(go)
    <3>1. n.th[t].ci = c /\ n.go = go
      BY <1>7, <1>8
    <3>2. CASE ~ny
      BY <1>2, <1>8, <3>1, <3>2
    <3>3. CASE ny
      <4>1. /\ Runs(Machine.go, t) /\ OnGo(Machine.th[t], t, Machine.go, F) /\ Floors(Machine.th[t].ci, Machine.go, F, t)
            /\ Machine.th[t] \in ThreadRecord
        BY <1>2, <1>3, <1>4, <1>6, RunningParts
      <4>2. Floors(c, go, F, t) /\ Len(c) = F[l] /\ c \in Seq(CallInfo)
        <5>1. ~Lua(go)
          BY <3>3 DEF Lua
        <5>2. r \in ThreadRecord
          BY <1>5, <1>6
        <5> QED
          BY <1>3, <4>1, <5>1, <5>2, ThreadParts DEF OnGo
      <4>3. go \in Seq(Activation)
        BY <1>3, <1>4, BodyParts
      <4>4. l \in DOMAIN go /\ Last(go) = go[l] /\ Live(go, l)
        BY <1>2, <4>3, LastOne, LiveAgain
      <4> HIDE DEF c, l
      <4>5. FloorOk(c, go, F, t, l) /\ (Ends(go[l]) => F[l] = 0)
        BY <1>6, <4>2, <4>4 DEF Floors
      <4>6. CASE Ends(go[l])
        BY <3>1, <4>2, <4>5, <4>6
      <4>7. CASE ~Ends(go[l])
        <5>1. Protects(go[l])
          BY <3>3, <4>4, <4>7 DEF Ends, Protects
        <5> SUFFICES ASSUME c # <<>> PROVE Last(c).op = "protect"
          BY <3>1, <3>3, <4>4, <5>1
        <5>2. Len(c) > 0 /\ Last(c) = c[Len(c)]
          BY <4>2 DEF Last
        <5> QED
          BY <4>2, <4>5, <5>1, <5>2 DEF FloorOk
      <4> QED
        BY ONLY <4>6, <4>7
    <3> QED
      BY <3>2, <3>3
  <2>4. /\ n.go # <<>> /\ t = Last(n.go).t /\ n.th[t].status = "ok" /\ ny \in BOOLEAN
        /\ Halts(Last(n.go)) => ny
    BY <1>2, <1>4, <1>5, <1>6, <1>7, <1>8 DEF Halts
  <2> HIDE DEF n, t, ny
  <2> QED
    BY ONLY <1>5, <2>2, <2>3, <2>4, CallInv
<1> QED
  BY <1>10, <1>11

\* A Lua function runs on.
LEMMA RunsOn ==
  ASSUME NEW m, NEW F, Body(m, F), Lua(m.go), NEW t, t = Last(m.go).t, Top(m).op \in LuaOps
  PROVE  Good([th |-> [m.th EXCEPT ![t] = Mark(m.th[t], "run", 0)], go |-> m.go], F)
<1> DEFINE op == "run"
           n == [th |-> [m.th EXCEPT ![t] = Mark(m.th[t], op, 0)], go |-> m.go]
<1>1. op \in LuaOps /\ 0 \in Nat /\ op # "return"
  BY DEF LuaOps
<1>2. op \in {"run", "jump", "return", "error"}
  OBVIOUS
<1> HIDE DEF op
<1>3. Body(n, F) /\ Lua(n.go) /\ Top(n).op = op
  <2>1. Body(m, F) /\ Lua(m.go) /\ t = Last(m.go).t /\ Top(m).op \in LuaOps
    OBVIOUS
  <2>2. op = "return" => 0 = Top(m).pos
    BY ONLY <1>1
  <2> QED
    BY ONLY <1>1, <2>1, <2>2, MarkBody, SMT
<1> HIDE DEF n
<1>4. Good(n, F)
  BY <1>2, <1>3, GoodLua
<1> QED
  BY <1>4 DEF n, op

\* What closes has nothing left to close.
LEMMA EndCloseInv ==
  ASSUME Inv, EndClose
  PROVE  Inv'
<1>1. PICK F : Good(Machine, F)
  BY DEF Inv
<1> DEFINE m == Machine
           t == Running
           r == th[t]
           e == Last(go)
<1>2. go # <<>> /\ (e.k # "closing" => Frame.op \in {"jump", "return", "error"}) /\ ~HasTBC(r, Level)
  BY DEF EndClose, Closing
<1>3. m.th = th /\ m.go = go /\ m = [th |-> th, go |-> go] /\ t = Last(m.go).t /\ t = e.t
  BY DEF Machine, Running
<1>4. Body(m, F) /\ e.k # "protect" /\ m.go # <<>>
  BY <1>1, <1>2, <1>3 DEF Good
<1>5. /\ th' = (IF e.k = "closing" THEN EndClosing(e, m)
                 ELSE CASE Frame.op = "jump" -> [m EXCEPT !.th[t] = Mark(@, "run", 0)]
                        [] Frame.op = "error" -> [m EXCEPT !.th[t] = ReturnGo(@)]
                        [] Frame.op = "return" -> Leave(m)).th
      /\ go' = (IF e.k = "closing" THEN EndClosing(e, m)
                 ELSE CASE Frame.op = "jump" -> [m EXCEPT !.th[t] = Mark(@, "run", 0)]
                        [] Frame.op = "error" -> [m EXCEPT !.th[t] = ReturnGo(@)]
                        [] Frame.op = "return" -> Leave(m)).go
  BY DEF EndClose, Become
<1> HIDE DEF m, t
<1>6. e \in Activation /\ th \in [Threads -> ThreadRecord] /\ t \in Threads
  BY <1>3, <1>4, BodyParts
<1>7. CASE e.k = "closing"
  <2> DEFINE n == EndClosing(e, m)
  <2>1. th' = n.th /\ go' = n.go
    BY <1>5, <1>7
  <2>2. ~HasTBC(r, e.level)
    BY <1>2, <1>7 DEF Level
  <2>3. e.then \in {"pcall", "close", "wrap", "self"}
    BY <1>6, <1>7, ActivationParts
  <2>4. ~HasTBC(m.th[t], Last(m.go).level) /\ Last(m.go) = e
    BY <1>3, <2>2
  <2>5. \E E : Good(n, E)
    <3>1. CASE e.then = "pcall"
      <4>1. n = Back([m EXCEPT !.go = Front(m.go)])
        BY <3>1 DEF EndClosing
      <4>2. Last(m.go).k = "closing" /\ Last(m.go).then = "pcall"
        BY <1>7, <2>4, <3>1
      <4> HIDE DEF n, r, e
      <4>3. \E E : Good(Back([m EXCEPT !.go = Front(m.go)]), E)
        BY ONLY <1>3, <1>4, <2>4, <4>2, ClosedPcall
      <4> QED
        BY <4>1, <4>3
    <3>2. CASE e.then \in {"close", "wrap"}
      <4>1. Ends(Last(m.go)) /\ Last(m.go).then # "self"
        BY <1>7, <2>4, <3>2 DEF Ends
      <4> HIDE DEF r, e
      <4>2. \E E : Good(EndClosing(Last(m.go), m), E)
        BY ONLY <1>3, <1>4, <2>4, <4>1, EndsClose
      <4> QED
        BY <2>4, <4>2
    <3>3. CASE e.then = "self"
      <4>1. ClosesSelf(Last(m.go))
        BY <1>7, <2>4, <3>3 DEF ClosesSelf
      <4> HIDE DEF r, e
      <4>2. \E E : Good(EndClosing(Last(m.go), m), E)
        BY ONLY <1>3, <1>4, <2>4, <4>1, EndsSelf
      <4> QED
        BY <2>4, <4>2
    <3> QED
      BY <2>3, <3>1, <3>2, <3>3
  <2> HIDE DEF n
  <2> QED
    BY <2>1, <2>5, NextInv
<1>8. CASE e.k # "closing"
  <2>1. Lua(m.go) /\ Lua(go)
    BY <1>2, <1>3, <1>4, <1>6, <1>8, ActivationParts DEF Lua
  <2>2. Top(m) = Frame /\ Frame = Last(r.ci)
    BY <1>3 DEF Top, Frame, Running, t
  <2>3. ~HasTBC(r, Frame.level)
    BY <1>2, <1>8 DEF Level
  <2>4. r.ci # <<>> /\ FramesOk(r.ci) /\ r \in ThreadRecord /\ Frame = r.ci[Len(r.ci)] /\ Len(r.ci) \in DOMAIN r.ci
    <3>1. LET s == Last(m.go).t
              w == m.th[s]
          IN w.ci # <<>> /\ FramesOk(w.ci) /\ w \in ThreadRecord /\ Last(w.ci) = w.ci[Len(w.ci)] /\ Len(w.ci) \in DOMAIN w.ci
      BY <1>4, <2>1, RunningParts
    <3> QED
      BY ONLY <1>3, <2>2, <3>1
  <2>5. CASE Frame.op = "jump"
    <3> DEFINE n == [th |-> [m.th EXCEPT ![t] = Mark(m.th[t], "run", 0)], go |-> m.go]
    <3>1. Body(m, F) /\ Lua(m.go) /\ t = Last(m.go).t /\ Top(m).op \in LuaOps
      BY <1>3, <1>4, <2>1, <2>2, <2>5 DEF LuaOps
    <3>2. Good(n, F)
      BY <3>1, RunsOn
    <3>3. th' = n.th /\ go' = n.go
      <4>1. [m EXCEPT !.th[t] = Mark(@, "run", 0)] = n
        BY <1>3
      <4> HIDE DEF n
      <4> QED
        BY <1>5, <1>8, <2>5, <4>1
    <3> HIDE DEF n
    <3> QED
      BY <3>2, <3>3, NextInv
  <2>6. CASE Frame.op = "error"
    <3> DEFINE n == [th |-> [m.th EXCEPT ![t] = ReturnGo(m.th[t])], go |-> m.go]
    <3>1. Done(m.th[t]) /\ ~Top(m).fresh
      <4>1. ~Frame.fresh
        BY <2>4, <2>6 DEF FramesOk, GoOps
      <4> QED
        BY <1>3, <2>2, <2>3, <2>6, <4>1 DEF Done
    <3>2. Good(n, F)
      BY <1>3, <1>4, <2>1, <3>1, ReturnBody
    <3>3. th' = n.th /\ go' = n.go
      <4>1. [m EXCEPT !.th[t] = ReturnGo(@)] = n
        BY <1>3
      <4> HIDE DEF n
      <4> QED
        BY <1>5, <1>8, <2>6, <4>1
    <3> HIDE DEF n
    <3> QED
      BY <3>2, <3>3, NextInv
  <2>7. CASE Frame.op = "return"
    <3> DEFINE n == Leave(m)
    <3>1. Done(m.th[t])
      BY <1>3, <2>2, <2>3, <2>7 DEF Done
    <3>2. th' = n.th /\ go' = n.go
      BY <1>5, <1>8, <2>7
    <3>3. Body(m, F) /\ Lua(m.go) /\ t = Last(m.go).t /\ Done(m.th[t])
      BY <1>3, <1>4, <2>1, <3>1
    <3>4. Last(m.go).k = "call" \/ Last(m.go).k = "resume"
      BY <2>1 DEF Lua
    <3>5. \E E : Good(n, E)
      <4>1. CASE ~Top(m).fresh
        BY ONLY <3>3, <4>1, LeaveReentry
      <4>2. CASE Top(m).fresh /\ Last(m.go).k = "call"
        BY ONLY <3>3, <4>2, LeaveCall
      <4>3. CASE Top(m).fresh /\ Last(m.go).k = "resume"
        BY ONLY <3>3, <4>3, LeaveResume
      <4> QED
        BY <3>4, <4>1, <4>2, <4>3
    <3> HIDE DEF n
    <3> QED
      BY <3>2, <3>5, NextInv
  <2> QED
    BY <1>2, <1>8, <2>5, <2>6, <2>7
<1> QED
  BY <1>7, <1>8

\* Nothing runs yet.
LEMMA InitInv ==
  ASSUME Init
  PROVE  Inv
<1> DEFINE m == Machine
           fresh(t) == [status |-> "ok", death |-> FALSE, fresh |-> t # Main, ci |-> <<>>, tbc |-> <<>>,
                        nny |-> IF t = Main THEN 1 ELSE 0]
<1>1. th = [t \in Threads |-> fresh(t)] /\ go = <<>>
  BY DEF Init
<1>2. m = [th |-> th, go |-> go] /\ m.th = th /\ m.go = <<>>
  BY <1>1 DEF Machine
<1> HIDE DEF m
<1>3. \A t \in Threads : /\ th[t] \in ThreadRecord /\ th[t].status = "ok" /\ ~th[t].death /\ th[t].ci = <<>> /\ th[t].tbc = <<>>
                         /\ (th[t].fresh <=> t # Main) /\ (t = Main => th[t].nny = 1)
  <2> SUFFICES ASSUME NEW t \in Threads
               PROVE  /\ th[t] \in ThreadRecord /\ th[t].status = "ok" /\ ~th[t].death /\ th[t].ci = <<>> /\ th[t].tbc = <<>>
                      /\ (th[t].fresh <=> t # Main) /\ (t = Main => th[t].nny = 1)
    OBVIOUS
  <2>1. th[t] = fresh(t)
    BY <1>1
  <2>2. CASE t = Main
    <3>1. th[t] = [status |-> "ok", death |-> FALSE, fresh |-> FALSE, ci |-> <<>>, tbc |-> <<>>, nny |-> 1]
      BY <2>1, <2>2
    <3> QED
      BY <2>2, <3>1 DEF ThreadRecord
  <2>3. CASE t # Main
    <3>1. th[t] = [status |-> "ok", death |-> FALSE, fresh |-> TRUE, ci |-> <<>>, tbc |-> <<>>, nny |-> 0]
      BY <2>1, <2>3
    <3> QED
      BY <2>3, <3>1 DEF ThreadRecord
  <2> QED
    BY <2>2, <2>3
<1>4. th \in [Threads -> ThreadRecord]
  <2> HIDE DEF fresh
  <2> QED
    BY <1>1, <1>3
<1>5. Typed(m.th, m.go, <<>>)
  <2>1. <<>> \in Seq(Activation) /\ <<>> \in Seq(Nat) /\ Len(<<>>) = 0
    OBVIOUS
  <2> QED
    BY <1>2, <1>4, <2>1 DEF Typed
<1>6. GoOk(m.go)
  BY <1>2 DEF GoOk
<1>7. \A t \in Threads : ThreadOk(m.th[t], t, m.go, <<>>)
  <2> SUFFICES ASSUME NEW t \in Threads PROVE ThreadOk(th[t], t, <<>>, <<>>)
    BY <1>2
  <2> DEFINE r == th[t]
  <2>1. /\ r \in ThreadRecord /\ r.status = "ok" /\ ~r.death /\ r.ci = <<>> /\ r.tbc = <<>>
        /\ (r.fresh <=> t # Main) /\ (t = Main => r.nny = 1)
    BY <1>3
  <2> HIDE DEF r
  <2>2. FramesOk(r.ci) /\ Listed(r, t, <<>>)
    BY <2>1 DEF FramesOk, Listed
  <2>3. ~On(<<>>, t)
    BY DEF On
  <2>4. OffGo(r, t)
    BY <2>1 DEF OffGo
  <2>5. ThreadOk(r, t, <<>>, <<>>)
    BY <2>1, <2>2, <2>3, <2>4 DEF ThreadOk
  <2> QED
    BY <2>5 DEF r
<1>8. Body(m, <<>>)
  BY <1>2, <1>5, <1>6, <1>7 DEF Body
<1>9. ~Lua(m.go)
  BY <1>2 DEF Lua
<1>10. Good(m, <<>>)
  BY <1>2, <1>8, <1>9 DEF Good
<1> QED
  BY <1>10 DEF Inv, m

\* Every step keeps the invariant.
LEMMA StepInv ==
  ASSUME "closeInPcall" \notin Uses, Inv, [Next]_vars
  PROVE  Inv'
<1>1. CASE HostCall
  BY <1>1, HostCallInv
<1>2. CASE CallLua
  BY <1>2, CallLuaInv
<1>3. CASE CallMeta
  BY <1>3, CallMetaInv
<1>4. CASE CallPcall
  BY <1>4, CallPcallInv
<1>5. CASE \E continuation \in BOOLEAN : CallGo(continuation)
  BY <1>5, CallGoInv
<1>6. CASE \E v \in Variables : Declare(v)
  BY <1>6, DeclareInv
<1>7. CASE \E i \in 1 .. Cardinality(Variables) : Jump(i)
  BY <1>7, JumpInv
<1>8. CASE Return
  BY <1>8, ReturnInv
<1>9. CASE Error
  BY <1>9, ErrorInv
<1>10. CASE Yield
  BY <1>10, YieldInv
<1>11. CASE \E co \in Coroutines, wrap \in BOOLEAN : Resume(co, wrap)
  BY <1>11, ResumeInv
<1>12. CASE \E co \in Coroutines : WrapDead(co)
  BY <1>12, WrapDeadInv
<1>13. CASE \E co \in Coroutines : CloseCoroutine(co)
  BY <1>13, CloseCoroutineInv
<1>14. CASE CloseRunning
  BY <1>14, CloseRunningInv
<1>15. CASE CloseNext
  BY <1>15, CloseNextInv
<1>16. CASE EndClose
  BY <1>16, EndCloseInv
<1>17. CASE UNCHANGED vars
  BY <1>17 DEF Inv, Machine, vars, Good, Body, Top
<1> QED
  BY <1>1, <1>2, <1>3, <1>4, <1>5, <1>6, <1>7, <1>8, <1>9, <1>10, <1>11, <1>12, <1>13, <1>14, <1>15, <1>16, <1>17 DEF Next

-----------------------------------------------------------------------------
(* What the invariant says.                                                *)

\* Histories keep their types: only a coroutine closes itself.
Histories == closes \in [Variables -> Nat] /\ closedSelf \subseteq Coroutines

\* A step keeps them.
LEMMA HistoriesStep ==
  ASSUME Inv, Histories, [Next]_vars
  PROVE  Histories'
<1>1. CASE CloseNext
  <2>1. CASE NoClose
    BY <2>1 DEF NoClose, Histories
  <2>2. CASE ~NoClose
    <3>1. CallClose
      BY <1>1, <2>2 DEF CloseNext
    <3> DEFINE x == Last(th[Running].tbc).id
    <3>2. closes' = [closes EXCEPT ![x] = closes[x] + 1] /\ closedSelf' = closedSelf
      BY <3>1 DEF CallClose
    <3> HIDE DEF x
    <3>3. \A v \in Variables : closes'[v] = IF v = x THEN closes[v] + 1 ELSE closes[v]
      BY <3>2 DEF Histories
    <3>4. \A v \in Variables : closes[v] \in Nat /\ closes[v] + 1 \in Nat
      BY DEF Histories
    <3>5. closes' \in [Variables -> Nat]
      <4>1. \A v \in Variables : closes'[v] \in Nat
        BY <3>3, <3>4
      <4>2. closes' = [v \in Variables |-> closes'[v]]
        BY <3>2 DEF Histories
      <4> QED
        BY <4>1, <4>2
    <3> QED
      BY <3>2, <3>5 DEF Histories
  <2> QED
    BY <2>1, <2>2
<1>2. CASE EndClose
  <2>1. closes' = closes
    BY <1>2 DEF EndClose
  <2>2. CASE Last(go).k = "closing" /\ Last(go).then = "self"
    <3>1. PICK F : Good(Machine, F)
      BY DEF Inv
    <3> DEFINE l == Len(go)
    <3>2. go # <<>> /\ go \in Seq(Activation) /\ \A i \in DOMAIN go : ActivationOk(go, i)
      BY <1>2, <3>1 DEF EndClose, Closing, Good, Body, Typed, GoOk, Machine
    <3>3. l \in DOMAIN go /\ Last(go) = go[l] /\ Last(go) \in Activation
      BY <3>2, LastOne
    <3> HIDE DEF l
    <3>4. Running # Main
      BY <2>2, <3>2, <3>3 DEF ActivationOk, Ends, Running
    <3>5. Running \in Threads
      BY <3>3, ActivationParts DEF Running
    <3>6. closedSelf' = closedSelf \union {Running}
      BY <1>2, <2>2 DEF EndClose
    <3> QED
      BY <2>1, <3>4, <3>5, <3>6 DEF Histories, Threads
  <2>3. CASE ~(Last(go).k = "closing" /\ Last(go).then = "self")
    BY <1>2, <2>1, <2>3 DEF EndClose, Histories
  <2> QED
    BY <2>2, <2>3
<1>3. CASE ~CloseNext /\ ~EndClose
  <2>1. closes' = closes /\ closedSelf' = closedSelf
    BY <1>3 DEF Next, vars, HostCall, CallLua, CallMeta, CallPcall, CallGo, Declare, Jump, Return, Error,
                Yield, Resume, WrapDead, CloseCoroutine, CloseRunning, NoClose
  <2> QED
    BY <2>1 DEF Histories
<1> QED
  BY <1>1, <1>2, <1>3

\* The machine and the histories have their types.
LEMMA InvTypes ==
  ASSUME Inv, Histories
  PROVE  TypeOK
<1>1. PICK F : Good(Machine, F)
  BY DEF Inv
<1> QED
  BY <1>1 DEF Good, Body, Typed, Machine, TypeOK, Histories

\* A thread on Go's stack counts what lies there.
LEMMA InvCounts ==
  ASSUME Inv
  PROVE  UnyieldableCounted
<1>1. PICK F : Good(Machine, F)
  BY DEF Inv
<1>2. go \in Seq(Activation) /\ \A t \in Threads : ThreadOk(th[t], t, go, F)
  BY <1>1 DEF Good, Body, Typed, Machine
<1> SUFFICES ASSUME NEW i \in DOMAIN go
             PROVE  LET t    == go[i].t
                        from == CountsFrom(t)
                    IN th[t].nny = Cardinality({j \in from + 1 .. Len(go) : go[j].t = t /\ go[j].k = "call" /\ go[j].ny})
                                   + (IF from = 0 \/ go[from].k = "closing" THEN 1 ELSE 0)
  BY DEF UnyieldableCounted
<1> DEFINE t == go[i].t
<1>3. t \in Threads
  BY <1>2, ActivationParts
<1>4. th[t].nny = Count(go, Len(go), t)
  BY <1>2, <1>3 DEF ThreadOk, On, OnGo
<1>5. CountsFrom(t) = From(go, Len(go), t)
  <2>1. DOMAIN go = 1 .. Len(go)
    BY <1>2
  <2> QED
    BY <2>1 DEF CountsFrom, From, Ends
<1> HIDE DEF t
<1>6. Count(go, Len(go), t)
        = Cardinality({j \in CountsFrom(t) + 1 .. Len(go) : go[j].t = t /\ go[j].k = "call" /\ go[j].ny})
          + (IF CountsFrom(t) = 0 \/ go[CountsFrom(t)].k = "closing" THEN 1 ELSE 0)
  BY <1>5 DEF Count, Unyieldable
<1> QED
  BY <1>4, <1>6 DEF t

\* A coroutine that died did so outside every pcall.
LEMMA InvDeath ==
  ASSUME Inv
  PROVE  DeathIsUncaught
<1>1. PICK F : Good(Machine, F)
  BY DEF Inv
<1>2. \A t \in Threads : ThreadOk(th[t], t, go, F)
  BY <1>1 DEF Good, Body, Machine
<1> QED
  BY <1>2 DEF DeathIsUncaught, ThreadOk, OnGo, OffGo

\* Every listed variable is covered.
LEMMA InvListed ==
  ASSUME Inv
  PROVE  PendingHasCloser
<1>1. PICK F : Good(Machine, F)
  BY DEF Inv
<1>2. \A t \in Threads : Listed(th[t], t, go)
  BY <1>1 DEF Good, Body, Machine, ThreadOk
<1> QED
  BY <1>2 DEF PendingHasCloser, Closer, Listed, Covered

\* A coroutine whose only activation left is its Resume has no frame that waits
\* for another activation.
LEMMA ResumeSettled ==
  ASSUME NEW F, Good(Machine, F), go # <<>>, Last(go).k = "resume"
  PROVE  Settled(th[Last(go).t].ci)
<1> DEFINE t == Last(go).t
           c == th[t].ci
           l == Len(go)
<1>1. /\ go \in Seq(Activation) /\ F \in Seq(Nat) /\ Len(F) = l /\ Hosts(go[1])
      /\ \A i \in DOMAIN go : ActivationOk(go, i)
  BY DEF Good, Body, Typed, GoOk, Machine
<1>2. l \in DOMAIN go /\ l \in 1 .. l /\ Last(go) = go[l] /\ DOMAIN go = 1 .. l
  BY <1>1, LastOne
<1>3. t \in Threads
  BY <1>1, <1>2, ActivationParts
<1>4. ThreadOk(th[t], t, go, F) /\ th[t] \in ThreadRecord
  BY <1>3 DEF Good, Body, Typed, Machine
<1>5. c \in Seq(CallInfo)
  BY <1>4, ThreadParts
<1>6. Floors(c, go, F, t) /\ c # <<>>
  BY <1>2, <1>4 DEF ThreadOk, On, OnGo, Runs, Lua
<1>7. Last(c).op \in {"run", "jump", "return", "error"}
  BY DEF Good, Lua, Top, Machine
<1>8. l # 1 /\ l > 1
  BY <1>1, <1>2 DEF Hosts, Protects
<1> HIDE DEF c, l
<1>9. \A j \in 1 .. l : go[j].t = t => j = l
  BY <1>1, <1>2, <1>8 DEF ActivationOk, Begins
<1>10. Len(c) \in Nat /\ Last(c) = c[Len(c)] /\ DOMAIN c = 1 .. Len(c)
  BY <1>5, <1>6 DEF Last
<1>11. ASSUME NEW p \in DOMAIN c, c[p].op \in {"protect", "plain"} PROVE FALSE
  <2>1. p # Len(c)
    BY <1>7, <1>10, <1>11
  <2>2. p \in 1 .. Len(c) - 1
    BY <1>10, <2>1
  <2>3. PICK i \in DOMAIN go : go[i].t = t /\ (Protects(go[i]) \/ go[i].k = "call")
    BY <1>6, <1>11, <2>2 DEF Floors, Anchored
  <2> QED
    BY <1>2, <1>9, <2>3 DEF Protects
<1> QED
  BY <1>11 DEF Settled, c

\* What unroll runs on has its continuations.
LEMMA InvContinuations ==
  ASSUME Inv
  PROVE  ContinuationsReady
<1>1. PICK F : Good(Machine, F)
  BY DEF Inv
<1>2. \A t \in Threads : ThreadOk(th[t], t, go, F)
  BY <1>1 DEF Good, Body, Machine
<1>3. ASSUME NEW t \in Threads, th[t].status = "yield"
      PROVE  ~On(go, t) /\ Waits(th[t].ci) /\ Settled(th[t].ci)
  BY <1>2, <1>3 DEF ThreadOk, OnGo, OffGo
<1>4. ASSUME NEW t \in Threads, go # <<>>, Last(go).k = "resume", Last(go).t = t
      PROVE  Settled(th[t].ci)
  BY <1>1, <1>4, ResumeSettled
<1> QED
  BY <1>3, <1>4 DEF ContinuationsReady, On, Waits, Settled

-----------------------------------------------------------------------------
(* The theorems.                                                           *)

\* The two stacks fit at every step.
LEMMA AlwaysInv ==
  ASSUME "closeInPcall" \notin Uses
  PROVE  Spec => []Inv
<1>1. Init => Inv
  BY InitInv
<1>2. Inv /\ [Next]_vars => Inv'
  BY StepInv
<1> QED
  BY <1>1, <1>2, PTL DEF Spec

\* Every variable has its type: the threads' call infos, to-be-closed lists
\* and counts, and Go's stack.  Counts never go below 0.
THEOREM CoroutineTypes ==
  ASSUME "closeInPcall" \notin Uses
  PROVE  Spec => []TypeOK
<1>1. Init => Histories
  BY DEF Init, Histories
<1>2. Inv /\ Histories /\ [Next]_vars => Histories'
  BY HistoriesStep
<1>3. Inv /\ Histories => TypeOK
  BY InvTypes
<1> QED
  BY <1>1, <1>2, <1>3, AlwaysInv, PTL DEF Spec

\* nonYieldableCallCount is the number of the thread's calls on Go's stack that
\* cannot be yielded across, after any mixture of errors, yields, recoveries
\* and closings (State.call, protect, Resume, CloseThread).
THEOREM CountIsExact ==
  ASSUME "closeInPcall" \notin Uses
  PROVE  Spec => []UnyieldableCounted
<1>1. Inv => UnyieldableCounted
  BY InvCounts
<1> QED
  BY <1>1, AlwaysInv, PTL

\* unroll never comes to a Go function without a continuation (the assertion in
\* finishGoCall).
THEOREM ContinuationsAreReady ==
  ASSUME "closeInPcall" \notin Uses
  PROVE  Spec => []ContinuationsReady
<1>1. Inv => ContinuationsReady
  BY InvContinuations
<1> QED
  BY <1>1, AlwaysInv, PTL

\* A coroutine dies of an error only where no pcall of it could take the error
\* (recover).
THEOREM DeathsAreUncaught ==
  ASSUME "closeInPcall" \notin Uses
  PROVE  Spec => []DeathIsUncaught
<1>1. Inv => DeathIsUncaught
  BY InvDeath
<1> QED
  BY <1>1, AlwaysInv, PTL

\* No to-be-closed variable is stranded: each listed one is a live function's,
\* or above the level that something closes to, or in a coroutine that died;
\* and every list is in stack order (closeTBC, hasTBC).
THEOREM NoneStranded ==
  ASSUME "closeInPcall" \notin Uses
  PROVE  Spec => []PendingHasCloser
<1>1. Inv => PendingHasCloser
  BY InvListed
<1> QED
  BY <1>1, AlwaysInv, PTL

-----------------------------------------------------------------------------
(* A coroutine that closed itself.                                         *)

SelfInv == \A t \in closedSelf : Finished(th[t], t, go)

\* A step of Lua code that changes its own thread, and may call.
LEMMA OwnStep ==
  ASSUME th \in [Threads -> ThreadRecord], go \in Seq(Activation), go # <<>>, NEW t \in Threads, ~On(go, t),
         NEW r, th' = [th EXCEPT ![Running] = r], go' = go \/ \E x : go' = Append(go, x) /\ x.t = Running
  PROVE  th'[t] = th[t] /\ ~On(go', t)
<1>1. Running # t
  BY TopIsOn DEF Running
<1>2. th'[t] = th[t]
  <2> HIDE DEF Running
  <2> QED
    BY <1>1
<1> QED
  BY <1>1, <1>2, TopIsOn

\* Steps within a thread leave alone what is not on Go's stack.
LEMMA OwnElsewhere ==
  ASSUME Inv, NEW t \in Threads, ~On(go, t),
         \/ CallLua \/ CallMeta \/ (\E continuation \in BOOLEAN : CallGo(continuation))
         \/ (\E v \in Variables : Declare(v)) \/ (\E i \in 1 .. Cardinality(Variables) : Jump(i)) \/ Return
  PROVE  th'[t] = th[t] /\ ~On(go', t)
<1>1. PICK F : Good(Machine, F)
  BY DEF Inv
<1>2. PICK op : LuaRuns(op)
  BY DEF CallLua, CallMeta, CallGo, Declare, Jump, Return
<1>3. /\ ~On(go, t) /\ t \in Threads
      /\ th \in [Threads -> ThreadRecord] /\ go \in Seq(Activation) /\ go # <<>>
  BY <1>1, <1>2, LuaParts, BodyParts
<1>4. CASE CallLua
  <2> DEFINE r == PushFrame(Calling(th[Running]), "run", FALSE)
  <2>1. th' = [th EXCEPT ![Running] = r] /\ go' = go
    BY <1>4 DEF CallLua
  <2> HIDE DEF r
  <2> QED
    BY <1>3, <2>1, OwnStep
<1>5. CASE CallMeta
  <2> DEFINE r == Called(Calling(th[Running]), FALSE)
             x == CallOf(Running, FALSE)
  <2>1. th' = [th EXCEPT ![Running] = r] /\ go' = Append(go, x) /\ x.t = Running
    BY <1>5 DEF CallMeta, CallOf
  <2> HIDE DEF r, x
  <2> QED
    BY <1>3, <2>1, OwnStep
<1>6. CASE \E continuation \in BOOLEAN : CallGo(continuation)
  <2>1. PICK continuation \in BOOLEAN : CallGo(continuation)
    BY <1>6
  <2> DEFINE ny == ~continuation \/ th[Running].nny > 0
             r == Called(PushFrame(Calling(th[Running]), IF ny THEN "plain" ELSE "callk", FALSE), ny)
             x == CallOf(Running, ny)
  <2>2. th' = [th EXCEPT ![Running] = r] /\ go' = Append(go, x) /\ x.t = Running
    BY <2>1 DEF CallGo, CallOf
  <2> HIDE DEF r, x
  <2> QED
    BY <1>3, <2>2, OwnStep
<1>7. CASE \E v \in Variables : Declare(v)
  <2>1. PICK v \in Variables : Declare(v)
    BY <1>7
  <2> DEFINE y == [level |-> Height(th[Running]) + 1, base |-> Frame.pos, id |-> v]
             r == [th[Running] EXCEPT !.tbc = Append(@, y)]
  <2>2. th' = [th EXCEPT ![Running].tbc = Append(@, y)] /\ go' = go
    BY <2>1 DEF Declare
  <2> HIDE DEF y
  <2>3. th' = [th EXCEPT ![Running] = r]
    BY <2>2
  <2> HIDE DEF r
  <2> QED
    BY <1>3, <2>2, <2>3, OwnStep
<1>8. CASE \E i \in 1 .. Cardinality(Variables) : Jump(i)
  <2>1. PICK i \in 1 .. Cardinality(Variables) : Jump(i)
    BY <1>8
  <2> DEFINE r == Mark(th[Running], "jump", th[Running].tbc[i].level)
  <2>2. th' = [th EXCEPT ![Running] = r] /\ go' = go
    BY <2>1 DEF Jump
  <2> HIDE DEF r
  <2> QED
    BY <1>3, <2>2, OwnStep
<1>9. CASE Return
  <2> DEFINE r == Mark(th[Running], "return", Frame.pos)
  <2>1. th' = [th EXCEPT ![Running] = r] /\ go' = go
    BY <1>9 DEF Return
  <2> HIDE DEF r
  <2> QED
    BY <1>3, <2>1, OwnStep
<1> QED
  BY <1>4, <1>5, <1>6, <1>7, <1>8, <1>9

\* So does a pcall.
LEMMA PcallElsewhere ==
  ASSUME Inv, NEW t \in Threads, ~On(go, t), CallPcall
  PROVE  th'[t] = th[t] /\ ~On(go', t)
<1>1. PICK F : Good(Machine, F)
  BY DEF Inv
<1>2. LuaRuns("pcall")
  BY DEF CallPcall
<1>3. /\ ~On(go, t) /\ t \in Threads /\ Running # t
      /\ th \in [Threads -> ThreadRecord] /\ go \in Seq(Activation) /\ go # <<>>
  <2>1. th \in [Threads -> ThreadRecord] /\ go \in Seq(Activation) /\ go # <<>>
    BY <1>1, <1>2, LuaParts, BodyParts
  <2> QED
    BY <2>1, TopIsOn DEF Running
<1> DEFINE r == PushFrame(Calling(th[Running]), "pcall", FALSE)
           q == Mark(r, "protect", 0)
           y == [k |-> "protect", t |-> Running, ci |-> q.ci, nny |-> r.nny, level |-> Last(r.ci).pos + 1]
           x == CallOf(Running, TRUE)
<1>4. CASE r.nny = 0
  <2> DEFINE w == Called(r, FALSE)
             z == CallOf(Running, FALSE)
  <2>1. th' = [th EXCEPT ![Running] = w] /\ go' = Append(go, z) /\ z.t = Running
    BY <1>4 DEF CallPcall, CallOf
  <2> HIDE DEF w, z, r
  <2> QED
    BY <1>3, <2>1, OwnStep
<1>5. CASE r.nny # 0
  <2> DEFINE w == Called(q, TRUE)
  <2>1. th' = [th EXCEPT ![Running] = w] /\ go' = go \o <<y, x>>
    BY <1>5 DEF CallPcall, CallOf
  <2>2. y.t = Running /\ x.t = Running
    BY DEF CallOf
  <2> HIDE DEF w, x, y
  <2>3. th'[t] = th[t]
    <3> HIDE DEF Running
    <3> QED
      BY <1>3, <2>1
  <2>4. go' = Append(Append(go, y), x)
    BY <1>3, <2>1
  <2>5. ~On(Append(go, y), t)
    BY <1>3, <2>2, TopIsOn
  <2>6. \A j \in DOMAIN go' : go'[j].t # t
    <3> DEFINE n == Len(go)
    <3>1. \A j \in 1 .. n : go[j].t # t
      BY <1>3 DEF On
    <3>2. n \in Nat /\ DOMAIN go' = 1 .. n + 2 /\ (\A j \in 1 .. n : go'[j] = go[j]) /\ go'[n + 1] = y /\ go'[n + 2] = x
      BY <1>3, <2>4
    <3> HIDE DEF n
    <3>3. \A j \in 1 .. n + 2 : j \in 1 .. n \/ j = n + 1 \/ j = n + 2
      BY <3>2
    <3> QED
      BY <1>3, <2>2, <3>1, <3>2, <3>3
  <2> QED
    BY <2>3, <2>6 DEF On
<1> QED
  BY <1>4, <1>5

\* So do an error and a yield, and what they are recovered by.
LEMMA PanicElsewhere ==
  ASSUME Inv, NEW t \in Threads, ~On(go, t), Error \/ Yield
  PROVE  th'[t] = th[t] /\ ~On(go', t)
<1>1. PICK F : Good(Machine, F)
  BY DEF Inv
<1>2. PICK op : LuaRuns(op)
  BY DEF Error, Yield
<1>3. /\ ~On(go, t) /\ t \in Threads /\ Running # t
      /\ th \in [Threads -> ThreadRecord] /\ go \in Seq(Activation) /\ go # <<>>
  <2>1. th \in [Threads -> ThreadRecord] /\ go \in Seq(Activation) /\ go # <<>>
    BY <1>1, <1>2, LuaParts, BodyParts
  <2> QED
    BY <2>1, TopIsOn DEF Running
<1>4. /\ Machine.th = th /\ Machine.go = go /\ GoOk(go) /\ Machine = [th |-> th, go |-> go]
      /\ Running \in Threads /\ th[Running] \in ThreadRecord /\ th[Running].ci # <<>>
  <2>1. GoOk(go)
    BY <1>1 DEF Good, Body, Machine
  <2> QED
    BY <1>1, <1>2, <2>1, LuaParts DEF Machine
<1>5. CASE Error
  <2> DEFINE m == Machine
             n == Throw("error", m)
  <2>1. th' = n.th /\ go' = n.go
    BY <1>5 DEF Error, Become
  <2> HIDE DEF m
  <2>2. m.th = th /\ m.go = go /\ m = [th |-> m.th, go |-> m.go]
    BY <1>4 DEF m
  <2>3. 1 \in 1 .. Len(m.go) /\ Catches(m.go[1], "error")
    BY <1>3, <1>4, <2>2, FirstCatches
  <2>4. Untouched(m, n, t)
    BY <1>3, <2>2, <2>3, ThrowUntouched
  <2> HIDE DEF n
  <2> QED
    BY <2>1, <2>2, <2>4 DEF Untouched
<1>6. CASE Yield
  <2> DEFINE s == Running
             q == [Calling(th[s]) EXCEPT !.status = "yield"]
             m == [Machine EXCEPT !.th[s] = [Calling(@) EXCEPT !.status = "yield"]]
             n == Throw("yield", m)
  <2>1. th' = n.th /\ go' = n.go
    BY <1>6 DEF Yield, Become
  <2>2. m = [th |-> [th EXCEPT ![s] = q], go |-> go]
    <3> HIDE DEF s
    <3> QED
      BY <1>4
  <2>3. q \in ThreadRecord
    <3> DEFINE p == Calling(th[s])
    <3>1. p \in ThreadRecord
      <4> DEFINE r == th[s]
      <4>1. r \in ThreadRecord /\ r.ci # <<>>
        BY <1>4
      <4>2. r.ci \in Seq(CallInfo)
        BY <4>1, ThreadParts
      <4>3. "call" \in LuaOps \union GoOps /\ 0 \in Nat
        BY DEF LuaOps
      <4> HIDE DEF r
      <4> QED
        BY <4>1, <4>2, <4>3, MarkIs DEF Calling, r
    <3>2. \A v \in ThreadRecord : [v EXCEPT !.status = "yield"] \in ThreadRecord
      BY DEF ThreadRecord
    <3> QED
      BY <3>1, <3>2
  <2> HIDE DEF m, s, q
  <2>4. m.go = go /\ m = [th |-> m.th, go |-> m.go] /\ m.th \in [Threads -> ThreadRecord] /\ m.th[t] = th[t]
    BY <1>3, <2>2, <2>3 DEF s
  <2>5. 1 \in 1 .. Len(m.go) /\ Catches(m.go[1], "yield")
    BY <1>3, <1>4, <2>4, FirstCatches
  <2>6. Untouched(m, n, t)
    BY <1>3, <2>4, <2>5, ThrowUntouched
  <2> HIDE DEF n
  <2> QED
    BY <2>1, <2>4, <2>6 DEF Untouched
<1> QED
  BY <1>5, <1>6

\* So do calls of __close.
LEMMA CloseNextElsewhere ==
  ASSUME Inv, NEW t \in Threads, ~On(go, t), CloseNext
  PROVE  th'[t] = th[t] /\ ~On(go', t)
<1>1. PICK F : Good(Machine, F)
  BY DEF Inv
<1>2. th \in [Threads -> ThreadRecord] /\ go \in Seq(Activation) /\ go # <<>>
  BY <1>1 DEF CloseNext, Closing, Good, Body, Typed, Machine
<1>3. Running # t
  BY <1>2, TopIsOn DEF Running
<1>4. CASE Truncated
  <2> DEFINE r == [th[Running] EXCEPT !.tbc = Front(@)]
  <2>1. th' = [th EXCEPT ![Running].tbc = Front(@)] /\ go' = go
    BY <1>4 DEF CloseNext
  <2>2. th' = [th EXCEPT ![Running] = r]
    BY <2>1
  <2> HIDE DEF r
  <2> QED
    BY <1>2, <1>3, <2>1, <2>2, OwnStep
<1>5. CASE ~Truncated
  <2> DEFINE ny == Last(go).k = "closing"
             r == Called([th[Running] EXCEPT !.tbc = Front(@)], ny)
             x == CallOf(Running, ny)
  <2>1. th' = [th EXCEPT ![Running] = r] /\ go' = Append(go, x) /\ x.t = Running
    BY <1>5 DEF CloseNext, CallClose, CallOf
  <2> HIDE DEF r, x
  <2> QED
    BY <1>2, <1>3, <2>1, OwnStep
<1> QED
  BY <1>4, <1>5

\* A coroutine that closed itself is off Go's stack while Lua code runs, or
\* while a variable is closed.
LEMMA SelfIsOff ==
  ASSUME Inv, Histories, SelfInv, NEW t \in closedSelf, (\E op : LuaRuns(op)) \/ CloseNext
  PROVE  ~On(go, t) /\ t \in Threads
<1>1. PICK F : Good(Machine, F)
  BY DEF Inv
<1>2. Finished(th[t], t, go) /\ t \in Threads
  BY DEF SelfInv, Histories, Threads
<1>3. CASE \E op : LuaRuns(op)
  <2>1. Lua(go) /\ go # <<>>
    BY <1>1, <1>3, LuaParts
  <2>2. ~Ends(Last(go))
    BY <2>1 DEF Lua, Ends
  <2> QED
    BY <1>2, <2>2 DEF Finished
<1>4. CASE CloseNext
  <2>1. Running # t
    BY <1>2, <1>4 DEF CloseNext, HasTBC, Finished
  <2> QED
    BY <1>2, <2>1 DEF Finished, Runs, Running
<1> QED
  BY <1>3, <1>4

\* A coroutine that closed itself, with Lua code running elsewhere.
LEMMA LuaApart ==
  ASSUME NEW F, Good(Machine, F), Histories, SelfInv, NEW op, LuaRuns(op), NEW t \in closedSelf
  PROVE  /\ ~On(go, t) /\ t \in Coroutines /\ t \in Threads /\ Running # t
         /\ th \in [Threads -> ThreadRecord] /\ go \in Seq(Activation) /\ go # <<>>
<1>1. Lua(go) /\ th \in [Threads -> ThreadRecord] /\ Body(Machine, F) /\ Machine.go = go /\ go # <<>>
  BY LuaParts
<1>2. go \in Seq(Activation)
  BY <1>1, BodyParts
<1>3. Finished(th[t], t, go)
  BY DEF SelfInv
<1>4. ~Ends(Last(go))
  BY <1>1 DEF Lua, Ends
<1>5. ~On(go, t)
  BY <1>3, <1>4 DEF Finished
<1>6. Running # t
  BY <1>1, <1>2, <1>5, TopIsOn DEF Running
<1> QED
  BY <1>1, <1>2, <1>5, <1>6 DEF Histories, Threads

\* So does a Resume of another coroutine; one that closed itself cannot be
\* resumed.
LEMMA ResumeApart ==
  ASSUME Inv, Histories, SelfInv, NEW t \in closedSelf, NEW co \in Coroutines, NEW wrap \in BOOLEAN, Resume(co, wrap)
  PROVE  th'[t] = th[t] /\ ~On(go', t)
<1>1. PICK F : Good(Machine, F)
  BY DEF Inv
<1>2. LuaRuns("resume")
  BY DEF Resume
<1>3. /\ ~On(go, t) /\ t \in Threads /\ Running # t
      /\ th \in [Threads -> ThreadRecord] /\ go \in Seq(Activation) /\ go # <<>>
  BY <1>1, <1>2, LuaApart
<1>4. co # t
  BY DEF Resume, SelfInv, Finished
<1> DEFINE q == Calling(th[Running])
           r == Resumed(th[co])
           x == [k |-> "resume", t |-> co, nny |-> th[co].nny, loop |-> FALSE, wrap |-> wrap]
<1>5. th' = [th EXCEPT ![Running] = q, ![co] = r] /\ go' = Append(go, x)
  BY DEF Resume
<1> HIDE DEF q, r
<1>6. th'[t] = th[t]
  <2> HIDE DEF Running
  <2> QED
    BY <1>3, <1>4, <1>5
<1>7. x.t # t
  BY <1>4
<1> HIDE DEF x
<1> QED
  BY <1>3, <1>5, <1>6, <1>7, TopIsOn

\* CloseThread of another coroutine; and of one that closed itself.
LEMMA CloseCallApart ==
  ASSUME Inv, Histories, SelfInv, NEW t \in closedSelf, NEW use, LuaRuns(use), NEW co \in Coroutines, NEW then \in {"close", "wrap"},
         Become(CloseThread([Machine EXCEPT !.th[Running] = Calling(@)], co, then))
  PROVE  Finished(th'[t], t, go')
<1>1. PICK F : Good(Machine, F)
  BY DEF Inv
<1>2. /\ ~On(go, t) /\ t \in Threads /\ Running # t
      /\ th \in [Threads -> ThreadRecord] /\ go \in Seq(Activation) /\ go # <<>>
  BY <1>1, LuaApart
<1> DEFINE q == Calling(th[Running])
           m == CallingMachine
           n == CloseThread(m, co, then)
<1>3. q \in ThreadRecord
  BY <1>1, CallingParts
<1>4. m = [Machine EXCEPT !.th[Running] = Calling(@)]
  BY DEF Machine, CallingMachine
<1>5. th' = n.th /\ go' = n.go
  BY <1>4 DEF Become
<1>6. m.th = [th EXCEPT ![Running] = q] /\ m.go = go
  BY DEF CallingMachine
<1> HIDE DEF m, q
<1>7. m.th[t] = th[t] /\ m.th \in [Threads -> ThreadRecord]
  <2> HIDE DEF Running
  <2> QED
    BY <1>2, <1>3, <1>6
<1>8. Finishes(m, t)
  <2>1. Finished(th[t], t, go)
    BY DEF SelfInv
  <2> QED
    BY <1>6, <1>7, <2>1 DEF Finishes
<1>9. co \in Threads /\ then \in {"pcall", "close", "wrap", "self"} /\ then \in {"close", "wrap", "self"}
  BY DEF Threads
<1>10. Finishes(n, t)
  <2>1. CASE co = t
    BY <1>2, <1>6, <1>7, <1>8, <1>9, <2>1, CloseFinished
  <2>2. CASE co # t
    <3>1. Untouched(m, n, t)
      BY <1>2, <1>6, <1>7, <1>9, <2>2, CloseUntouched
    <3> QED
      BY <1>8, <3>1, StaysFinished
  <2> QED
    BY <2>1, <2>2
<1> QED
  BY <1>5, <1>10 DEF Finishes

\* CloseRunning of another coroutine.
LEMMA CloseRunningApart ==
  ASSUME Inv, Histories, SelfInv, NEW t \in closedSelf, CloseRunning
  PROVE  th'[t] = th[t] /\ ~On(go', t)
<1>1. PICK F : Good(Machine, F)
  BY DEF Inv
<1>2. LuaRuns("closeSelf")
  BY DEF CloseRunning
<1>3. /\ ~On(go, t) /\ t \in Threads /\ Running # t /\ Running \in Threads
      /\ th \in [Threads -> ThreadRecord] /\ go \in Seq(Activation) /\ go # <<>>
  BY <1>1, <1>2, LuaApart, LuaParts
<1> DEFINE m == Machine
           n == CloseThread(m, Running, "self")
<1>4. th' = n.th /\ go' = n.go
  BY DEF CloseRunning, Become
<1>5. m.th = th /\ m.go = go
  BY DEF Machine
<1> HIDE DEF m
<1>6. Untouched(m, n, t)
  BY <1>3, <1>5, CloseUntouched
<1> HIDE DEF n
<1> QED
  BY <1>4, <1>5, <1>6 DEF Untouched

\* A call by the host.
LEMMA HostCallApart ==
  ASSUME Inv, Histories, SelfInv, NEW t \in closedSelf, HostCall
  PROVE  th'[t] = th[t] /\ ~On(go', t)
<1>1. PICK F : Good(Machine, F)
  BY DEF Inv
<1>2. th \in [Threads -> ThreadRecord]
  BY <1>1 DEF Good, Body, Typed, Machine
<1>3. t # Main /\ t \in Threads
  BY DEF SelfInv, Finished, Histories, Threads
<1> DEFINE r == Called(th[Main], TRUE)
           x == [k |-> "protect", t |-> Main, ci |-> <<>>, nny |-> 1, level |-> 1]
           y == [k |-> "call", t |-> Main, ny |-> TRUE]
<1>4. th' = [th EXCEPT ![Main] = r] /\ go' = <<x, y>>
  BY DEF HostCall
<1>5. x.t = Main /\ y.t = Main
  OBVIOUS
<1> HIDE DEF r, x, y
<1>6. th'[t] = th[t]
  BY <1>2, <1>3, <1>4
<1>7. \A j \in DOMAIN go' : go'[j] = x \/ go'[j] = y
  BY <1>4
<1> QED
  BY <1>3, <1>5, <1>6, <1>7 DEF On

\* A coroutine that closed itself ends there, or is left alone.
LEMMA EndCloseFinished ==
  ASSUME Inv, Histories, SelfInv, EndClose, NEW t \in closedSelf'
  PROVE  Finished(th'[t], t, go')
<1>1. PICK F : Good(Machine, F)
  BY DEF Inv
<1> DEFINE m == Machine
           e == Last(go)
           s == Running
<1>2. m.th = th /\ m.go = go /\ m = [th |-> th, go |-> go] /\ s = e.t
  BY DEF Machine, Running
<1>3. go # <<>> /\ Body(m, F) /\ e.k # "protect"
  BY <1>1, <1>2 DEF EndClose, Closing, Good
<1>4. /\ th' = (IF e.k = "closing" THEN EndClosing(e, m)
                 ELSE CASE Frame.op = "jump" -> [m EXCEPT !.th[s] = Mark(@, "run", 0)]
                        [] Frame.op = "error" -> [m EXCEPT !.th[s] = ReturnGo(@)]
                        [] Frame.op = "return" -> Leave(m)).th
      /\ go' = (IF e.k = "closing" THEN EndClosing(e, m)
                 ELSE CASE Frame.op = "jump" -> [m EXCEPT !.th[s] = Mark(@, "run", 0)]
                        [] Frame.op = "error" -> [m EXCEPT !.th[s] = ReturnGo(@)]
                        [] Frame.op = "return" -> Leave(m)).go
  BY DEF EndClose, Become
<1>5. ~HasTBC(th[s], Level)
  BY DEF EndClose
<1>6. closedSelf' = IF e.k = "closing" /\ e.then = "self" THEN closedSelf \union {s} ELSE closedSelf
  BY DEF EndClose
<1>7. e.k # "closing" => Frame.op \in {"jump", "return", "error"}
  BY DEF EndClose, Closing
<1> HIDE DEF m, s
<1>8. th \in [Threads -> ThreadRecord] /\ go \in Seq(Activation) /\ e \in Activation /\ s \in Threads
  BY <1>2, <1>3, BodyParts
<1>9. t \in closedSelf => Finished(th[t], t, go) /\ t \in Threads
  BY DEF SelfInv, Histories, Threads
<1>10. CASE t = s /\ Ends(e)
  <2>1. e.k = "closing" /\ e.then # "pcall"
    BY <1>10 DEF Ends
  <2> DEFINE n == EndClosing(e, m)
  <2>2. th' = n.th /\ go' = n.go
    BY <1>4, <2>1
  <2>3. m.go # <<>> /\ t = Last(m.go).t /\ Last(m.go) = e /\ Ends(Last(m.go)) /\ ~HasTBC(m.th[t], Last(m.go).level)
    BY <1>2, <1>3, <1>5, <1>10, <2>1 DEF Level
  <2> HIDE DEF e
  <2>4. Finishes(EndClosing(Last(m.go), m), t)
    <3>1. CASE Last(m.go).then = "self"
      <4>1. ClosesSelf(Last(m.go))
        BY <2>1, <2>3, <3>1 DEF ClosesSelf
      <4> QED
        BY ONLY <1>3, <2>3, <4>1, EndsSelf
    <3>2. CASE Last(m.go).then # "self"
      BY ONLY <1>3, <2>3, <3>2, EndsClose
    <3> QED
      BY <3>1, <3>2
  <2> QED
    BY <2>2, <2>3, <2>4 DEF Finishes
<1>11. CASE ~(t = s /\ Ends(e))
  <2>1. t \in closedSelf /\ t \in Threads /\ Finished(th[t], t, go)
    BY <1>6, <1>9, <1>11 DEF Ends
  <2>2. ~On(go, t)
    BY <1>2, <1>11, <2>1 DEF Finished, Runs
  <2>3. th'[t] = th[t] /\ ~On(go', t)
    <3>1. CASE e.k = "closing"
      <4> DEFINE n == EndClosing(e, m)
      <4>1. th' = n.th /\ go' = n.go
        BY <1>4, <3>1
      <4>2. m.go # <<>> /\ Last(m.go) = e /\ Last(m.go).k = "closing" /\ ~On(m.go, t)
        BY <1>2, <1>3, <2>2, <3>1
      <4> HIDE DEF e
      <4>3. Untouched(m, EndClosing(Last(m.go), m), t)
        BY ONLY <1>3, <2>1, <4>2, EndUntouched
      <4> QED
        BY <1>2, <4>1, <4>2, <4>3 DEF Untouched
    <3>2. CASE e.k # "closing"
      <4>1. Lua(m.go) /\ ~On(m.go, t)
        BY <1>2, <1>3, <1>8, <2>2, <3>2, ActivationParts DEF Lua
      <4>2. Untouched(m, Leave(m), t)
        BY ONLY <1>3, <2>1, <4>1, LeaveUntouched
      <4>3. s # t
        BY <1>2, <1>3, <1>8, <2>2, TopIsOn
      <4>4. CASE Frame.op = "return"
        <5> DEFINE n == Leave(m)
        <5>1. th' = n.th /\ go' = n.go
          BY <1>4, <3>2, <4>4
        <5> QED
          BY <1>2, <4>2, <5>1 DEF Untouched
      <4>5. CASE Frame.op = "jump"
        <5>1. [m EXCEPT !.th[s] = Mark(@, "run", 0)] = [th |-> [th EXCEPT ![s] = Mark(th[s], "run", 0)], go |-> go]
          BY <1>2
        <5>2. th' = [th EXCEPT ![s] = Mark(th[s], "run", 0)] /\ go' = go
          BY <1>4, <3>2, <4>5, <5>1
        <5> QED
          BY <1>8, <2>1, <2>2, <4>3, <5>2
      <4>6. CASE Frame.op = "error"
        <5>1. [m EXCEPT !.th[s] = ReturnGo(@)] = [th |-> [th EXCEPT ![s] = ReturnGo(th[s])], go |-> go]
          BY <1>2
        <5>2. th' = [th EXCEPT ![s] = ReturnGo(th[s])] /\ go' = go
          BY <1>4, <3>2, <4>6, <5>1
        <5> QED
          BY <1>8, <2>1, <2>2, <4>3, <5>2
      <4> QED
        BY <1>7, <3>2, <4>4, <4>5, <4>6
    <3> QED
      BY <3>1, <3>2
  <2> QED
    BY <2>1, <2>3 DEF Finished
<1> QED
  BY <1>10, <1>11

\* A coroutine that closed itself stays so.
LEMMA SelfStep ==
  ASSUME Inv, Histories, SelfInv, [Next]_vars
  PROVE  SelfInv'
<1>1. SUFFICES ASSUME NEW t \in closedSelf' PROVE Finished(th'[t], t, go')
  BY DEF SelfInv
<1>2. CASE EndClose
  BY <1>2, EndCloseFinished
<1>3. CASE UNCHANGED vars
  BY <1>3 DEF SelfInv, vars
<1>4. CASE Next /\ ~EndClose
  <2>1. closedSelf' = closedSelf
    BY <1>4 DEF Next, HostCall, CallLua, CallMeta, CallPcall, CallGo, Declare, Jump, Return, Error,
                Yield, Resume, WrapDead, CloseCoroutine, CloseRunning, CloseNext, CallClose, NoClose
  <2>2. t \in closedSelf /\ Finished(th[t], t, go)
    BY <2>1 DEF SelfInv
  <2>3. th'[t] = th[t] /\ ~On(go', t) => Finished(th'[t], t, go')
    BY <2>2 DEF Finished
  <2>4. CASE HostCall
    BY <2>2, <2>3, <2>4, HostCallApart
  <2>5. CASE CallLua \/ CallMeta \/ (\E continuation \in BOOLEAN : CallGo(continuation))
             \/ (\E v \in Variables : Declare(v)) \/ (\E i \in 1 .. Cardinality(Variables) : Jump(i)) \/ Return
    <3>1. ~On(go, t) /\ t \in Threads
      BY <2>2, <2>5, SelfIsOff DEF CallLua, CallMeta, CallGo, Declare, Jump, Return
    <3> QED
      BY <2>3, <2>5, <3>1, OwnElsewhere
  <2>6. CASE CallPcall
    <3>1. ~On(go, t) /\ t \in Threads
      BY <2>2, <2>6, SelfIsOff DEF CallPcall
    <3> QED
      BY <2>3, <2>6, <3>1, PcallElsewhere
  <2>7. CASE Error \/ Yield
    <3>1. ~On(go, t) /\ t \in Threads
      BY <2>2, <2>7, SelfIsOff DEF Error, Yield
    <3> QED
      BY <2>3, <2>7, <3>1, PanicElsewhere
  <2>8. CASE \E co \in Coroutines, wrap \in BOOLEAN : Resume(co, wrap)
    BY <2>2, <2>3, <2>8, ResumeApart
  <2>9. CASE \E co \in Coroutines : WrapDead(co)
    <3>1. PICK co \in Coroutines : WrapDead(co)
      BY <2>9
    <3> DEFINE use == "resume"
               then == "wrap"
    <3>2. LuaRuns(use) /\ Become(CloseThread([Machine EXCEPT !.th[Running] = Calling(@)], co, then)) /\ then \in {"close", "wrap"}
      BY <3>1 DEF WrapDead
    <3> HIDE DEF use, then
    <3> QED
      BY <2>2, <3>2, CloseCallApart
  <2>10. CASE \E co \in Coroutines : CloseCoroutine(co)
    <3>1. PICK co \in Coroutines : CloseCoroutine(co)
      BY <2>10
    <3> DEFINE use == "close"
    <3>2. LuaRuns(use) /\ Become(CloseThread([Machine EXCEPT !.th[Running] = Calling(@)], co, use)) /\ use \in {"close", "wrap"}
      BY <3>1 DEF CloseCoroutine
    <3> HIDE DEF use
    <3> QED
      BY <2>2, <3>2, CloseCallApart
  <2>11. CASE CloseRunning
    BY <2>2, <2>3, <2>11, CloseRunningApart
  <2>12. CASE CloseNext
    <3>1. ~On(go, t) /\ t \in Threads
      BY <2>2, <2>12, SelfIsOff
    <3> QED
      BY <2>3, <2>12, <3>1, CloseNextElsewhere
  <2> QED
    BY <1>4, <2>4, <2>5, <2>6, <2>7, <2>8, <2>9, <2>10, <2>11, <2>12 DEF Next
<1> QED
  BY <1>2, <1>3, <1>4

\* The histories and what they say of the coroutines that closed themselves.
LEMMA AlwaysSelf ==
  ASSUME "closeInPcall" \notin Uses
  PROVE  Spec => []SelfInv
<1>1. Init => Histories /\ SelfInv
  BY DEF Init, Histories, SelfInv
<1>2. Inv /\ Histories /\ SelfInv /\ [Next]_vars => Histories' /\ SelfInv'
  BY HistoriesStep, SelfStep
<1> QED
  BY <1>1, <1>2, AlwaysInv, PTL DEF Spec

\* A coroutine that closed itself never runs on: it has no function again,
\* whatever else closes, resumes or wraps it (CloseRunning, closeProtected).
THEOREM SelfCloseIsLast ==
  ASSUME "closeInPcall" \notin Uses
  PROVE  Spec => []SelfCloseEnds
<1>1. SelfInv => SelfCloseEnds
  BY DEF SelfInv, SelfCloseEnds, Finished
<1> QED
  BY <1>1, AlwaysSelf, PTL

\* Its Resume says that it finished, where no pcall has recovered before in
\* that Resume.
THEOREM SelfCloseIsNoDeath ==
  ASSUME "closeInPcall" \notin Uses, "closeRecovered" \notin Uses
  PROVE  Spec => []SelfCloseReturns
<1>1. SelfInv => SelfCloseReturns
  BY DEF SelfInv, SelfCloseReturns, Finished
<1> QED
  BY <1>1, AlwaysSelf, PTL

-----------------------------------------------------------------------------
(* The lists of variables.                                                 *)

\* A machine whose threads have lists, and one with the same lists.
Shaped(m) ==
  /\ m = [th |-> m.th, go |-> m.go] /\ DOMAIN m.th = Threads
  /\ \A t \in Threads : "tbc" \in DOMAIN m.th[t]
Keeps(m, n) == Shaped(n) /\ \A t \in Threads : n.th[t].tbc = m.th[t].tbc

\* One thread's record changes, but not its list.
LEMMA KeepsOne ==
  ASSUME NEW m, Shaped(m), NEW s, NEW r, s \in Threads => "tbc" \in DOMAIN r /\ r.tbc = m.th[s].tbc, NEW g
  PROVE  Keeps(m, [th |-> [m.th EXCEPT ![s] = r], go |-> g])
<1> DEFINE T == [m.th EXCEPT ![s] = r]
<1>1. DOMAIN T = Threads /\ \A t \in Threads : T[t] = IF t = s THEN r ELSE m.th[t]
  BY DEF Shaped
<1> HIDE DEF T
<1>2. Keeps(m, [th |-> T, go |-> g])
  BY <1>1 DEF Keeps, Shaped
<1> QED
  BY <1>2 DEF T

\* No thread's does.
LEMMA KeepsAll ==
  ASSUME NEW m, Shaped(m), NEW g
  PROVE  Keeps(m, [th |-> m.th, go |-> g]) /\ Keeps(m, m)
<1> DEFINE T == m.th
<1>1. DOMAIN T = Threads /\ \A t \in Threads : "tbc" \in DOMAIN T[t]
  BY DEF Shaped
<1> HIDE DEF T
<1>2. Keeps(m, [th |-> T, go |-> g])
  BY <1>1 DEF Keeps, Shaped, T
<1> QED
  BY <1>2 DEF Keeps, T

\* A step after another.
LEMMA KeepsTwice ==
  ASSUME NEW m, NEW n, NEW o, Keeps(m, n), Keeps(n, o)
  PROVE  Keeps(m, o)
BY DEF Keeps

\* The operators on a thread's call infos leave its list alone.
LEMMA ListAlone ==
  ASSUME NEW r, "tbc" \in DOMAIN r
  PROVE  /\ \A op, level : Mark(r, op, level).tbc = r.tbc /\ "tbc" \in DOMAIN Mark(r, op, level)
         /\ Calling(r).tbc = r.tbc /\ "tbc" \in DOMAIN Calling(r)
         /\ Continued(r).tbc = r.tbc /\ "tbc" \in DOMAIN Continued(r)
         /\ ReturnGo(r).tbc = r.tbc /\ "tbc" \in DOMAIN ReturnGo(r)
         /\ Recover(r).tbc = r.tbc /\ "tbc" \in DOMAIN Recover(r)
         /\ \A op, fresh : PushFrame(r, op, fresh).tbc = r.tbc /\ "tbc" \in DOMAIN PushFrame(r, op, fresh)
         /\ \A ny : Called(r, ny).tbc = r.tbc /\ "tbc" \in DOMAIN Called(r, ny)
         /\ Resumed(r).tbc = r.tbc /\ "tbc" \in DOMAIN Resumed(r)
<1>1. \A op, level : Mark(r, op, level).tbc = r.tbc /\ "tbc" \in DOMAIN Mark(r, op, level)
  BY DEF Mark
<1>2. ReturnGo(r).tbc = r.tbc /\ "tbc" \in DOMAIN ReturnGo(r)
  BY DEF ReturnGo, Mark
<1>3. Continued(r).tbc = r.tbc /\ "tbc" \in DOMAIN Continued(r)
  BY <1>1, <1>2 DEF Continued
<1>4. Recover(r).tbc = r.tbc /\ "tbc" \in DOMAIN Recover(r)
  BY DEF Recover
<1>5. \A op, fresh : PushFrame(r, op, fresh).tbc = r.tbc /\ "tbc" \in DOMAIN PushFrame(r, op, fresh)
  BY DEF PushFrame
<1>6. ASSUME NEW ny PROVE Called(r, ny).tbc = r.tbc /\ "tbc" \in DOMAIN Called(r, ny)
  <2> DEFINE p == PushFrame(r, "run", TRUE)
             k == p.nny + (IF ny THEN 1 ELSE 0)
  <2>1. p.tbc = r.tbc /\ "tbc" \in DOMAIN p
    BY <1>5
  <2>2. Called(r, ny) = [p EXCEPT !.nny = k]
    BY DEF Called
  <2> HIDE DEF p, k
  <2> QED
    BY <2>1, <2>2
<1>7. Resumed(r).tbc = r.tbc /\ "tbc" \in DOMAIN Resumed(r)
  <2> DEFINE p == IF r.fresh THEN PushFrame(r, "run", TRUE) ELSE Continued(r)
  <2>1. p.tbc = r.tbc /\ "tbc" \in DOMAIN p
    BY <1>3, <1>5
  <2>2. Resumed(r) = [p EXCEPT !.status = "ok", !.fresh = FALSE, !.nny = 0]
    BY DEF Resumed
  <2> HIDE DEF p
  <2> QED
    BY <2>1, <2>2
<1>8. Calling(r).tbc = r.tbc /\ "tbc" \in DOMAIN Calling(r)
  BY <1>1 DEF Calling
<1> QED
  BY <1>1, <1>2, <1>3, <1>4, <1>5, <1>6, <1>7, <1>8

\* A return.
LEMMA KeepsBack ==
  ASSUME NEW m, Shaped(m)
  PROVE  Keeps(m, Back(m))
<1>1. CASE m.go = <<>> \/ Last(m.go).k = "closing"
  BY <1>1, KeepsAll DEF Back
<1>2. CASE ~(m.go = <<>> \/ Last(m.go).k = "closing")
  <2> DEFINE s == Last(m.go).t
             r == Continued(m.th[s])
             T == m.th
             g == m.go
  <2>1. Back(m) = [m EXCEPT !.th[s] = Continued(@)] /\ m = [th |-> T, go |-> g]
    BY <1>2 DEF Back, Shaped
  <2>2. Back(m) = [th |-> [T EXCEPT ![s] = r], go |-> g]
    <3> HIDE DEF s, g
    <3> QED
      BY <2>1
  <2> HIDE DEF s
  <2>3. s \in Threads => "tbc" \in DOMAIN r /\ r.tbc = T[s].tbc
    BY ListAlone DEF Shaped
  <2> HIDE DEF r
  <2> QED
    BY <2>2, <2>3, KeepsOne
<1> QED
  BY <1>1, <1>2

\* CloseThread, up to its loop.
LEMMA KeepsClose ==
  ASSUME NEW m, Shaped(m), NEW co \in Threads, NEW then
  PROVE  Keeps(m, CloseThread(m, co, then))
<1> DEFINE r == m.th[co]
           q == [r EXCEPT !.status = "ok", !.death = FALSE, !.fresh = FALSE, !.ci = <<>>, !.nny = 1]
           x == [k |-> "closing", t |-> co, ci |-> <<>>, nny |-> 1, level |-> 1, err |-> r.death, then |-> then]
           g == Append(m.go, x)
<1>1. CloseThread(m, co, then) = [th |-> [m.th EXCEPT ![co] = q], go |-> g]
  BY DEF CloseThread
<1>2. "tbc" \in DOMAIN r
  BY DEF Shaped
<1>3. "tbc" \in DOMAIN q /\ q.tbc = r.tbc
  <2> HIDE DEF r
  <2> QED
    BY <1>2
<1> HIDE DEF q, g
<1> QED
  BY <1>1, <1>3, KeepsOne

\* auxResume's caller.
LEMMA KeepsResumeFailed ==
  ASSUME NEW m, Shaped(m), NEW co \in Threads, NEW wrap
  PROVE  Keeps(m, ResumeFailed(m, co, wrap))
BY KeepsBack, KeepsClose DEF ResumeFailed

\* Resume, when a panic ends its protect.
LEMMA KeepsCaught ==
  ASSUME NEW m, Shaped(m), NEW e, e.t \in Threads, NEW kind
  PROVE  Keeps(m, CaughtByResume(kind, m, e))
<1> DEFINE s == e.t
           k == e.nny
           g == Front(m.go)
           r == m.th[s]
           a == [r EXCEPT !.nny = k]
           d == [r EXCEPT !.nny = k, !.status = "error", !.death = TRUE]
           ended == [th |-> [m.th EXCEPT ![s].nny = k], go |-> g]
           died == [ended EXCEPT !.th[s].status = "error", !.th[s].death = TRUE]
           h == Append(g, [e EXCEPT !.loop = TRUE])
           again == [th |-> [m.th EXCEPT ![s] = Recover(r)], go |-> h]
<1>1. "tbc" \in DOMAIN r
  BY DEF Shaped
<1>2. ended = [th |-> [m.th EXCEPT ![s] = a], go |-> g]
  <2> HIDE DEF s, g, k
  <2> QED
    OBVIOUS
<1>3. died = [th |-> [m.th EXCEPT ![s] = d], go |-> g]
  <2>1. DOMAIN m.th = Threads
    BY DEF Shaped
  <2> HIDE DEF k, g, s
  <2>2. s \in Threads
    BY DEF s
  <2>3. Died(m.th, s, k, g) = [th |-> [m.th EXCEPT ![s] = Dead(m.th[s], k)], go |-> g]
    BY <2>1, <2>2, DeadIs
  <2> QED
    BY <2>3 DEF Died, Dead
<1>4. /\ "tbc" \in DOMAIN a /\ a.tbc = r.tbc /\ "tbc" \in DOMAIN d /\ d.tbc = r.tbc
      /\ "tbc" \in DOMAIN Recover(r) /\ Recover(r).tbc = r.tbc
  <2> HIDE DEF r
  <2> QED
    BY <1>1, ListAlone
<1>5. Keeps(m, again)
  <2> HIDE DEF h, s
  <2>1. s \in Threads
    BY DEF s
  <2> QED
    BY <1>4, KeepsOne
<1> HIDE DEF a, d, ended, died, g, again
<1>6. Keeps(m, ended) /\ Keeps(m, died)
  BY <1>2, <1>3, <1>4, KeepsOne
<1>7. Shaped(ended) /\ Shaped(died)
  BY <1>6 DEF Keeps
<1>8. Keeps(m, Back(ended)) /\ Keeps(m, ResumeFailed(ended, s, e.wrap)) /\ Keeps(m, ResumeFailed(died, s, e.wrap))
  BY <1>6, <1>7, KeepsBack, KeepsResumeFailed, KeepsTwice
<1>9. CaughtByResume(kind, m, e) \in {Back(ended), ResumeFailed(ended, s, e.wrap), ResumeFailed(died, s, e.wrap), again}
  <2> HIDE DEF h
  <2> QED
    BY DEF CaughtByResume, ended, died, g, again, h
<1> HIDE DEF s
<1> QED
  BY <1>5, <1>8, <1>9

\* A panic, to what recovers it.
LEMMA KeepsThrow ==
  ASSUME NEW m, Shaped(m), m.go \in Seq(Activation), NEW kind, NEW b \in 1 .. Len(m.go), Catches(m.go[b], kind)
  PROVE  Keeps(m, Throw(kind, m))
<1> DEFINE h == m.go
           i == Max({j \in 1 .. Len(h) : Catches(h[j], kind)})
           e == h[i]
           g == SubSeq(h, 1, i - 1)
           r == m.th[e.t]
           q == [r EXCEPT !.ci = e.ci, !.nny = e.nny]
           reset == [m.th EXCEPT ![e.t].ci = e.ci, ![e.t].nny = e.nny]
           w == [m EXCEPT !.go = Append(g, e)]
           x == Append(g, [k |-> "closing", t |-> e.t, ci |-> e.ci, nny |-> e.nny, level |-> e.level, err |-> TRUE, then |-> "pcall"])
           y == Append(g, [e EXCEPT !.err = @ \/ kind # "closed"])
<1>1. i \in 1 .. Len(h) /\ Catches(h[i], kind)
  BY CatchIs
<1> HIDE DEF i
<1>2. e.t \in Threads
  BY <1>1, ActivationParts
<1>3. Throw(kind, m) = CASE e.k = "resume" -> CaughtByResume(kind, w, e)
                         [] e.k = "protect" -> [th |-> reset, go |-> x]
                         [] e.k = "closing" -> [th |-> reset, go |-> y]
  BY DEF Throw, i
<1>4. e.k \in {"resume", "closing", "protect"}
  BY <1>1 DEF Catches
<1> HIDE DEF h, e
<1>5. Keeps(m, CaughtByResume(kind, w, e))
  <2>1. Keeps(m, w)
    <3> DEFINE T == m.th
               l == Append(g, e)
    <3>1. m = [th |-> T, go |-> m.go]
      BY DEF Shaped
    <3> HIDE DEF T, l, g
    <3>2. w = [th |-> T, go |-> l]
      <4>1. [m EXCEPT !.go = l] = [th |-> T, go |-> l]
        BY ONLY <3>1
      <4> QED
        BY <4>1 DEF l
    <3> QED
      BY <3>2, KeepsAll, Zenon DEF T
  <2> HIDE DEF w
  <2>2. Keeps(w, CaughtByResume(kind, w, e))
    BY <1>2, <2>1, KeepsCaught DEF Keeps
  <2> QED
    BY <2>1, <2>2, KeepsTwice
<1>6. reset = [m.th EXCEPT ![e.t] = q]
  <2> DEFINE c == e.ci
             k == e.nny
             s == e.t
             T == m.th
  <2>1. s \in DOMAIN T
    BY <1>2 DEF Shaped
  <2> HIDE DEF c, k, s, T
  <2>2. [T EXCEPT ![s].ci = c, ![s].nny = k] = [T EXCEPT ![s] = [T[s] EXCEPT !.ci = c, !.nny = k]]
    BY <2>1
  <2> QED
    BY <2>2 DEF c, k, s, T
<1>7. "tbc" \in DOMAIN q /\ q.tbc = r.tbc
  <2>1. "tbc" \in DOMAIN r
    BY <1>2 DEF Shaped
  <2> HIDE DEF r
  <2> QED
    BY <2>1
<1> HIDE DEF q, x, y, w, reset, g
<1>8. Keeps(m, [th |-> reset, go |-> x]) /\ Keeps(m, [th |-> reset, go |-> y])
  BY <1>6, <1>7, KeepsOne
<1> QED
  BY <1>3, <1>4, <1>5, <1>8

\* A machine in order.
LEMMA BodyShaped ==
  ASSUME NEW m, NEW F, Body(m, F)
  PROVE  Shaped(m) /\ m.go \in Seq(Activation) /\ GoOk(m.go)
<1>1. m = [th |-> m.th, go |-> m.go] /\ m.th \in [Threads -> ThreadRecord] /\ m.go \in Seq(Activation) /\ GoOk(m.go)
  BY BodyParts
<1> DEFINE T == m.th
<1>2. T \in [Threads -> ThreadRecord]
  BY <1>1
<1> HIDE DEF T
<1>3. DOMAIN T = Threads /\ \A t \in Threads : "tbc" \in DOMAIN T[t]
  BY <1>2 DEF ThreadRecord
<1> QED
  BY <1>1, <1>3 DEF Shaped, T

\* A Lua function returns.
LEMMA KeepsLeave ==
  ASSUME NEW m, NEW F, Body(m, F), Lua(m.go)
  PROVE  Keeps(m, Leave(m))
<1> DEFINE g == m.go
           e == Last(g)
           s == e.t
           f == Last(m.th[s].ci)
           r == m.th[s]
           a == [r EXCEPT !.ci = Front(@)]
           n == [th |-> [m.th EXCEPT ![s] = a], go |-> g]
           h == Front(n.go)
           k == e.nny
           o == [th |-> [n.th EXCEPT ![s].nny = k], go |-> h]
<1>1. Shaped(m) /\ g \in Seq(Activation)
  BY BodyShaped
<1>2. s \in Threads
  BY BodyParts DEF Lua
<1>3. Leave(m) = Back(IF ~f.fresh THEN n
                      ELSE IF e.k = "call" THEN EndCall(n)
                      ELSE IF n.th[s].ci # <<>> THEN n
                      ELSE o)
  <2> DEFINE W == [m EXCEPT !.th[s].ci = Front(@)]
  <2>1. W = n
    BY <1>2, PopIs
  <2>2. Leave(m) = Back(IF ~f.fresh THEN W
                        ELSE IF e.k = "call" THEN EndCall(W)
                        ELSE IF W.th[s].ci # <<>> THEN W
                        ELSE [th |-> [W.th EXCEPT ![s].nny = e.nny], go |-> Front(W.go)])
    <3> HIDE DEF W
    <3> QED
      BY DEF Leave, W
  <2> HIDE DEF W, n, f, e, s
  <2> QED
    BY <2>1, <2>2 DEF o, k, h
<1>4. "tbc" \in DOMAIN a /\ a.tbc = r.tbc
  <2>1. "tbc" \in DOMAIN r
    BY <1>1, <1>2 DEF Shaped
  <2> HIDE DEF r
  <2> QED
    BY <2>1
<1> HIDE DEF a
<1>5. Keeps(m, n) /\ n.go = g
  <2> HIDE DEF g
  <2> QED
    BY <1>1, <1>4, KeepsOne
<1> HIDE DEF n, f, h, k
<1>6. "tbc" \in DOMAIN n.th[s] /\ Shaped(n)
  BY <1>2, <1>5 DEF Keeps, Shaped
<1>7. \A j, l : Keeps(n, [th |-> [n.th EXCEPT ![s].nny = j], go |-> l])
  <2> SUFFICES ASSUME NEW j, NEW l PROVE Keeps(n, [th |-> [n.th EXCEPT ![s].nny = j], go |-> l])
    OBVIOUS
  <2> DEFINE p == n.th[s]
             q == [p EXCEPT !.nny = j]
  <2>1. "tbc" \in DOMAIN q /\ q.tbc = p.tbc
    <3>1. "tbc" \in DOMAIN p
      BY <1>6
    <3> HIDE DEF p
    <3> QED
      BY <3>1
  <2>2. [n.th EXCEPT ![s].nny = j] = [n.th EXCEPT ![s] = q]
    <3> HIDE DEF s
    <3> QED
      OBVIOUS
  <2> HIDE DEF q, s
  <2> QED
    BY <1>6, <2>1, <2>2, KeepsOne
<1>8. Keeps(n, o)
  BY <1>7
<1>9. Keeps(n, EndCall(n))
  <2> DEFINE z == Last(n.go)
             u == n.th[s].nny - (IF z.ny THEN 1 ELSE 0)
             l == IF Front(n.go) # <<>> /\ Last(Front(n.go)).k = "protect" THEN Front(Front(n.go)) ELSE Front(n.go)
  <2>1. EndCall(n) = [th |-> [n.th EXCEPT ![z.t].nny = @ - (IF z.ny THEN 1 ELSE 0)], go |-> l]
    BY DEF EndCall
  <2>2. z.t = s
    BY <1>5
  <2> HIDE DEF l, z, s
  <2>3. [n.th EXCEPT ![s].nny = @ - (IF z.ny THEN 1 ELSE 0)] = [n.th EXCEPT ![s].nny = u]
    OBVIOUS
  <2> HIDE DEF u
  <2> QED
    BY <1>7, <2>1, <2>2, <2>3
<1> HIDE DEF o, e, s
<1>10. \A v : Keeps(m, v) => Keeps(m, Back(v))
  BY KeepsBack, KeepsTwice DEF Keeps
<1>11. Keeps(m, o) /\ Keeps(m, EndCall(n))
  BY <1>5, <1>8, <1>9, KeepsTwice
<1> QED
  BY <1>3, <1>5, <1>10, <1>11

\* The end of a closing.
LEMMA KeepsEnd ==
  ASSUME NEW m, NEW F, Body(m, F), m.go # <<>>, Last(m.go).k = "closing"
  PROVE  Keeps(m, EndClosing(Last(m.go), m))
<1> DEFINE g == m.go
           e == Last(g)
           s == e.t
           h == Front(g)
           b == e.err
           r == m.th[s]
           a == [r EXCEPT !.status = IF b THEN "error" ELSE @]
           n == [th |-> [m.th EXCEPT ![s].status = IF b THEN "error" ELSE @], go |-> h]
           o == [m EXCEPT !.go = h]
<1>1. Shaped(m) /\ g \in Seq(Activation) /\ GoOk(g)
  BY BodyShaped
<1>2. e \in Activation /\ s \in Threads /\ e.then \in {"pcall", "close", "wrap", "self"} /\ e = g[Len(g)] /\ Len(g) \in DOMAIN g
  BY BodyParts, ActivationParts
<1>3. h \in Seq(Activation) /\ Len(h) = Len(g) - 1 /\ Len(g) \in Nat /\ \A j \in 1 .. Len(h) : h[j] = g[j]
  <2> DEFINE l == Len(g) - 1
  <2>1. h = SubSeq(g, 1, l)
    BY DEF Front
  <2>2. l \in 0 .. Len(g) /\ Len(g) \in Nat
    BY <1>1, <1>2
  <2> HIDE DEF l, h
  <2>3. h \in Seq(Activation) /\ Len(h) = l /\ \A j \in 1 .. Len(h) : h[j] = g[j]
    BY <1>1, <2>1, <2>2, FirstOnes
  <2> QED
    BY <2>2, <2>3 DEF l
<1>4. "tbc" \in DOMAIN a /\ a.tbc = r.tbc
  <2>1. "tbc" \in DOMAIN r
    BY <1>1, <1>2 DEF Shaped
  <2> HIDE DEF r, b
  <2> QED
    BY <2>1
<1>5. n = [th |-> [m.th EXCEPT ![s] = a], go |-> h]
  <2> HIDE DEF s, b, h
  <2> QED
    OBVIOUS
<1> HIDE DEF a
<1>6. Keeps(m, n) /\ n.go = h /\ Shaped(n)
  <2> HIDE DEF s, h
  <2>1. n.go = h
    BY <1>5
  <2> HIDE DEF n
  <2>2. Keeps(m, n)
    BY <1>1, <1>4, <1>5, KeepsOne
  <2>3. Shaped(n)
    BY <2>2 DEF Keeps
  <2> QED
    BY <2>1, <2>2, <2>3
<1>7. Keeps(m, o) /\ Shaped(o)
  <2> DEFINE T == m.th
  <2>1. m = [th |-> T, go |-> g]
    BY <1>1 DEF Shaped
  <2> HIDE DEF T, g, h
  <2>2. o = [th |-> T, go |-> h]
    BY ONLY <2>1
  <2> HIDE DEF o
  <2> QED
    BY <1>1, <2>2, KeepsAll DEF T, Keeps
<1> HIDE DEF n, o
<1>8. Keeps(m, Back(o)) /\ Keeps(m, Back(n))
  BY <1>6, <1>7, KeepsBack, KeepsTwice
<1>9. e.then = "wrap" => Keeps(m, Throw("error", n))
  <2> SUFFICES ASSUME e.then = "wrap" PROVE Keeps(m, Throw("error", n))
    OBVIOUS
  <2>1. Hosts(g[1]) /\ ~Hosts(e)
    BY <1>1 DEF GoOk, Hosts, Protects
  <2>2. 1 \in 1 .. Len(h) /\ h[1] = g[1]
    <3> HIDE DEF g, h
    <3>1. Len(g) \in 1 .. Len(g) /\ Len(g) # 1
      BY <1>1, <1>2, <2>1 DEF e
    <3> QED
      BY <1>3, <3>1
  <2>3. 1 \in 1 .. Len(n.go) /\ Catches(n.go[1], "error")
    BY <1>6, <2>1, <2>2 DEF Catches, Hosts, Protects
  <2>4. Keeps(n, Throw("error", n))
    BY <1>3, <1>6, <2>3, KeepsThrow
  <2> QED
    BY <1>6, <2>4, KeepsTwice
<1>10. e.then = "self" => Keeps(m, Throw("closed", n))
  <2> SUFFICES ASSUME e.then = "self" PROVE Keeps(m, Throw("closed", n))
    OBVIOUS
  <2> DEFINE c == Max({j \in 1 .. Len(h) : Catches(h[j], "closed")})
  <2>1. c \in 1 .. Len(h) /\ Catches(h[c], "closed")
    <3>1. ClosesSelf(Last(g))
      BY DEF ClosesSelf
    <3>2. c \in 1 .. Len(h) /\ h[c] = g[c] /\ (g[c].k = "resume" \/ Ends(g[c]))
      <4> HIDE DEF g, e
      <4>1. g # <<>>
        BY DEF g
      <4>2. Front(g) = h
        OBVIOUS
      <4> HIDE DEF h
      <4> QED
        BY <1>1, <3>1, <4>1, <4>2, ClosedCatch
    <3> HIDE DEF c, h
    <3> QED
      BY <3>2 DEF Catches, Ends
  <2> HIDE DEF c
  <2>2. c \in 1 .. Len(n.go) /\ Catches(n.go[c], "closed")
    BY <1>6, <2>1
  <2>3. Keeps(n, Throw("closed", n))
    BY <1>3, <1>6, <2>2, KeepsThrow
  <2> QED
    BY <1>6, <2>3, KeepsTwice
<1>11. EndClosing(e, m) = CASE e.then = "pcall" -> Back(o)
                            [] e.then = "close" -> Back(n)
                            [] e.then = "wrap" -> Throw("error", n)
                            [] e.then = "self" -> Throw("closed", n)
  <2> HIDE DEF e
  <2> QED
    BY DEF EndClosing, n, o, s, b, h
<1> HIDE DEF e
<1> QED
  BY <1>2, <1>8, <1>9, <1>10, <1>11 DEF e

\* A step that leaves every list alone.
ListsKept == \A t \in Threads : th'[t].tbc = th[t].tbc

\* One thread's record changes, but not its list.
LEMMA OneKept ==
  ASSUME th \in [Threads -> ThreadRecord], NEW s \in Threads, NEW r, th' = [th EXCEPT ![s] = r], r.tbc = th[s].tbc
  PROVE  ListsKept
BY DEF ListsKept

\* A helper that keeps the lists.
LEMMA MachineKept ==
  ASSUME NEW n, Keeps(Machine, n), th' = n.th
  PROVE  ListsKept
BY DEF Keeps, ListsKept, Machine

\* Lua code's own thread.
LEMMA LuaListed ==
  ASSUME NEW F, Good(Machine, F), NEW op, LuaRuns(op)
  PROVE  /\ th \in [Threads -> ThreadRecord] /\ Running \in Threads /\ "tbc" \in DOMAIN th[Running]
         /\ Shaped(Machine) /\ Machine.th = th /\ Machine.go = go /\ go \in Seq(Activation) /\ GoOk(go) /\ go # <<>>
<1>1. Body(Machine, F) /\ Machine.th = th /\ Machine.go = go /\ Running \in Threads /\ th \in [Threads -> ThreadRecord] /\ go # <<>>
  BY LuaParts
<1>2. Shaped(Machine) /\ Machine.go \in Seq(Activation) /\ GoOk(Machine.go)
  BY <1>1, BodyShaped
<1> QED
  BY <1>1, <1>2 DEF Shaped

\* Only newTBC and closeTBC change a list.
LEMMA OwnKept ==
  ASSUME NEW F, Good(Machine, F),
         \/ CallLua \/ CallMeta \/ CallPcall \/ (\E continuation \in BOOLEAN : CallGo(continuation))
         \/ (\E i \in 1 .. Cardinality(Variables) : Jump(i)) \/ Return
  PROVE  ListsKept
<1>1. PICK op : LuaRuns(op)
  BY DEF CallLua, CallMeta, CallPcall, CallGo, Jump, Return
<1> DEFINE r == th[Running]
<1>2. th \in [Threads -> ThreadRecord] /\ Running \in Threads /\ "tbc" \in DOMAIN r
  BY <1>1, LuaListed
<1>3. Calling(r).tbc = r.tbc /\ "tbc" \in DOMAIN Calling(r)
  BY <1>2, ListAlone
<1>4. \A use, fresh : PushFrame(Calling(r), use, fresh).tbc = r.tbc /\ "tbc" \in DOMAIN PushFrame(Calling(r), use, fresh)
  BY <1>3, ListAlone
<1>5. CASE CallLua
  <2> DEFINE q == PushFrame(Calling(r), "run", FALSE)
  <2>1. th' = [th EXCEPT ![Running] = q] /\ q.tbc = r.tbc
    BY <1>4, <1>5 DEF CallLua
  <2> HIDE DEF q
  <2> QED
    BY <1>2, <2>1, OneKept
<1>6. CASE CallMeta
  <2> DEFINE q == Called(Calling(r), FALSE)
  <2>1. th' = [th EXCEPT ![Running] = q] /\ q.tbc = r.tbc
    BY <1>3, <1>6, ListAlone DEF CallMeta
  <2> HIDE DEF q
  <2> QED
    BY <1>2, <2>1, OneKept
<1>7. CASE CallPcall
  <2> DEFINE p == PushFrame(Calling(r), "pcall", FALSE)
             y == Mark(p, "protect", 0)
             a == Called(p, FALSE)
             b == Called(y, TRUE)
  <2>1. th' = [th EXCEPT ![Running] = a] \/ th' = [th EXCEPT ![Running] = b]
    BY <1>7 DEF CallPcall
  <2>2. p.tbc = r.tbc /\ "tbc" \in DOMAIN p
    BY <1>4
  <2> HIDE DEF p
  <2>3. a.tbc = r.tbc /\ y.tbc = r.tbc /\ "tbc" \in DOMAIN y
    <3>1. /\ \A use, level : Mark(p, use, level).tbc = p.tbc /\ "tbc" \in DOMAIN Mark(p, use, level)
          /\ \A ny : Called(p, ny).tbc = p.tbc
      BY <2>2, ListAlone
    <3> QED
      BY <2>2, <3>1
  <2> HIDE DEF y
  <2>4. b.tbc = r.tbc
    BY ONLY <2>3, ListAlone
  <2> HIDE DEF a, b
  <2> QED
    BY <1>2, <2>1, <2>3, <2>4, OneKept
<1>8. CASE \E continuation \in BOOLEAN : CallGo(continuation)
  <2>1. PICK continuation \in BOOLEAN : CallGo(continuation)
    BY <1>8
  <2> DEFINE ny == ~continuation \/ r.nny > 0
             p == PushFrame(Calling(r), IF ny THEN "plain" ELSE "callk", FALSE)
             q == Called(p, ny)
  <2>2. th' = [th EXCEPT ![Running] = q]
    BY <2>1 DEF CallGo
  <2>3. p.tbc = r.tbc /\ "tbc" \in DOMAIN p
    BY <1>4
  <2> HIDE DEF p
  <2>4. q.tbc = r.tbc
    BY ONLY <2>3, ListAlone
  <2> HIDE DEF q
  <2> QED
    BY <1>2, <2>2, <2>4, OneKept
<1>9. CASE \E i \in 1 .. Cardinality(Variables) : Jump(i)
  <2>1. PICK i \in 1 .. Cardinality(Variables) : Jump(i)
    BY <1>9
  <2> DEFINE q == Mark(r, "jump", r.tbc[i].level)
  <2>2. th' = [th EXCEPT ![Running] = q] /\ q.tbc = r.tbc
    BY <1>2, <2>1, ListAlone DEF Jump
  <2> HIDE DEF q
  <2> QED
    BY <1>2, <2>2, OneKept
<1>10. CASE Return
  <2> DEFINE q == Mark(r, "return", Frame.pos)
  <2>1. th' = [th EXCEPT ![Running] = q] /\ q.tbc = r.tbc
    BY <1>2, <1>10, ListAlone DEF Return
  <2> HIDE DEF q
  <2> QED
    BY <1>2, <2>1, OneKept
<1> QED
  BY <1>5, <1>6, <1>7, <1>8, <1>9, <1>10

\* An error or a yield keeps the lists.
LEMMA PanicKept ==
  ASSUME NEW F, Good(Machine, F), Error \/ Yield
  PROVE  ListsKept
<1>1. PICK op : LuaRuns(op)
  BY DEF Error, Yield
<1>2. /\ th \in [Threads -> ThreadRecord] /\ Running \in Threads /\ "tbc" \in DOMAIN th[Running]
      /\ Shaped(Machine) /\ Machine.th = th /\ Machine.go = go /\ go \in Seq(Activation) /\ GoOk(go) /\ go # <<>>
  BY <1>1, LuaListed
<1>3. CASE Error
  <2> DEFINE n == Throw("error", Machine)
  <2>1. th' = n.th
    BY <1>3 DEF Error, Become
  <2>2. 1 \in 1 .. Len(Machine.go) /\ Catches(Machine.go[1], "error")
    BY <1>2, FirstCatches
  <2>3. Keeps(Machine, n)
    BY <1>2, <2>2, KeepsThrow
  <2> HIDE DEF n
  <2> QED
    BY <2>1, <2>3, MachineKept
<1>4. CASE Yield
  <2> DEFINE s == Running
             q == [Calling(th[s]) EXCEPT !.status = "yield"]
             m == [Machine EXCEPT !.th[s] = [Calling(@) EXCEPT !.status = "yield"]]
             n == Throw("yield", m)
  <2>1. th' = n.th
    BY <1>4 DEF Yield, Become
  <2>2. m = [th |-> [Machine.th EXCEPT ![s] = q], go |-> go]
    <3> HIDE DEF s
    <3> QED
      BY DEF Machine
  <2>3. "tbc" \in DOMAIN q /\ q.tbc = th[s].tbc
    <3> DEFINE p == Calling(th[s])
    <3>1. "tbc" \in DOMAIN p /\ p.tbc = th[s].tbc
      BY <1>2, ListAlone
    <3> HIDE DEF p
    <3>2. "tbc" \in DOMAIN [p EXCEPT !.status = "yield"] /\ [p EXCEPT !.status = "yield"].tbc = p.tbc
      BY <3>1
    <3> QED
      BY <3>1, <3>2 DEF p
  <2> HIDE DEF m, s, q
  <2>4. Keeps(Machine, m)
    BY <1>2, <2>2, <2>3, KeepsOne
  <2>5. m.go = go /\ Shaped(m)
    BY <2>2, <2>4 DEF Keeps
  <2>6. 1 \in 1 .. Len(m.go) /\ Catches(m.go[1], "yield")
    BY <1>2, <2>5, FirstCatches
  <2>7. Keeps(m, n)
    BY <1>2, <2>5, <2>6, KeepsThrow
  <2>8. Keeps(Machine, n)
    BY <2>4, <2>7, KeepsTwice
  <2> HIDE DEF n
  <2> QED
    BY <2>1, <2>8, MachineKept
<1> QED
  BY <1>3, <1>4

\* Resume keeps the lists.
LEMMA ResumeKept ==
  ASSUME NEW F, Good(Machine, F), NEW co \in Coroutines, NEW wrap \in BOOLEAN, Resume(co, wrap)
  PROVE  ListsKept
<1>1. LuaRuns("resume")
  BY DEF Resume
<1>2. th \in [Threads -> ThreadRecord] /\ Running \in Threads /\ "tbc" \in DOMAIN th[Running] /\ Shaped(Machine)
  BY <1>1, LuaListed
<1> DEFINE q == Calling(th[Running])
           r == Resumed(th[co])
           s == Running
<1>3. th' = [th EXCEPT ![s] = q, ![co] = r]
  BY DEF Resume
<1>4. q.tbc = th[s].tbc
  BY <1>2, ListAlone
<1>5. r.tbc = th[co].tbc
  <2>1. "tbc" \in DOMAIN th[co]
    BY <1>2 DEF Shaped, Machine, Threads
  <2> QED
    BY <2>1, ListAlone
<1> HIDE DEF q, r, s
<1> QED
  BY <1>2, <1>3, <1>4, <1>5 DEF ListsKept, Threads

\* CloseThread keeps the lists, up to its loop.
LEMMA CloseKept ==
  ASSUME NEW F, Good(Machine, F),
         (\E co \in Coroutines : WrapDead(co) \/ CloseCoroutine(co)) \/ CloseRunning
  PROVE  ListsKept
<1>1. PICK op : LuaRuns(op)
  BY DEF WrapDead, CloseCoroutine, CloseRunning
<1>2. th \in [Threads -> ThreadRecord] /\ Running \in Threads /\ "tbc" \in DOMAIN th[Running] /\ Shaped(Machine) /\ Machine.th = th
  BY <1>1, LuaListed
<1>3. CASE CloseRunning
  <2> DEFINE n == CloseThread(Machine, Running, "self")
  <2>1. th' = n.th
    BY <1>3 DEF CloseRunning, Become
  <2>2. Keeps(Machine, n)
    BY <1>2, KeepsClose
  <2> HIDE DEF n
  <2> QED
    BY <2>1, <2>2, MachineKept
<1>4. CASE \E co \in Coroutines : WrapDead(co) \/ CloseCoroutine(co)
  <2>1. PICK co \in Coroutines : WrapDead(co) \/ CloseCoroutine(co)
    BY <1>4
  <2> DEFINE q == Calling(th[Running])
             m == [th |-> [Machine.th EXCEPT ![Running] = q], go |-> go]
  <2>2. [Machine EXCEPT !.th[Running] = Calling(@)] = m
    <3> HIDE DEF Running
    <3> QED
      BY DEF Machine
  <2>3. th' = CloseThread(m, co, "wrap").th \/ th' = CloseThread(m, co, "close").th
    <3> HIDE DEF m
    <3> QED
      BY <2>1, <2>2 DEF WrapDead, CloseCoroutine, Become
  <2>4. "tbc" \in DOMAIN q /\ q.tbc = th[Running].tbc
    BY <1>2, ListAlone
  <2> HIDE DEF q
  <2>5. Keeps(Machine, m)
    BY <1>2, <2>4, KeepsOne
  <2>6. co \in Threads /\ Shaped(m)
    BY <2>5 DEF Keeps, Threads
  <2> HIDE DEF m
  <2>7. \A then : Keeps(Machine, CloseThread(m, co, then))
    BY <2>5, <2>6, KeepsClose, KeepsTwice
  <2> QED
    BY <2>3, <2>7, MachineKept
<1> QED
  BY <1>3, <1>4

\* The end of a closing keeps the lists.
LEMMA EndCloseKept ==
  ASSUME NEW F, Good(Machine, F), EndClose
  PROVE  ListsKept
<1> DEFINE m == Machine
           e == Last(go)
           s == Running
<1>1. m.th = th /\ m.go = go /\ m = [th |-> th, go |-> go] /\ s = e.t
  BY DEF Machine, Running
<1>2. go # <<>> /\ Body(m, F) /\ e.k # "protect"
  BY <1>1 DEF EndClose, Closing, Good
<1>3. th' = (IF e.k = "closing" THEN EndClosing(e, m)
             ELSE CASE Frame.op = "jump" -> [m EXCEPT !.th[s] = Mark(@, "run", 0)]
                    [] Frame.op = "error" -> [m EXCEPT !.th[s] = ReturnGo(@)]
                    [] Frame.op = "return" -> Leave(m)).th
  BY DEF EndClose, Become
<1>4. e.k # "closing" => Frame.op \in {"jump", "return", "error"}
  BY DEF EndClose, Closing
<1> HIDE DEF m
<1>5. Shaped(m) /\ e \in Activation /\ s \in Threads /\ th \in [Threads -> ThreadRecord]
  BY <1>1, <1>2, BodyShaped, BodyParts
<1>6. CASE e.k = "closing"
  <2> DEFINE n == EndClosing(e, m)
  <2>1. th' = n.th
    BY <1>3, <1>6
  <2>2. m.go # <<>> /\ Last(m.go) = e /\ Last(m.go).k = "closing"
    BY <1>1, <1>2, <1>6
  <2> HIDE DEF e
  <2>3. Keeps(m, n)
    BY <1>2, <2>2, KeepsEnd
  <2> HIDE DEF n
  <2> QED
    BY <2>1, <2>3, MachineKept DEF m
<1>7. CASE e.k # "closing"
  <2>1. Lua(m.go)
    BY <1>1, <1>2, <1>5, <1>7, ActivationParts DEF Lua
  <2>2. "tbc" \in DOMAIN th[s]
    BY <1>1, <1>5 DEF Shaped
  <2> HIDE DEF e, s
  <2>3. CASE Frame.op = "return"
    <3> DEFINE n == Leave(m)
    <3>1. th' = n.th
      BY <1>3, <1>7, <2>3
    <3>2. Keeps(m, n)
      BY <1>2, <2>1, KeepsLeave
    <3> HIDE DEF n
    <3> QED
      BY <3>1, <3>2, MachineKept DEF m
  <2>4. CASE Frame.op = "jump"
    <3> DEFINE q == Mark(th[s], "run", 0)
    <3>1. [m EXCEPT !.th[s] = Mark(@, "run", 0)] = [th |-> [th EXCEPT ![s] = q], go |-> go]
      BY <1>1
    <3>2. th' = [th EXCEPT ![s] = q]
      BY <1>3, <1>7, <2>4, <3>1
    <3>3. q.tbc = th[s].tbc
      BY <2>2, ListAlone
    <3> HIDE DEF q
    <3> QED
      BY <1>5, <3>2, <3>3, OneKept
  <2>5. CASE Frame.op = "error"
    <3> DEFINE q == ReturnGo(th[s])
    <3>1. [m EXCEPT !.th[s] = ReturnGo(@)] = [th |-> [th EXCEPT ![s] = q], go |-> go]
      BY <1>1
    <3>2. th' = [th EXCEPT ![s] = q]
      BY <1>3, <1>7, <2>5, <3>1
    <3>3. q.tbc = th[s].tbc
      BY <2>2, ListAlone
    <3> HIDE DEF q
    <3> QED
      BY <1>5, <3>2, <3>3, OneKept
  <2> QED
    BY <1>4, <1>7, <2>3, <2>4, <2>5
<1> QED
  BY <1>6, <1>7

\* A list's entry; a step that leaves every thread's list as it was, one that
\* adds to s's, and one that removes s's last.
Entry == [level : Nat \ {0}, base : Nat \ {0}, id : Variables]
SameLists(T, U) == \A t \in Threads : U[t].tbc = T[t].tbc
Adds(T, U, s, y) == U[s].tbc = Append(T[s].tbc, y) /\ \A t \in Threads \ {s} : U[t].tbc = T[t].tbc
Drops(T, U, s) ==
  T[s].tbc # <<>> /\ U[s].tbc = Front(T[s].tbc) /\ \A t \in Threads \ {s} : U[t].tbc = T[t].tbc

\* Every variable lies below MaxPos, where recover leaves the stack.
Levels == \A t \in Threads : \A i \in DOMAIN th[t].tbc : th[t].tbc[i].level <= MaxPos

\* A variable is declared, below MaxPos.
LEMMA DeclareLists ==
  ASSUME Inv, MaxPos \in Nat, NEW v \in Variables, Declare(v)
  PROVE  \E s \in Threads, y \in Entry :
           /\ Adds(th, th', s, y) /\ y.id = v /\ y.level <= MaxPos
           /\ closes' = closes /\ closes[v] = 0 /\ \A t \in Threads : \A i \in DOMAIN th[t].tbc : th[t].tbc[i].id # v
<1>1. PICK F : Good(Machine, F)
  BY DEF Inv
<1>2. LuaRuns("declare")
  BY DEF Declare
<1>3. Running \in Threads /\ th \in [Threads -> ThreadRecord] /\ th[Running] \in ThreadRecord /\ Frame \in CallInfo
  BY <1>1, <1>2, LuaParts
<1> DEFINE h == Height(th[Running])
           p == Frame.pos
           y == [level |-> h + 1, base |-> p, id |-> v]
<1>4. h \in Nat /\ p \in Nat \ {0}
  BY <1>3, HeightIs DEF CallInfo
<1>5. h < MaxPos
  BY <1>2 DEF LuaRuns
<1>6. th' = [th EXCEPT ![Running].tbc = Append(@, y)] /\ closes' = closes
      /\ closes[v] = 0 /\ \A t \in Threads : \A i \in DOMAIN th[t].tbc : th[t].tbc[i].id # v
  BY DEF Declare, NoClose
<1>7. y.id = v /\ y.level <= MaxPos /\ y \in Entry
  <2> HIDE DEF h, p
  <2>1. h + 1 \in Nat \ {0}
    BY <1>4
  <2> QED
    BY <1>4, <1>5, <2>1 DEF Entry
<1>8. Adds(th, th', Running, y)
  <2>1. "tbc" \in DOMAIN th[Running]
    BY <1>3 DEF ThreadRecord
  <2> DEFINE s == Running
  <2>2. s \in Threads
    BY <1>3
  <2> HIDE DEF y, s
  <2>3. th' = [th EXCEPT ![s].tbc = Append(@, y)] /\ "tbc" \in DOMAIN th[s]
    BY <1>6, <2>1 DEF s
  <2>4. Adds(th, th', s, y)
    BY <1>3, <2>2, <2>3 DEF Adds
  <2> QED
    BY <2>4 DEF s
<1> HIDE DEF y
<1> QED
  BY <1>3, <1>6, <1>7, <1>8

\* The last variable leaves its list, and its __close is called.
LEMMA CloseLists ==
  ASSUME Inv, Levels, MaxPos \in Nat, Slack \in Nat, MaxPos <= Slack, CloseNext
  PROVE  \E s \in Threads, x \in Variables :
           /\ Drops(th, th', s) /\ x = Last(th[s].tbc).id
           /\ closes' = [closes EXCEPT ![x] = closes[x] + 1]
<1>1. PICK F : Good(Machine, F)
  BY DEF Inv
<1> DEFINE t == Running
           r == th[t]
           q == Popped(r)
           x == Last(r.tbc).id
           ny == Last(go).k = "closing"
<1>2. Machine.th = th /\ Machine.go = go /\ Body(Machine, F) /\ go # <<>> /\ r.tbc # <<>> /\ t = Last(go).t
  BY <1>1 DEF CloseNext, Closing, HasTBC, Good, Machine, Running
<1> HIDE DEF Machine, t
<1>3. t \in Threads /\ th \in [Threads -> ThreadRecord] /\ r \in ThreadRecord /\ Last(go) \in Activation
  BY <1>2, BodyParts
<1>4. ~Truncated
  <2> SUFFICES ASSUME Truncated PROVE FALSE
    OBVIOUS
  <2>1. Last(go).k # "closing" /\ Last(th[t].tbc).level > Frame.pos + Slack
    BY DEF Truncated, t
  <2>2. Lua(go)
    BY <1>1, <1>2, <1>3, <2>1, ActivationParts DEF Lua, Good
  <2>3. Frame \in CallInfo
    <3>1. Last(th[t].ci) \in CallInfo
      <4>1. Body(Machine, F) /\ Machine.go # <<>> /\ Lua(Machine.go) /\ t = Last(Machine.go).t
        BY ONLY <1>2, <2>2
      <4>2. Last(Machine.th[t].ci) \in CallInfo
        BY <4>1, RunningParts
      <4> QED
        BY <1>2, <4>2
    <3> QED
      BY <3>1 DEF Frame, t
  <2>4. Frame.pos \in Nat
    BY <2>3 DEF CallInfo
  <2> DEFINE l == r.tbc
             y == Last(l)
  <2>5. l \in Seq([level : Nat \ {0}, base : Nat \ {0}, id : Variables])
    BY <1>3, ThreadParts
  <2>6. Len(l) \in DOMAIN l /\ y = l[Len(l)] /\ y \in [level : Nat \ {0}, base : Nat \ {0}, id : Variables]
    <3> HIDE DEF l
    <3> QED
      BY <1>2, <2>5, LastOne DEF l
  <2>7. y.level \in Nat /\ y.level <= MaxPos
    BY <1>3, <2>6 DEF Levels
  <2> QED
    BY <2>1, <2>4, <2>7
<1>5. CallClose
  BY <1>4 DEF CloseNext
<1>6. x \in Variables
  <2> DEFINE l == r.tbc
             y == Last(l)
  <2>1. l \in Seq(Entry)
    BY <1>3, ThreadParts DEF Entry
  <2> HIDE DEF l
  <2>2. y \in Entry
    BY <1>2, <2>1, LastOne DEF l
  <2> QED
    BY <2>2 DEF Entry, l
<1>7. th' = [th EXCEPT ![t] = Called(q, ny)] /\ closes' = [closes EXCEPT ![x] = closes[x] + 1]
  BY <1>5 DEF CallClose, Popped, t
<1>8. "tbc" \in DOMAIN q /\ q.tbc = Front(r.tbc)
  <2>1. q \in ThreadRecord
    BY <1>2, <1>3, PoppedIs
  <2>2. "tbc" \in DOMAIN r
    BY <1>3 DEF ThreadRecord
  <2> HIDE DEF r
  <2> QED
    BY <2>2 DEF Popped
<1>9. Called(q, ny).tbc = Front(r.tbc)
  <2> HIDE DEF q, ny
  <2> QED
    BY <1>8, ListAlone
<1> DEFINE p == Called(q, ny)
<1> HIDE DEF p, q, ny
<1>10. th'[t].tbc = Front(r.tbc) /\ \A s \in Threads \ {t} : th'[s].tbc = th[s].tbc
  BY <1>3, <1>7, <1>9 DEF p
<1> QED
  BY <1>2, <1>3, <1>7, <1>10, <1>6 DEF Drops

\* The host's call.
LEMMA HostCallKept ==
  ASSUME NEW F, Good(Machine, F), HostCall
  PROVE  ListsKept
<1>1. Body(Machine, F) /\ Machine.th = th
  BY DEF Good, Machine
<1>2. th \in [Threads -> ThreadRecord] /\ Main \in Threads
  BY <1>1, BodyParts DEF Threads
<1> DEFINE r == th[Main]
           q == Called(r, TRUE)
<1>3. "tbc" \in DOMAIN r
  BY <1>2 DEF ThreadRecord
<1>4. th' = [th EXCEPT ![Main] = q] /\ q.tbc = r.tbc
  BY <1>3, ListAlone DEF HostCall
<1> HIDE DEF q
<1> QED
  BY <1>2, <1>4, OneKept

\* What a step does to the lists and the counts of calls.
LEMMA StepKinds ==
  ASSUME Inv, [Next]_vars
  PROVE  \/ SameLists(th, th') /\ closes' = closes
         \/ \E v \in Variables : Declare(v)
         \/ CloseNext
<1>1. PICK F : Good(Machine, F)
  BY DEF Inv
<1>2. ListsKept => SameLists(th, th')
  BY DEF ListsKept, SameLists
<1>3. CASE HostCall
  BY <1>1, <1>2, <1>3, HostCallKept DEF HostCall, NoClose
<1>4. CASE \/ CallLua \/ CallMeta \/ CallPcall \/ (\E continuation \in BOOLEAN : CallGo(continuation))
           \/ (\E i \in 1 .. Cardinality(Variables) : Jump(i)) \/ Return
  <2>1. closes' = closes
    BY <1>4 DEF CallLua, CallMeta, CallPcall, CallGo, Jump, Return, NoClose
  <2>2. ListsKept
    BY <1>1, <1>4, OwnKept
  <2> QED
    BY <1>2, <2>1, <2>2
<1>5. CASE Error \/ Yield
  <2>1. closes' = closes
    BY <1>5 DEF Error, Yield, NoClose
  <2>2. ListsKept
    BY <1>1, <1>5, PanicKept
  <2> QED
    BY <1>2, <2>1, <2>2
<1>6. CASE \E co \in Coroutines, wrap \in BOOLEAN : Resume(co, wrap)
  <2>1. closes' = closes
    BY <1>6 DEF Resume, NoClose
  <2>2. ListsKept
    BY <1>1, <1>6, ResumeKept
  <2> QED
    BY <1>2, <2>1, <2>2
<1>7. CASE (\E co \in Coroutines : WrapDead(co) \/ CloseCoroutine(co)) \/ CloseRunning
  <2>1. closes' = closes
    BY <1>7 DEF WrapDead, CloseCoroutine, CloseRunning, NoClose
  <2>2. ListsKept
    BY <1>1, <1>7, CloseKept
  <2> QED
    BY <1>2, <2>1, <2>2
<1>8. CASE EndClose
  <2>1. closes' = closes
    BY <1>8 DEF EndClose
  <2>2. ListsKept
    BY <1>1, <1>8, EndCloseKept
  <2> QED
    BY <1>2, <2>1, <2>2
<1>9. CASE UNCHANGED vars
  BY <1>9 DEF vars, SameLists
<1> QED
  BY <1>3, <1>4, <1>5, <1>6, <1>7, <1>8, <1>9 DEF Next

\* Every thread's list, typed.
LEMMA ListsTyped ==
  ASSUME Inv, NEW t \in Threads
  PROVE  th[t].tbc \in Seq(Entry)
<1>1. PICK F : Good(Machine, F)
  BY DEF Inv
<1>2. Body(Machine, F) /\ Machine.th = th
  BY <1>1 DEF Good, Machine
<1>3. th[t] \in ThreadRecord
  BY <1>2, BodyParts
<1> QED
  BY <1>3, ThreadParts DEF Entry

\* Levels stay below MaxPos.
LEMMA LevelsStep ==
  ASSUME Inv, Levels, MaxPos \in Nat, Slack \in Nat, MaxPos <= Slack, [Next]_vars
  PROVE  Levels'
<1> SUFFICES ASSUME NEW t \in Threads PROVE \A i \in DOMAIN th'[t].tbc : th'[t].tbc[i].level <= MaxPos
  BY DEF Levels
<1> DEFINE l == th[t].tbc
           k == th'[t].tbc
<1>1. l \in Seq(Entry) /\ \A i \in DOMAIN l : l[i].level <= MaxPos
  BY ListsTyped DEF Levels
<1>2. CASE SameLists(th, th')
  BY <1>1, <1>2 DEF SameLists
<1>3. CASE \E v \in Variables : Declare(v)
  <2>1. PICK s \in Threads, y \in Entry : Adds(th, th', s, y) /\ y.level <= MaxPos
    BY <1>3, DeclareLists
  <2>2. k = l \/ k = Append(l, y)
    BY <2>1 DEF Adds
  <2> HIDE DEF l, k
  <2>3. DOMAIN Append(l, y) = 1 .. Len(l) + 1 /\ Append(l, y)[Len(l) + 1] = y /\ \A i \in 1 .. Len(l) : Append(l, y)[i] = l[i]
    BY <1>1, OneMore
  <2>4. DOMAIN l = 1 .. Len(l) /\ Len(l) \in Nat
    BY <1>1
  <2>5. \A i \in 1 .. Len(l) + 1 : i \in 1 .. Len(l) \/ i = Len(l) + 1
    BY <2>4
  <2>6. \A i \in DOMAIN k : k[i].level <= MaxPos
    BY <1>1, <2>1, <2>2, <2>3, <2>4, <2>5
  <2> QED
    BY <2>6 DEF k
<1>4. CASE CloseNext
  <2>1. PICK s \in Threads : Drops(th, th', s)
    BY <1>4, CloseLists
  <2>2. k = l \/ (l # <<>> /\ k = Front(l))
    BY <2>1 DEF Drops
  <2> HIDE DEF l, k
  <2> DEFINE n == Len(l) - 1
  <2>3. DOMAIN l = 1 .. Len(l) /\ (l # <<>> => n \in 0 .. Len(l)) /\ \A i \in 1 .. n : i \in 1 .. Len(l)
    BY <1>1
  <2>4. Front(l) = SubSeq(l, 1, n)
    BY DEF Front
  <2> HIDE DEF n
  <2>5. l # <<>> => DOMAIN Front(l) = 1 .. n /\ \A i \in 1 .. n : Front(l)[i] = l[i]
    BY <1>1, <2>3, <2>4, FirstOnes
  <2>6. \A i \in DOMAIN k : k[i].level <= MaxPos
    BY <1>1, <2>2, <2>3, <2>5
  <2> QED
    BY <2>6 DEF k
<1> QED
  BY <1>2, <1>3, <1>4, StepKinds

\* Where v lies in the lists of T.
At(T, v) == UNION {{<<t, i>> : i \in {j \in DOMAIN T[t].tbc : T[t].tbc[j].id = v}} : t \in Threads}

\* A place of v is one in a thread's list that holds it.
LEMMA AtIs ==
  ASSUME NEW T, NEW v
  PROVE  /\ \A t \in Threads : \A i : <<t, i>> \in At(T, v) <=> i \in DOMAIN T[t].tbc /\ T[t].tbc[i].id = v
         /\ \A x \in At(T, v) : \E t \in Threads : \E i \in DOMAIN T[t].tbc : x = <<t, i>> /\ T[t].tbc[i].id = v
BY DEF At

Gains(T, U, v, y) == \E x : x \notin At(T, v) /\ At(U, v) = IF y.id = v THEN At(T, v) \union {x} ELSE At(T, v)

\* A list that grows at its end has one place more, for its new variable.
LEMMA AtAdds ==
  ASSUME NEW T, NEW U, NEW s \in Threads, NEW y \in Entry, T[s].tbc \in Seq(Entry), Adds(T, U, s, y), NEW v
  PROVE  Gains(T, U, v, y)
<1> DEFINE l == T[s].tbc
           k == U[s].tbc
           n == Len(l) + 1
           x == <<s, n>>
           X == IF y.id = v THEN At(T, v) \union {x} ELSE At(T, v)
<1>1. k = Append(l, y) /\ \A t \in Threads \ {s} : U[t].tbc = T[t].tbc
  BY DEF Adds
<1>2. DOMAIN l = 1 .. Len(l) /\ Len(l) \in Nat
  OBVIOUS
<1>3. \A i : <<s, i>> \in At(T, v) <=> i \in DOMAIN l /\ l[i].id = v
  BY AtIs
<1> HIDE DEF l, k
<1>4. DOMAIN k = 1 .. n /\ k[n] = y /\ \A i \in 1 .. Len(l) : k[i] = l[i]
  <2>1. l \in Seq(Entry)
    BY DEF l
  <2> QED
    BY <1>1, <2>1, OneMore
<1>5. n \notin 1 .. Len(l) /\ \A i : i \in 1 .. n <=> i \in 1 .. Len(l) \/ i = n
  BY <1>2
<1> HIDE DEF n
<1>6. x \notin At(T, v)
  BY <1>2, <1>3, <1>5
<1>7. \A i : <<s, i>> \in X <=> i \in DOMAIN k /\ k[i].id = v
  BY <1>2, <1>3, <1>4, <1>5
<1>8. \A t \in Threads \ {s} : \A i : <<t, i>> \in X <=> <<t, i>> \in At(T, v)
  OBVIOUS
<1>9. \A z \in X : \E t \in Threads : \E i : z = <<t, i>>
  BY AtIs
<1>10. At(U, v) = X
  <2> HIDE DEF X
  <2>1. s \in Threads /\ \A i : <<s, i>> \in X <=> i \in DOMAIN U[s].tbc /\ U[s].tbc[i].id = v
    BY <1>7 DEF k
  <2>2. \A t \in Threads \ {s} : U[t].tbc = T[t].tbc
    BY <1>1
  <2>3. ASSUME NEW t \in Threads, NEW i PROVE <<t, i>> \in At(U, v) <=> <<t, i>> \in X
    <3>1. <<t, i>> \in At(U, v) <=> i \in DOMAIN U[t].tbc /\ U[t].tbc[i].id = v
      BY AtIs
    <3>2. <<t, i>> \in At(T, v) <=> i \in DOMAIN T[t].tbc /\ T[t].tbc[i].id = v
      BY AtIs
    <3> QED
      BY <1>8, <2>1, <2>2, <3>1, <3>2
  <2>4. \A z \in At(U, v) : \E t \in Threads : \E i : z = <<t, i>>
    BY AtIs
  <2> QED
    BY ONLY <1>9, <2>3, <2>4
<1> QED
  BY <1>6, <1>10 DEF Gains

\* A list that loses its last has one place less, of the variable that lay there.
LEMMA AtDrops ==
  ASSUME NEW T, NEW U, NEW s \in Threads, T[s].tbc \in Seq(Entry), Drops(T, U, s), NEW v
  PROVE  \E x : /\ x \in At(T, v) <=> Last(T[s].tbc).id = v
                /\ At(U, v) = At(T, v) \ {x}
<1> DEFINE l == T[s].tbc
           k == U[s].tbc
           n == Len(l)
           x == <<s, n>>
           X == At(T, v) \ {x}
<1>1. l # <<>> /\ k = Front(l) /\ \A t \in Threads \ {s} : U[t].tbc = T[t].tbc
  BY DEF Drops
<1>2. \A i : <<s, i>> \in At(T, v) <=> i \in DOMAIN l /\ l[i].id = v
  BY AtIs
<1> HIDE DEF l, k
<1>3. l \in Seq(Entry)
  BY DEF l
<1>4. DOMAIN l = 1 .. n /\ n \in 1 .. n /\ n \in Nat /\ Last(l) = l[n]
  BY <1>1, <1>3, LastOne
<1>5. DOMAIN k = 1 .. n - 1 /\ \A i \in 1 .. n - 1 : k[i] = l[i]
  <2> DEFINE j == n - 1
  <2>1. Front(l) = SubSeq(l, 1, j) /\ j \in 0 .. Len(l)
    BY <1>4 DEF Front
  <2> HIDE DEF j
  <2>2. DOMAIN Front(l) = 1 .. j /\ \A i \in 1 .. j : Front(l)[i] = l[i]
    BY <1>3, <2>1, FirstOnes
  <2> QED
    BY <1>1, <2>2 DEF j
<1>6. \A i : i \in 1 .. n - 1 <=> i \in 1 .. n /\ i # n
  BY <1>4
<1> HIDE DEF n
<1>7. x \in At(T, v) <=> Last(l).id = v
  BY <1>2, <1>4
<1>8. \A i : <<s, i>> \in X <=> i \in DOMAIN k /\ k[i].id = v
  BY <1>2, <1>4, <1>5, <1>6
<1>9. \A t \in Threads \ {s} : \A i : <<t, i>> \in X <=> <<t, i>> \in At(T, v)
  OBVIOUS
<1>10. \A z \in X : \E t \in Threads : \E i : z = <<t, i>>
  BY AtIs
<1>11. At(U, v) = X
  <2> HIDE DEF X
  <2>1. s \in Threads /\ \A i : <<s, i>> \in X <=> i \in DOMAIN U[s].tbc /\ U[s].tbc[i].id = v
    BY <1>8 DEF k
  <2>2. \A t \in Threads \ {s} : U[t].tbc = T[t].tbc
    BY <1>1
  <2>3. ASSUME NEW t \in Threads, NEW i PROVE <<t, i>> \in At(U, v) <=> <<t, i>> \in X
    <3>1. <<t, i>> \in At(U, v) <=> i \in DOMAIN U[t].tbc /\ U[t].tbc[i].id = v
      BY AtIs
    <3>2. <<t, i>> \in At(T, v) <=> i \in DOMAIN T[t].tbc /\ T[t].tbc[i].id = v
      BY AtIs
    <3> QED
      BY <1>9, <2>1, <2>2, <3>1, <3>2
  <2>4. \A z \in At(U, v) : \E t \in Threads : \E i : z = <<t, i>>
    BY AtIs
  <2> QED
    BY ONLY <1>10, <2>3, <2>4
<1> QED
  BY <1>7, <1>11 DEF l

\* A variable lies in one list at most, and then has not been called; and what
\* a step does to its place and its calls.
CalledOnce(v) == IsFiniteSet(Pending(v)) /\ Cardinality(Pending(v)) + closes[v] <= 1
Once == \A v \in Variables : CalledOnce(v)
Kept(v) == Cardinality(Pending(v)') + closes'[v] >= Cardinality(Pending(v)) + closes[v]

\* A step neither loses a variable nor calls it twice.
LEMMA OnceStep ==
  ASSUME Inv, Histories, Levels, Once, MaxPos \in Nat, Slack \in Nat, MaxPos <= Slack, [Next]_vars, NEW v \in Variables
  PROVE  CalledOnce(v)' /\ Kept(v)
<1> DEFINE A == Pending(v)
           B == Pending(v)'
           c == closes[v]
           d == closes'[v]
<1>1. A = At(th, v) /\ B = At(th', v)
  BY DEF Pending, At
<1>2. IsFiniteSet(A) /\ Cardinality(A) \in Nat /\ Cardinality(A) + c <= 1 /\ c \in Nat
  BY FS_CardinalityType DEF Once, CalledOnce, Histories
<1>3. CalledOnce(v)' <=> IsFiniteSet(B) /\ Cardinality(B) + d <= 1
  BY DEF CalledOnce
<1>4. Kept(v) <=> Cardinality(B) + d >= Cardinality(A) + c
  BY DEF Kept
<1> HIDE DEF A, B, c, d
<1>5. CASE SameLists(th, th') /\ closes' = closes
  <2>1. At(th', v) = At(th, v)
    <3>1. \A t \in Threads : th'[t].tbc = th[t].tbc
      BY <1>5 DEF SameLists
    <3> QED
      BY <3>1 DEF At
  <2>2. d = c
    BY <1>5 DEF c, d
  <2> QED
    BY <1>1, <1>2, <1>3, <1>4, <2>1, <2>2
<1>6. CASE \E w \in Variables : Declare(w)
  <2>1. PICK w \in Variables : Declare(w)
    BY <1>6
  <2>2. PICK s \in Threads, y \in Entry :
          /\ Adds(th, th', s, y) /\ y.id = w
          /\ closes' = closes /\ closes[w] = 0 /\ \A t \in Threads : \A i \in DOMAIN th[t].tbc : th[t].tbc[i].id # w
    BY <2>1, DeclareLists
  <2>3. th[s].tbc \in Seq(Entry)
    BY ListsTyped
  <2>4. PICK x : x \notin A /\ B = IF y.id = v THEN A \union {x} ELSE A
    <3>1. Gains(th, th', v, y)
      <4>1. s \in Threads /\ y \in Entry /\ th[s].tbc \in Seq(Entry) /\ Adds(th, th', s, y)
        BY <2>2, <2>3
      <4> QED
        BY ONLY <4>1, AtAdds
    <3> QED
      BY <1>1, <3>1 DEF Gains
  <2>5. d = c
    BY <2>2 DEF c, d
  <2>6. CASE w # v
    BY <1>2, <1>3, <1>4, <2>2, <2>4, <2>5, <2>6
  <2>7. CASE w = v
    <3>1. A = {} /\ c = 0
      <4>1. \A z \in At(th, v) : FALSE
        BY <2>2, <2>7, AtIs
      <4> QED
        BY <1>1, <2>2, <2>7, <4>1 DEF c
    <3>2. Cardinality(A) = 0 /\ IsFiniteSet(B) /\ Cardinality(B) = Cardinality(A) + 1
      BY <1>2, <2>2, <2>4, <2>7, <3>1, FS_EmptySet, FS_AddElement
    <3> QED
      BY <1>3, <1>4, <2>5, <3>1, <3>2
  <2> QED
    BY <2>6, <2>7
<1>7. CASE CloseNext
  <2>1. PICK s \in Threads, w \in Variables :
          /\ Drops(th, th', s) /\ w = Last(th[s].tbc).id
          /\ closes' = [closes EXCEPT ![w] = closes[w] + 1]
    BY <1>7, CloseLists
  <2>2. th[s].tbc \in Seq(Entry)
    BY ListsTyped
  <2>3. PICK x : (x \in A <=> w = v) /\ B = A \ {x}
    <3>1. \E x : (x \in At(th, v) <=> Last(th[s].tbc).id = v) /\ At(th', v) = At(th, v) \ {x}
      BY <2>1, <2>2, AtDrops
    <3> QED
      BY <1>1, <2>1, <3>1
  <2>4. d = IF w = v THEN c + 1 ELSE c
    BY <2>1 DEF c, d, Histories
  <2>5. CASE w = v
    <3>1. IsFiniteSet(B) /\ Cardinality(B) = Cardinality(A) - 1
      BY <1>2, <2>3, <2>5, FS_RemoveElement
    <3> QED
      BY <1>2, <1>3, <1>4, <2>4, <2>5, <3>1
  <2>6. CASE w # v
    <3>1. B = A
      BY <2>3, <2>6
    <3> QED
      BY <1>2, <1>3, <1>4, <2>4, <2>6, <3>1
  <2> QED
    BY <2>5, <2>6
<1> QED
  BY <1>5, <1>6, <1>7, StepKinds

\* Every variable that is declared leaves its thread's list for one call of its
\* __close, whatever yields, errors, recoveries and closings do before, in and
\* after that call, where the stack is never cut below a variable (closeTBC,
\* closeFromJump, closeForReturn, recover, CloseThread).
THEOREM VariablesCloseOnce ==
  ASSUME "closeInPcall" \notin Uses, MaxPos <= Slack
  PROVE  Spec => ClosedOnce
<1> USE SizesAssumption
<1>1. Init => Histories /\ Levels /\ Once
  <2> SUFFICES ASSUME Init PROVE Histories /\ Levels /\ Once
    OBVIOUS
  <2>1. Histories /\ \A v \in Variables : closes[v] = 0
    BY DEF Init, Histories
  <2>2. \A t \in Threads : th[t].tbc = <<>>
    BY DEF Init
  <2>3. Levels
    BY <2>2 DEF Levels
  <2>4. \A v \in Variables : At(th, v) = {}
    BY <2>2, AtIs
  <2>5. \A v \in Variables : CalledOnce(v)
    BY <2>1, <2>4, FS_EmptySet DEF CalledOnce, Pending, At
  <2> QED
    BY <2>1, <2>3, <2>5 DEF Once
<1>2. Inv /\ Histories /\ Levels /\ Once /\ [Next]_vars => Histories' /\ Levels' /\ Once'
  <2> SUFFICES ASSUME Inv, Histories, Levels, Once, [Next]_vars PROVE Histories' /\ Levels' /\ Once'
    OBVIOUS
  <2>1. Histories' /\ Levels'
    BY HistoriesStep, LevelsStep
  <2>2. \A v \in Variables : CalledOnce(v)'
    BY OnceStep
  <2> QED
    BY <2>1, <2>2 DEF Once
<1>3. Inv /\ Histories /\ Levels /\ Once /\ [Next]_vars =>
        [\A v \in Variables :
           Cardinality(Pending(v)') + closes'[v] >= Cardinality(Pending(v)) + closes[v]
             /\ Cardinality(Pending(v)') + closes'[v] <= 1]_vars
  <2> SUFFICES ASSUME Inv, Histories, Levels, Once, [Next]_vars, NEW v \in Variables
               PROVE  Cardinality(Pending(v)') + closes'[v] >= Cardinality(Pending(v)) + closes[v]
                        /\ Cardinality(Pending(v)') + closes'[v] <= 1
    OBVIOUS
  <2> QED
    BY OnceStep DEF CalledOnce, Kept
<1> QED
  BY <1>1, <1>2, <1>3, AlwaysInv, PTL DEF Spec, ClosedOnce

-----------------------------------------------------------------------------
(* The chain of threads.                                                   *)

Chains == Seq([t : Threads, closing : BOOLEAN]) \ {<<>>}
OnlyMain == <<Link(Main, FALSE)>>
IsLinks(f, g) == f = [n \in 0 .. Len(g) |-> IF n = 0 THEN OnlyMain ELSE Linked(f[n - 1], g[n])]

\* What one activation makes of a chain.
LEMMA LinkedIs ==
  ASSUME NEW c \in Chains, NEW e \in Activation
  PROVE  /\ Linked(c, e) \in Chains
         /\ Begins(e) => Linked(c, e) = Append(c, Link(e.t, Ends(e)))
         /\ ClosesSelf(e) => Linked(c, e) = [c EXCEPT ![Len(c)].closing = TRUE]
         /\ ~Begins(e) /\ ~ClosesSelf(e) => Linked(c, e) = c
<1> DEFINE S == [t : Threads, closing : BOOLEAN]
<1>1. c \in Seq(S) /\ c # <<>> /\ Len(c) \in 1 .. Len(c) /\ Len(c) \in Nat
  BY DEF Chains
<1>2. e.t \in Threads /\ e.k \in {"call", "protect", "closing", "resume"} /\ (e.k = "closing" => e.then \in {"pcall", "close", "wrap", "self"})
  BY ActivationParts
<1>3. CASE Begins(e)
  <2>1. Linked(c, e) = Append(c, Link(e.t, Ends(e)))
    BY <1>2, <1>3 DEF Linked, Begins, Ends
  <2>2. Link(e.t, Ends(e)) \in S
    BY <1>2 DEF Link, Ends
  <2>3. Append(c, Link(e.t, Ends(e))) \in Seq(S) /\ Append(c, Link(e.t, Ends(e))) # <<>>
    <3> HIDE DEF S
    <3> QED
      BY <1>1, <2>2, OneMore
  <2>4. ~ClosesSelf(e)
    BY <1>3 DEF Begins, ClosesSelf
  <2> QED
    BY <1>3, <2>1, <2>3, <2>4 DEF Chains
<1>4. CASE ClosesSelf(e)
  <2>1. Linked(c, e) = [c EXCEPT ![Len(c)].closing = TRUE]
    BY <1>4 DEF Linked, ClosesSelf
  <2>2. ~Begins(e)
    BY <1>4 DEF Begins, ClosesSelf
  <2> DEFINE x == [c[Len(c)] EXCEPT !.closing = TRUE]
  <2>3. [c EXCEPT ![Len(c)].closing = TRUE] \in Seq(S) /\ [c EXCEPT ![Len(c)].closing = TRUE] # <<>>
    <3> DEFINE y == c[Len(c)]
    <3>1. y \in S
      <4> HIDE DEF S
      <4> QED
        BY <1>1
    <3>2. x = [y EXCEPT !.closing = TRUE]
      OBVIOUS
    <3> HIDE DEF x, y
    <3>3. x \in S
      BY <3>1, <3>2
    <3> HIDE DEF S
    <3>4. [c EXCEPT ![Len(c)] = x] \in Seq(S) /\ [c EXCEPT ![Len(c)] = x] # <<>>
      BY <1>1, <3>3
    <3> QED
      BY <3>4 DEF x
  <2> QED
    BY <1>4, <2>1, <2>2, <2>3 DEF Chains
<1>5. CASE ~Begins(e) /\ ~ClosesSelf(e)
  BY <1>5 DEF Linked, Begins, ClosesSelf
<1> QED
  BY <1>3, <1>4, <1>5

\* The chain of a stack is computed along it.
LEMMA LinksAre ==
  ASSUME NEW g \in Seq(Activation)
  PROVE  \E f : /\ IsLinks(f, g) /\ Links(g) = f[Len(g)] /\ f[0] = OnlyMain
                /\ \A n \in 0 .. Len(g) : f[n] \in Chains
                /\ \A n \in 1 .. Len(g) : f[n] = Linked(f[n - 1], g[n])
<1> DEFINE Upto(f, n) == f[0] = OnlyMain /\ \A i \in 1 .. n : f[i] = Linked(f[i - 1], g[i])
           S == {n \in 0 .. Len(g) : \A f \in [0 .. n -> Chains] : ~Upto(f, n)}
<1>0. DOMAIN g = 1 .. Len(g) /\ Len(g) \in Nat /\ \A n \in 1 .. Len(g) : g[n] \in Activation
  OBVIOUS
<1>1. OnlyMain \in Chains
  BY DEF OnlyMain, Chains, Link, Threads
<1>2. ASSUME NEW n \in 1 .. Len(g), NEW f \in [0 .. n - 1 -> Chains], Upto(f, n - 1)
      PROVE  \E h \in [0 .. n -> Chains] : Upto(h, n)
  <2> DEFINE last == Linked(f[n - 1], g[n])
             h == [i \in 0 .. n |-> IF i = n THEN last ELSE f[i]]
  <2>1. n \in Nat /\ n - 1 \in 0 .. n - 1 /\ f[n - 1] \in Chains /\ g[n] \in Activation
    BY <1>0
  <2>2. last \in Chains
    BY <2>1, LinkedIs
  <2> HIDE DEF last
  <2>3. h \in [0 .. n -> Chains] /\ h[0] = OnlyMain
    BY <1>2, <2>1, <2>2
  <2>4. ASSUME NEW i \in 1 .. n PROVE h[i] = Linked(h[i - 1], g[i])
    <3>1. CASE i = n
      BY <2>1, <3>1 DEF last
    <3>2. CASE i \in 1 .. n - 1
      BY <1>2, <2>1, <3>2
    <3> QED
      BY <2>1, <3>1, <3>2
  <2> QED
    BY <2>3, <2>4
<1>3. \E f \in [0 .. 0 -> Chains] : Upto(f, 0)
  <2>1. Upto([i \in 0 .. 0 |-> OnlyMain], 0) /\ [i \in 0 .. 0 |-> OnlyMain] \in [0 .. 0 -> Chains]
    BY <1>1
  <2> QED
    BY <2>1
<1>4. S = {}
  <2> SUFFICES ASSUME S # {} PROVE FALSE
    OBVIOUS
  <2>1. PICK n \in S : n \in 0 .. Len(g) /\ (n # 0 => n - 1 \in 0 .. Len(g) /\ n - 1 \notin S)
    <3>1. S \in SUBSET (0 .. Len(g)) /\ S # {}
      OBVIOUS
    <3> HIDE DEF S
    <3> QED
      BY <1>0, <3>1, FirstOf
  <2>2. n # 0
    BY <1>3, <2>1
  <2>3. n \in 1 .. Len(g) /\ \E f \in [0 .. n - 1 -> Chains] : Upto(f, n - 1)
    BY <1>0, <2>1, <2>2
  <2> QED
    BY <1>2, <2>1, <2>3
<1>5. PICK f \in [0 .. Len(g) -> Chains] : f[0] = OnlyMain /\ \A n \in 1 .. Len(g) : f[n] = Linked(f[n - 1], g[n])
  BY <1>0, <1>4
<1>6. IsLinks(f, g)
  BY <1>0, <1>5 DEF IsLinks
<1> DEFINE l == CHOOSE s : IsLinks(s, g)
<1>7. IsLinks(l, g) /\ Links(g) = l[Len(g)]
  BY <1>6 DEF Links, IsLinks, OnlyMain
<1> HIDE DEF l
<1>8. l[0] = OnlyMain /\ \A n \in 1 .. Len(g) : l[n] = Linked(l[n - 1], g[n])
  BY <1>0, <1>7 DEF IsLinks
<1>9. \A n \in 0 .. Len(g) : l[n] \in Chains
  <2> SUFFICES ASSUME NEW n \in 0 .. Len(g), l[n] \notin Chains PROVE FALSE
    OBVIOUS
  <2> DEFINE R == {k \in 0 .. Len(g) : l[k] \notin Chains}
  <2>1. PICK k \in R : k \in 0 .. Len(g) /\ (k # 0 => k - 1 \in 0 .. Len(g) /\ k - 1 \notin R)
    <3>1. R \in SUBSET (0 .. Len(g)) /\ R # {}
      OBVIOUS
    <3> HIDE DEF R
    <3> QED
      BY <1>0, <3>1, FirstOf
  <2>2. k # 0 /\ k \in 1 .. Len(g) /\ l[k - 1] \in Chains
    BY <1>0, <1>1, <1>8, <2>1
  <2>3. l[k] = Linked(l[k - 1], g[k]) /\ g[k] \in Activation
    BY <1>0, <1>8, <2>2
  <2>4. l[k] \in Chains
    BY <2>2, <2>3, LinkedIs
  <2> QED
    BY <2>1, <2>4
<1> QED
  BY <1>7, <1>8, <1>9

\* What begins no link and closes none.
Neutral(e) == ~Begins(e) /\ ~ClosesSelf(e)

\* It depends on the activations up to each.
LEMMA LinksAgree ==
  ASSUME NEW g, NEW h, NEW f, NEW l, IsLinks(f, g), IsLinks(l, h), Len(g) \in Nat, Len(h) \in Nat,
         NEW n \in Nat, n <= Len(g), n <= Len(h), \A i \in 1 .. n : h[i] = g[i]
  PROVE  l[n] = f[n]
<1> SUFFICES ASSUME l[n] # f[n] PROVE FALSE
  OBVIOUS
<1> DEFINE S == {k \in 0 .. n : l[k] # f[k]}
<1>1. PICK k \in S : k \in 0 .. n /\ (k # 0 => k - 1 \in 0 .. n /\ k - 1 \notin S)
  <2>1. S \in SUBSET (0 .. n) /\ S # {}
    OBVIOUS
  <2> HIDE DEF S
  <2> QED
    BY <2>1, FirstOf
<1>2. k \in 0 .. Len(g) /\ k \in 0 .. Len(h) /\ l[k] # f[k]
  BY <1>1
<1>3. f[k] = (IF k = 0 THEN OnlyMain ELSE Linked(f[k - 1], g[k])) /\ l[k] = (IF k = 0 THEN OnlyMain ELSE Linked(l[k - 1], h[k]))
  BY ONLY <1>2, IsLinks(f, g), IsLinks(l, h) DEF IsLinks
<1>4. k # 0
  BY <1>2, <1>3
<1>5. l[k - 1] = f[k - 1] /\ h[k] = g[k]
  BY <1>1, <1>4
<1> QED
  BY ONLY <1>2, <1>3, <1>4, <1>5

\* One activation more, and some that change nothing less.
LEMMA LinksMore ==
  ASSUME NEW g \in Seq(Activation), NEW e \in Activation
  PROVE  Links(Append(g, e)) = Linked(Links(g), e) /\ Links(g) \in Chains
<1> DEFINE h == Append(g, e)
<1>1. h \in Seq(Activation) /\ Len(h) = Len(g) + 1 /\ (\A i \in 1 .. Len(g) : h[i] = g[i]) /\ h[Len(g) + 1] = e /\ Len(g) \in Nat
  BY OneMore
<1> HIDE DEF h
<1>2. PICK f : IsLinks(f, g) /\ Links(g) = f[Len(g)] /\ \A n \in 0 .. Len(g) : f[n] \in Chains
  BY LinksAre
<1>3. PICK l : IsLinks(l, h) /\ Links(h) = l[Len(h)] /\ \A n \in 1 .. Len(h) : l[n] = Linked(l[n - 1], h[n])
  BY <1>1, LinksAre
<1>4. l[Len(g)] = f[Len(g)]
  <2>1. Len(h) \in Nat /\ Len(g) <= Len(g) /\ Len(g) <= Len(h)
    BY <1>1
  <2> QED
    BY <1>1, <1>2, <1>3, <2>1, LinksAgree
<1>5. l[Len(g) + 1] = Linked(l[Len(g)], e)
  <2>1. Len(g) + 1 \in 1 .. Len(h) /\ (Len(g) + 1) - 1 = Len(g)
    BY <1>1
  <2> QED
    BY <1>1, <1>3, <2>1
<1>6. Len(g) \in 0 .. Len(g)
  BY <1>1
<1>7. Links(h) = Linked(Links(g), e)
  BY <1>1, <1>2, <1>3, <1>4, <1>5
<1> QED
  BY <1>2, <1>6, <1>7 DEF h

\* Activations that begin no thread and close none may be left out.
LEMMA LinksCut ==
  ASSUME NEW g \in Seq(Activation), NEW n \in 0 .. Len(g), \A j \in n + 1 .. Len(g) : Neutral(g[j])
  PROVE  Links(SubSeq(g, 1, n)) = Links(g)
<1> DEFINE h == SubSeq(g, 1, n)
<1>1. h \in Seq(Activation) /\ Len(h) = n /\ (\A i \in 1 .. n : h[i] = g[i]) /\ Len(g) \in Nat /\ n \in Nat /\ n <= Len(g)
  BY FirstOnes
<1> HIDE DEF h
<1>2. PICK f : /\ IsLinks(f, g) /\ Links(g) = f[Len(g)] /\ (\A k \in 0 .. Len(g) : f[k] \in Chains)
               /\ \A k \in 1 .. Len(g) : f[k] = Linked(f[k - 1], g[k])
  BY LinksAre
<1>3. PICK l : IsLinks(l, h) /\ Links(h) = l[Len(h)]
  BY <1>1, LinksAre
<1>4. l[n] = f[n]
  <2>1. n <= Len(h)
    BY <1>1
  <2> QED
    BY <1>1, <1>2, <1>3, <2>1, LinksAgree
<1>5. f[Len(g)] = f[n]
  <2> SUFFICES ASSUME f[Len(g)] # f[n] PROVE FALSE
    OBVIOUS
  <2> DEFINE d == Len(g) - n
             S == {k \in 0 .. d : f[n + k] # f[n]}
  <2>1. d \in Nat /\ n + d = Len(g)
    BY <1>1
  <2>2. PICK k \in S : k \in 0 .. d /\ (k # 0 => k - 1 \in 0 .. d /\ k - 1 \notin S)
    <3> HIDE DEF d
    <3>1. S \in SUBSET (0 .. d) /\ d \in S
      BY <2>1
    <3> HIDE DEF S
    <3> QED
      BY <2>1, <3>1, FirstOf
  <2> HIDE DEF d
  <2>3. k # 0 /\ f[n + k] # f[n] /\ k \in Nat
    BY <1>1, <2>2
  <2>4. f[n + (k - 1)] = f[n] /\ n + k \in 1 .. Len(g) /\ n + k \in n + 1 .. Len(g) /\ (n + k) - 1 = n + (k - 1)
        /\ n + (k - 1) \in 0 .. Len(g)
    BY <1>1, <2>1, <2>2, <2>3
  <2>5. f[n + k] = Linked(f[n + (k - 1)], g[n + k]) /\ Neutral(g[n + k]) /\ g[n + k] \in Activation /\ f[n + (k - 1)] \in Chains
    BY <1>2, <2>4
  <2>6. f[n + k] = f[n + (k - 1)]
    BY <2>5, LinkedIs DEF Neutral
  <2> QED
    BY <2>3, <2>4, <2>6
<1>6. Links(h) = Links(g)
  BY <1>1, <1>2, <1>3, <1>4, <1>5
<1> QED
  BY <1>6 DEF h

\* So the chain is that below an activation, and what it adds.
LEMMA LinksAt ==
  ASSUME NEW g \in Seq(Activation), NEW i \in 1 .. Len(g), \A j \in i + 1 .. Len(g) : Neutral(g[j])
  PROVE  LET h == SubSeq(g, 1, i - 1) IN
         /\ Links(g) = Linked(Links(h), g[i]) /\ h \in Seq(Activation) /\ Links(h) \in Chains /\ g[i] \in Activation
         /\ Links(g) \in Chains
<1> DEFINE h == SubSeq(g, 1, i - 1)
<1>1. i - 1 \in 0 .. Len(g) /\ i \in 0 .. Len(g) /\ g[i] \in Activation
  OBVIOUS
<1>2. h \in Seq(Activation)
  BY <1>1, FirstOnes
<1>3. SubSeq(g, 1, i) = Append(h, g[i])
  BY <1>1
<1>4. Links(g) = Links(SubSeq(g, 1, i))
  BY <1>1, LinksCut
<1> HIDE DEF h
<1>5. Links(Append(h, g[i])) = Linked(Links(h), g[i]) /\ Links(h) \in Chains
  BY <1>1, <1>2, LinksMore
<1>6. Linked(Links(h), g[i]) \in Chains
  BY <1>1, <1>5, LinkedIs
<1> QED
  BY <1>1, <1>2, <1>3, <1>4, <1>5, <1>6 DEF h

\* An activation alike adds the same.
LEMMA LinkedAlike ==
  ASSUME NEW c \in Chains, NEW x \in Activation, NEW e \in Activation, Alike(x, e)
  PROVE  Linked(c, x) = Linked(c, e)
<1>1. x.t = e.t /\ (Begins(x) <=> Begins(e)) /\ (ClosesSelf(x) <=> ClosesSelf(e)) /\ (Ends(x) <=> Ends(e))
  BY DEF Alike
<1>2. Link(x.t, Ends(x)) = Link(e.t, Ends(e))
  BY <1>1 DEF Link, Ends
<1>3. /\ Begins(x) => Linked(c, x) = Append(c, Link(x.t, Ends(x)))
      /\ ClosesSelf(x) => Linked(c, x) = [c EXCEPT ![Len(c)].closing = TRUE]
      /\ ~Begins(x) /\ ~ClosesSelf(x) => Linked(c, x) = c
  BY LinkedIs
<1>4. /\ Begins(e) => Linked(c, e) = Append(c, Link(e.t, Ends(e)))
      /\ ClosesSelf(e) => Linked(c, e) = [c EXCEPT ![Len(c)].closing = TRUE]
      /\ ~Begins(e) /\ ~ClosesSelf(e) => Linked(c, e) = c
  BY LinkedIs
<1> QED
  BY ONLY <1>1, <1>2, <1>3, <1>4

\* The chain of n activations of g shows their threads, the last one last.
Shows(c, g, n) ==
  /\ Last(c).t = (IF n = 0 THEN Main ELSE g[n].t)
  /\ \A co \in Coroutines : (\E i \in DOMAIN c : c[i].t = co) <=> (\E j \in 1 .. n : g[j].t = co)

\* So does the chain of one more.
LEMMA LinkedShows ==
  ASSUME NEW g \in Seq(Activation), GoOk(g), NEW n \in 1 .. Len(g), NEW c \in Chains, Shows(c, g, n - 1)
  PROVE  Shows(Linked(c, g[n]), g, n)
<1> DEFINE e == g[n]
           S == [t : Threads, closing : BOOLEAN]
<1>1. e \in Activation /\ n \in Nat /\ n - 1 \in Nat /\ ActivationOk(g, n) /\ g # <<>> /\ Hosts(g[1]) /\ n \in DOMAIN g
  BY DEF GoOk
<1>2. c \in Seq(S) /\ c # <<>> /\ Len(c) \in 1 .. Len(c) /\ Last(c) = c[Len(c)] /\ DOMAIN c = 1 .. Len(c) /\ Len(c) \in Nat
  BY DEF Chains, Last
<1>3. \A j \in 1 .. n : j = n \/ j \in 1 .. n - 1
  BY <1>1
<1> HIDE DEF S
<1>4. CASE Begins(e)
  <2> DEFINE x == Link(e.t, Ends(e))
  <2>1. x \in S /\ x.t = e.t
    BY <1>1, ActivationParts DEF S, Link, Ends
  <2> HIDE DEF x
  <2>2. Linked(c, e) = Append(c, x)
    BY <1>1, <1>4, LinkedIs DEF x
  <2>3. DOMAIN Append(c, x) = 1 .. Len(c) + 1 /\ (\A i \in 1 .. Len(c) : Append(c, x)[i] = c[i]) /\ Append(c, x)[Len(c) + 1] = x
        /\ Last(Append(c, x)) = x
    BY <1>2, <2>1, OneMore
  <2>4. Last(Append(c, x)).t = g[n].t
    BY <2>1, <2>3
  <2>5. ASSUME NEW co \in Coroutines
        PROVE  (\E i \in DOMAIN Append(c, x) : Append(c, x)[i].t = co) <=> (\E j \in 1 .. n : g[j].t = co)
    <3>1. (\E i \in DOMAIN Append(c, x) : Append(c, x)[i].t = co) <=> (\E i \in DOMAIN c : c[i].t = co) \/ x.t = co
      <4>1. \A i \in 1 .. Len(c) + 1 : i \in 1 .. Len(c) \/ i = Len(c) + 1
        BY <1>2
      <4>2. Len(c) + 1 \in 1 .. Len(c) + 1 /\ \A i \in 1 .. Len(c) : i \in 1 .. Len(c) + 1
        BY <1>2
      <4> QED
        BY ONLY <1>2, <2>3, <4>1, <4>2
    <3>2. (\E j \in 1 .. n : g[j].t = co) <=> (\E j \in 1 .. n - 1 : g[j].t = co) \/ g[n].t = co
      <4>1. n \in 1 .. n /\ \A j \in 1 .. n - 1 : j \in 1 .. n
        BY <1>1
      <4> QED
        BY <1>3, <4>1
    <3> QED
      BY <2>1, <3>1, <3>2 DEF Shows
  <2> QED
    BY <1>1, <2>2, <2>4, <2>5 DEF Shows
<1>5. CASE ~Begins(e)
  <2>1. Last(c).t = e.t
    <3>1. CASE n = 1
      BY <1>1, <3>1 DEF Shows, Hosts
    <3>2. CASE n > 1
      BY <1>1, <1>5, <3>2 DEF Shows, ActivationOk
    <3> QED
      BY <1>1, <3>1, <3>2
  <2>2. Len(Linked(c, e)) = Len(c) /\ DOMAIN Linked(c, e) = DOMAIN c /\ (\A i \in DOMAIN c : Linked(c, e)[i].t = c[i].t)
        /\ Last(Linked(c, e)) = Linked(c, e)[Len(c)]
    <3>1. CASE ClosesSelf(e)
      <4>1. Linked(c, e) = [c EXCEPT ![Len(c)].closing = TRUE]
        BY <1>1, <3>1, LinkedIs
      <4>2. \A i \in DOMAIN c : c[i] \in S
        BY <1>2
      <4> QED
        BY <1>2, <4>1, <4>2 DEF S, Last
    <3>2. CASE ~ClosesSelf(e)
      <4>1. Linked(c, e) = c
        BY <1>1, <1>5, <3>2, LinkedIs
      <4> QED
        BY <1>2, <4>1
    <3> QED
      BY <3>1, <3>2
  <2>3. Last(Linked(c, e)).t = g[n].t
    BY <1>2, <2>1, <2>2
  <2>4. \A co \in Coroutines : (\E j \in 1 .. n : g[j].t = co) <=> (\E j \in 1 .. n - 1 : g[j].t = co)
    <3>1. CASE n = 1
      <4>1. g[n].t = Main /\ Main \notin Coroutines /\ \A j \in 1 .. n : j = n
        BY <1>1, <3>1, ThreadsAssumption DEF Hosts
      <4> QED
        BY <3>1, <4>1
    <3>2. CASE n > 1
      <4>1. n - 1 \in 1 .. n - 1 /\ g[n - 1].t = g[n].t /\ \A j \in 1 .. n - 1 : j \in 1 .. n
        BY <1>1, <1>5, <3>2 DEF ActivationOk
      <4> QED
        BY <1>3, <4>1
    <3> QED
      BY <1>1, <3>1, <3>2
  <2>5. \A co \in Coroutines : (\E i \in DOMAIN Linked(c, e) : Linked(c, e)[i].t = co) <=> (\E i \in DOMAIN c : c[i].t = co)
    BY <2>2
  <2> QED
    BY <1>1, <2>3, <2>4, <2>5 DEF Shows
<1> QED
  BY <1>4, <1>5

\* No thread is twice in a chain, and the first is the main thread.
Apart(c) == c[1].t = Main /\ \A i, j \in DOMAIN c : c[i].t = c[j].t => i = j

\* Nor is any after one more activation.
LEMMA LinkedApart ==
  ASSUME NEW g \in Seq(Activation), GoOk(g), NEW n \in 1 .. Len(g), NEW c \in Chains, Shows(c, g, n - 1), Apart(c)
  PROVE  Apart(Linked(c, g[n]))
<1> DEFINE e == g[n]
           S == [t : Threads, closing : BOOLEAN]
<1>1. e \in Activation /\ n \in Nat /\ n - 1 \in Nat /\ ActivationOk(g, n) /\ g # <<>> /\ Hosts(g[1]) /\ n \in DOMAIN g
  BY DEF GoOk
<1>2. c \in Seq(S) /\ c # <<>> /\ Len(c) \in 1 .. Len(c) /\ DOMAIN c = 1 .. Len(c) /\ Len(c) \in Nat /\ 1 \in 1 .. Len(c)
  BY DEF Chains
<1> HIDE DEF S
<1>3. CASE Begins(e)
  <2> DEFINE x == Link(e.t, Ends(e))
  <2>1. x \in S /\ x.t = e.t
    BY <1>1, ActivationParts DEF S, Link, Ends
  <2>2. e.t \in Coroutines
    BY <1>1, <1>3, ActivationParts DEF Begins, Ends, ActivationOk, Threads
  <2>3. \A i \in DOMAIN c : c[i].t # e.t
    <3>1. n > 1
      <4>1. ~Begins(g[1])
        BY <1>1 DEF Hosts, Protects, Begins
      <4> QED
        BY <1>1, <1>3, <4>1
    <3>2. \A j \in 1 .. n - 1 : g[j].t # e.t
      BY <1>1, <1>3, <3>1 DEF ActivationOk
    <3> QED
      BY <2>2, <3>2 DEF Shows
  <2> HIDE DEF x
  <2>4. Linked(c, e) = Append(c, x)
    BY <1>1, <1>3, LinkedIs DEF x
  <2>5. DOMAIN Append(c, x) = 1 .. Len(c) + 1 /\ (\A i \in 1 .. Len(c) : Append(c, x)[i] = c[i]) /\ Append(c, x)[Len(c) + 1] = x
    BY <1>2, <2>1, OneMore
  <2>6. \A i \in 1 .. Len(c) + 1 : i \in 1 .. Len(c) \/ i = Len(c) + 1
    BY <1>2
  <2>7. ASSUME NEW i \in 1 .. Len(c) + 1, NEW j \in 1 .. Len(c) + 1, Append(c, x)[i].t = Append(c, x)[j].t PROVE i = j
    <3>1. CASE i \in 1 .. Len(c) /\ j \in 1 .. Len(c)
      BY <1>2, <2>5, <2>7, <3>1 DEF Apart
    <3>2. CASE i \in 1 .. Len(c) /\ j = Len(c) + 1
      BY <1>2, <2>1, <2>3, <2>5, <2>7, <3>2
    <3>3. CASE j \in 1 .. Len(c) /\ i = Len(c) + 1
      BY <1>2, <2>1, <2>3, <2>5, <2>7, <3>3
    <3> QED
      BY <2>6, <3>1, <3>2, <3>3
  <2>8. Append(c, x)[1].t = Main
    BY <1>2, <2>5 DEF Apart
  <2> QED
    BY <2>4, <2>5, <2>7, <2>8 DEF Apart
<1>4. CASE ClosesSelf(e)
  <2>1. Linked(c, e) = [c EXCEPT ![Len(c)].closing = TRUE]
    BY <1>1, <1>4, LinkedIs
  <2>2. DOMAIN Linked(c, e) = DOMAIN c /\ \A i \in DOMAIN c : Linked(c, e)[i].t = c[i].t
    <3>1. \A i \in DOMAIN c : c[i] \in S
      BY <1>2
    <3> QED
      BY <1>2, <2>1, <3>1 DEF S
  <2> QED
    BY <1>2, <2>2 DEF Apart
<1>5. CASE ~Begins(e) /\ ~ClosesSelf(e)
  <2>1. Linked(c, e) = c
    BY <1>1, <1>5, LinkedIs
  <2> QED
    BY <2>1
<1> QED
  BY <1>3, <1>4, <1>5

\* What a chain says of the stack.
LEMMA LinksShow ==
  ASSUME NEW g \in Seq(Activation), GoOk(g), g # <<>>
  PROVE  /\ Links(g) \in Chains /\ Last(Links(g)).t = Last(g).t
         /\ \A co \in Coroutines : On(g, co) <=> \E i \in DOMAIN Links(g) : Links(g)[i].t = co
         /\ Apart(Links(g))
<1>1. PICK f : /\ IsLinks(f, g) /\ Links(g) = f[Len(g)] /\ f[0] = OnlyMain /\ (\A n \in 0 .. Len(g) : f[n] \in Chains)
               /\ \A n \in 1 .. Len(g) : f[n] = Linked(f[n - 1], g[n])
  BY LinksAre
<1>2. Len(g) \in Nat /\ DOMAIN g = 1 .. Len(g) /\ Len(g) \in 0 .. Len(g) /\ Last(g) = g[Len(g)] /\ Len(g) # 0
  BY DEF Last
<1>3. Shows(f[0], g, 0)
  <2>1. Main \notin Coroutines
    BY ThreadsAssumption
  <2> QED
    BY <1>1, <2>1 DEF Shows, OnlyMain, Link, Last
<1>0. Apart(f[0])
  BY <1>1 DEF Apart, OnlyMain, Link
<1>4. \A n \in 0 .. Len(g) : Shows(f[n], g, n) /\ Apart(f[n])
  <2> SUFFICES ASSUME NEW n \in 0 .. Len(g), ~(Shows(f[n], g, n) /\ Apart(f[n])) PROVE FALSE
    OBVIOUS
  <2> DEFINE S == {k \in 0 .. Len(g) : ~(Shows(f[k], g, k) /\ Apart(f[k]))}
  <2>1. PICK k \in S : k \in 0 .. Len(g) /\ (k # 0 => k - 1 \in 0 .. Len(g) /\ k - 1 \notin S)
    <3>1. S \in SUBSET (0 .. Len(g)) /\ S # {}
      OBVIOUS
    <3> HIDE DEF S
    <3> QED
      BY <1>2, <3>1, FirstOf
  <2>2. k # 0 /\ k \in 1 .. Len(g) /\ f[k - 1] \in Chains /\ Shows(f[k - 1], g, k - 1) /\ Apart(f[k - 1])
    BY <1>0, <1>1, <1>2, <1>3, <2>1
  <2>3. f[k] = Linked(f[k - 1], g[k])
    BY <1>1, <2>2
  <2>4. Shows(f[k], g, k) /\ Apart(f[k])
    BY <2>2, <2>3, LinkedShows, LinkedApart
  <2> QED
    BY <2>1, <2>4
<1>5. Shows(Links(g), g, Len(g)) /\ Apart(Links(g))
  BY <1>1, <1>2, <1>4
<1> QED
  BY <1>1, <1>2, <1>5 DEF Shows, On

-----------------------------------------------------------------------------
(* What coroutine.status says.                                             *)

\* Of any coroutine, by the threads and Go's stack.
StatusOf(T, g, co) == IF g # <<>> /\ Last(g).t = co THEN "running" ELSE Rests(T[co])

\* Which of the two decides.
LEMMA StatusOfIs ==
  ASSUME NEW T, NEW g, NEW F, Good([th |-> T, go |-> g], F), NEW co \in Coroutines
  PROVE  StatusOf(T, g, co) = IF Runs(g, co) THEN "running" ELSE IF On(g, co) THEN "normal" ELSE Rests(T[co])
<1> DEFINE m == [th |-> T, go |-> g]
<1>1. Body(m, F) /\ m.th = T /\ m.go = g /\ co \in Threads
  BY DEF Good, Threads
<1> HIDE DEF m
<1>2. T[co] \in ThreadRecord /\ ThreadOk(T[co], co, g, F)
  BY <1>1, BodyParts
<1>3. T[co].status \in {"ok", "yield", "error"}
  BY <1>2, ThreadParts
<1>4. Runs(g, co) <=> g # <<>> /\ Last(g).t = co
  BY DEF Runs
<1>5. CASE Runs(g, co)
  BY <1>4, <1>5 DEF StatusOf
<1>6. CASE ~Runs(g, co) /\ On(g, co)
  <2>1. T[co].status = "ok" /\ T[co].ci # <<>>
    BY <1>2, <1>3, <1>6 DEF ThreadOk, OnGo, Waits
  <2> QED
    BY <1>4, <1>6, <2>1 DEF StatusOf, Rests
<1>7. CASE ~Runs(g, co) /\ ~On(g, co)
  BY <1>3, <1>4, <1>7 DEF StatusOf, Rests
<1> QED
  BY <1>5, <1>6, <1>7

\* The chain of Go's stack.
ChainOf(g) == IF g = <<>> THEN <<>> ELSE Links(g)

\* What a chain says of the stack, which may be empty.
LEMMA ChainShows ==
  ASSUME NEW T, NEW g, NEW F, Good([th |-> T, go |-> g], F)
  PROVE  /\ g \in Seq(Activation) /\ GoOk(g) /\ (g = <<>> <=> ChainOf(g) = <<>>)
         /\ \A co \in Coroutines : /\ Runs(g, co) <=> ChainOf(g) # <<>> /\ Last(ChainOf(g)).t = co
                                   /\ On(g, co) <=> \E i \in DOMAIN ChainOf(g) : ChainOf(g)[i].t = co
<1> DEFINE m == [th |-> T, go |-> g]
<1>1. Body(m, F) /\ m.go = g
  BY DEF Good
<1> HIDE DEF m
<1>2. g \in Seq(Activation) /\ GoOk(g)
  BY <1>1, BodyParts
<1>3. CASE g = <<>>
  BY <1>2, <1>3 DEF ChainOf, Runs, On
<1>4. CASE g # <<>>
  BY <1>2, <1>4, LinksShow DEF ChainOf, Runs, Chains
<1> QED
  BY <1>2, <1>3, <1>4

\* A step whose chain becomes c, out of which the coroutines of out have gone.
LEMMA Rechains ==
  ASSUME NEW F, NEW E, Good(Machine, F), Good(Machine', E), NEW c, c = ChainOf(go'), NEW out, NEW fate,
         \A co \in Coroutines :
           IF co \in out THEN ~On(go', co) /\ Rests(th'[co]) = fate
           ELSE ~On(go', co) => ~On(go, co) /\ th'[co] = th[co]
  PROVE  Life!Rechain(c, out, fate)
<1>1. Good([th |-> th, go |-> go], F) /\ Good([th |-> th', go |-> go'], E)
  BY DEF Machine
<1>2. \A co \in Coroutines : Status(co) = StatusOf(th, go, co) /\ Status(co)' = StatusOf(th', go', co)
  BY DEF Status, StatusOf, Running, Rests
<1>3. \A co \in Coroutines :
        StatusOf(th', go', co) = IF Runs(go', co) THEN "running" ELSE IF On(go', co) THEN "normal" ELSE Rests(th'[co])
  BY ONLY <1>1, StatusOfIs
<1>4. \A co \in Coroutines :
        StatusOf(th, go, co) = IF Runs(go, co) THEN "running" ELSE IF On(go, co) THEN "normal" ELSE Rests(th[co])
  BY ONLY <1>1, StatusOfIs
<1>5. \A co \in Coroutines : /\ Runs(go', co) <=> c # <<>> /\ Last(c).t = co
                             /\ On(go', co) <=> \E i \in DOMAIN c : c[i].t = co
  BY ONLY <1>1, c = ChainOf(go'), ChainShows
<1>6. \A co \in Coroutines : (Runs(go, co) => On(go, co)) /\ (Runs(go', co) => On(go', co))
  <2>1. \A g \in Seq(Activation), co \in Coroutines : Runs(g, co) => On(g, co)
    BY DEF Runs, On, Last
  <2> QED
    BY ONLY <1>1, <2>1, ChainShows
<1>7. ASSUME NEW co \in Coroutines
      PROVE  Status(co)' = IF co \in out THEN fate
                           ELSE IF c # <<>> /\ Last(c).t = co THEN "running"
                           ELSE IF \E i \in DOMAIN c : c[i].t = co THEN "normal"
                           ELSE Status(co)
  BY <1>2, <1>3, <1>4, <1>5, <1>6
<1>8. (IF go = <<>> THEN <<>> ELSE Links(go))' = c
  BY DEF ChainOf
<1>9. Life!Last(c) = Last(c)
  BY DEF Life!Last, Last
<1>10. [co \in Coroutines |-> Status(co)]'
         = [co \in Coroutines |->
              IF co \in out THEN fate
              ELSE IF c # <<>> /\ Life!Last(c).t = co THEN "running"
              ELSE IF \E i \in DOMAIN c : c[i].t = co THEN "normal"
              ELSE [x \in Coroutines |-> Status(x)][co]]
  BY <1>7, <1>9
<1> QED
  BY <1>8, <1>10 DEF Life!Rechain

-----------------------------------------------------------------------------
(* The last threads of a chain end.                                        *)

\* Chain c without its last k threads; the next begins to close.
Cut(c, k, closing) ==
  LET rest == SubSeq(c, 1, Len(c) - k)
  IN IF closing THEN [rest EXCEPT ![Len(rest)].closing = TRUE] ELSE rest

\* A coroutine that leaves Go's stack is dead, and one that was not there is
\* left alone.
Passes(m, n) ==
  \A co \in Coroutines : ~On(n.go, co) => IF On(m.go, co) THEN Rests(n.th[co]) = "dead" ELSE n.th[co] = m.th[co]
Ended(m, n, k, closing) ==
  /\ n.go # <<>> /\ k < Len(Links(m.go)) /\ (closing => Len(Links(m.go)) - k > 1)
  /\ Links(n.go) = Cut(Links(m.go), k, closing)
  /\ Passes(m, n)

\* What a cut leaves.
LEMMA CutIs ==
  ASSUME NEW c \in Chains, NEW k \in Nat, k < Len(c), NEW closing \in BOOLEAN
  PROVE  LET d == Cut(c, k, closing) IN
         /\ d \in Chains /\ Len(d) = Len(c) - k /\ DOMAIN d = 1 .. Len(c) - k /\ \A i \in 1 .. Len(c) - k : d[i].t = c[i].t
<1> DEFINE S == [t : Threads, closing : BOOLEAN]
           n == Len(c) - k
           s == SubSeq(c, 1, n)
<1>1. c \in Seq(S) /\ n \in 0 .. Len(c) /\ n \in 1 .. n /\ n \in Nat /\ Len(c) \in Nat
  BY DEF Chains
<1> HIDE DEF n
<1>2. s \in Seq(S) /\ Len(s) = n /\ DOMAIN s = 1 .. n /\ \A i \in 1 .. n : s[i] = c[i]
  <2> HIDE DEF S
  <2> QED
    BY <1>1, FirstOnes
<1> HIDE DEF s
<1>3. s # <<>>
  BY <1>1, <1>2
<1>4. Cut(c, k, closing) = IF closing THEN [s EXCEPT ![n].closing = TRUE] ELSE s
  BY <1>2 DEF Cut, s, n
<1> DEFINE x == [s[n] EXCEPT !.closing = TRUE]
<1>5. s[n] \in S
  <2> HIDE DEF S
  <2> QED
    BY <1>1, <1>2
<1>6. x \in S /\ x.t = s[n].t
  BY <1>5
<1>7. [s EXCEPT ![n].closing = TRUE] = [s EXCEPT ![n] = x]
  BY <1>1, <1>2
<1> HIDE DEF x, S
<1>8. /\ [s EXCEPT ![n] = x] \in Seq(S) /\ Len([s EXCEPT ![n] = x]) = n /\ DOMAIN [s EXCEPT ![n] = x] = 1 .. n
      /\ \A i \in 1 .. n : [s EXCEPT ![n] = x][i] = IF i = n THEN x ELSE s[i]
  BY <1>1, <1>2, <1>6
<1>9. [s EXCEPT ![n] = x] # <<>>
  BY <1>1, <1>8
<1>10. CASE closing
  <2>1. Cut(c, k, closing) = [s EXCEPT ![n] = x]
    BY <1>4, <1>7, <1>10
  <2> QED
    BY <1>1, <1>2, <1>6, <1>8, <1>9, <2>1 DEF Chains, S, n
<1>11. CASE ~closing
  <2>1. Cut(c, k, closing) = s
    BY <1>4, <1>11
  <2> QED
    BY <1>1, <1>2, <1>3, <2>1 DEF Chains, S, n
<1> QED
  BY <1>10, <1>11

\* Such a step is one of the lifecycle.
LEMMA EndedIs ==
  ASSUME NEW F, NEW E, Good(Machine, F), Good(Machine', E), go # <<>>, NEW k \in 0 .. 2, NEW closing \in BOOLEAN,
         Ended(Machine, Machine', k, closing)
  PROVE  Life!Next
<1> DEFINE c == ChainOf(go)
           d == ChainOf(go')
           out == {c[i].t : i \in Len(SubSeq(c, 1, Len(c) - k)) + 1 .. Len(c)}
<1>1. Machine.go = go /\ Machine.th = th /\ Machine'.go = go' /\ Machine'.th = th'
  BY DEF Machine
<1>2. Good([th |-> th, go |-> go], F) /\ Good([th |-> th', go |-> go'], E)
  BY DEF Machine
<1>3. go' # <<>> /\ c = Links(go) /\ d = Links(go') /\ k < Len(c) /\ (closing => Len(c) - k > 1) /\ d = Cut(c, k, closing)
  BY <1>1, SMTT(60) DEF Ended, ChainOf
<1>4. go \in Seq(Activation) /\ GoOk(go) /\ go' \in Seq(Activation)
  BY ONLY <1>2, ChainShows
<1>5. c \in Chains /\ Apart(c)
  BY <1>3, <1>4, LinksShow
<1>6. Len(c) \in Nat /\ k \in Nat /\ Len(c) - k \in 0 .. Len(c) /\ DOMAIN c = 1 .. Len(c)
  BY ONLY <1>3, <1>5 DEF Chains
<1>7. Len(SubSeq(c, 1, Len(c) - k)) = Len(c) - k
  BY <1>5, <1>6, FirstOnes DEF Chains
<1>8. DOMAIN d = 1 .. Len(c) - k /\ \A i \in 1 .. Len(c) - k : d[i].t = c[i].t
  BY <1>3, <1>5, <1>6, CutIs
<1>9. /\ \A co \in Coroutines : On(go, co) <=> \E i \in DOMAIN c : c[i].t = co
      /\ \A co \in Coroutines : On(go', co) <=> \E i \in DOMAIN d : d[i].t = co
  BY ONLY <1>2, ChainShows
<1>10. out = {c[i].t : i \in Len(c) - k + 1 .. Len(c)}
  BY <1>7
<1> HIDE DEF c, d, out
<1>11. ASSUME NEW co \in Coroutines PROVE co \in out <=> On(go, co) /\ ~On(go', co)
  <2>1. ASSUME co \in out PROVE On(go, co) /\ ~On(go', co)
    <3>1. PICK i \in Len(c) - k + 1 .. Len(c) : c[i].t = co
      BY <1>10, <2>1
    <3>2. i \in DOMAIN c
      BY <1>6, <3>1
    <3>3. ASSUME NEW j \in DOMAIN d PROVE d[j].t # co
      <4>1. j \in DOMAIN c /\ j # i /\ d[j].t = c[j].t
        BY <1>6, <1>8, <3>1
      <4> QED
        BY <1>5, <3>1, <3>2, <4>1 DEF Apart
    <3> QED
      BY <1>9, <3>1, <3>2, <3>3
  <2>2. ASSUME On(go, co), ~On(go', co) PROVE co \in out
    <3>1. PICK i \in DOMAIN c : c[i].t = co
      BY <1>9, <2>2
    <3>2. i \notin DOMAIN d
      BY <1>8, <1>9, <2>2, <3>1
    <3>3. i \in Len(c) - k + 1 .. Len(c)
      BY <1>6, <1>8, <3>2
    <3> QED
      BY <1>10, <3>1, <3>3
  <2> QED
    BY <2>1, <2>2
<1>12. Life!Rechain(d, out, "dead")
  <2>1. ASSUME NEW co \in Coroutines
        PROVE  IF co \in out THEN ~On(go', co) /\ Rests(th'[co]) = "dead"
               ELSE ~On(go', co) => ~On(go, co) /\ th'[co] = th[co]
    BY <1>1, <1>11 DEF Ended, Passes
  <2> QED
    BY <2>1, Rechains DEF d
<1>13. Life!End(k, closing)
  <2> DEFINE rest == SubSeq(c, 1, Len(c) - k)
  <2>1. Len(rest) = Len(c) - k
    BY <1>7
  <2>2. c = (IF go = <<>> THEN <<>> ELSE Links(go))
    BY DEF c, ChainOf
  <2>3. d = IF closing THEN [rest EXCEPT ![Len(rest)].closing = TRUE] ELSE rest
    BY <1>3 DEF Cut
  <2>4. out = {c[i].t : i \in Len(rest) + 1 .. Len(c)}
    BY <1>10, <2>1
  <2> HIDE DEF rest
  <2>5. k < Len(c) /\ (closing => Len(rest) > 1)
    BY <1>3, <2>1
  <2>6. Life!Rechain(IF closing THEN [rest EXCEPT ![Len(rest)].closing = TRUE] ELSE rest,
                     {c[i].t : i \in Len(rest) + 1 .. Len(c)}, "dead")
    BY <1>12, <2>3, <2>4
  <2> QED
    BY <2>2, <2>5, <2>6 DEF Life!End, rest
<1> QED
  BY <1>13 DEF Life!Next

\* What is not on Go's stack is left alone.
Elsewhere(m, n) == \A t \in Coroutines : ~On(m.go, t) => Untouched(m, n, t)

\* Then the same chain goes on.
LEMMA Continues ==
  ASSUME NEW m, NEW F, Body(m, F), NEW n, NEW E, Body(n, E), m.go # <<>>, n.go # <<>>, Links(n.go) = Links(m.go), Elsewhere(m, n)
  PROVE  Ended(m, n, 0, FALSE)
<1> DEFINE c == Links(m.go)
<1>1. m.go \in Seq(Activation) /\ GoOk(m.go) /\ n.go \in Seq(Activation) /\ GoOk(n.go)
  BY BodyParts
<1>2. c \in Chains /\ \A co \in Coroutines : On(m.go, co) <=> On(n.go, co)
  BY <1>1, LinksShow
<1>3. Len(c) \in Nat /\ Len(c) > 0 /\ c \in Seq([t : Threads, closing : BOOLEAN])
  BY <1>2 DEF Chains
<1>4. Cut(c, 0, FALSE) = c
  <2>1. SubSeq(c, 1, Len(c)) = c /\ Len(c) - 0 = Len(c)
    BY <1>3, AllOnes
  <2> HIDE DEF c
  <2> QED
    BY <2>1 DEF Cut
<1>5. Passes(m, n)
  BY <1>2 DEF Passes, Elsewhere, Untouched
<1> QED
  BY <1>3, <1>4, <1>5 DEF Ended

\* The last thread ends.
LEMMA EndsOne ==
  ASSUME NEW m, NEW F, Body(m, F), NEW n, NEW E, Body(n, E), m.go # <<>>, n.go # <<>>, NEW x \in [t : Threads, closing : BOOLEAN],
         Links(m.go) = Append(Links(n.go), x), Elsewhere(m, n), Rests(n.th[x.t]) = "dead"
  PROVE  Ended(m, n, 1, FALSE)
<1> DEFINE c == Links(m.go)
           d == Links(n.go)
           S == [t : Threads, closing : BOOLEAN]
<1>1. m.go \in Seq(Activation) /\ GoOk(m.go) /\ n.go \in Seq(Activation) /\ GoOk(n.go)
  BY BodyParts
<1>2. c \in Chains /\ d \in Chains
  BY <1>1, LinksShow
<1>3. /\ \A co \in Coroutines : On(m.go, co) <=> \E i \in DOMAIN c : c[i].t = co
      /\ \A co \in Coroutines : On(n.go, co) <=> \E i \in DOMAIN d : d[i].t = co
  BY <1>1, LinksShow
<1>4. d \in Seq(S) /\ Len(d) \in Nat /\ Len(d) > 0 /\ DOMAIN d = 1 .. Len(d) /\ c = Append(d, x) /\ x \in S
  BY <1>2 DEF Chains
<1> HIDE DEF c, d, S
<1>5. /\ Len(c) = Len(d) + 1 /\ DOMAIN c = 1 .. Len(d) + 1 /\ (\A i \in 1 .. Len(d) : c[i] = d[i]) /\ c[Len(d) + 1] = x
      /\ \A l \in 0 .. Len(d) : SubSeq(c, 1, l) = SubSeq(d, 1, l)
  BY <1>4, OneMore
<1>6. Cut(c, 1, FALSE) = d
  <2>1. SubSeq(d, 1, Len(d)) = d /\ Len(c) - 1 = Len(d) /\ Len(d) \in 0 .. Len(d)
    BY <1>4, <1>5, AllOnes
  <2>2. SubSeq(c, 1, Len(c) - 1) = d
    BY <1>5, <2>1
  <2> QED
    BY <2>2 DEF Cut
<1>7. ASSUME NEW co \in Coroutines, ~On(n.go, co), On(m.go, co) PROVE Rests(n.th[co]) = "dead"
  <2>1. PICK i \in DOMAIN c : c[i].t = co
    BY <1>3, <1>7
  <2>2. i \notin DOMAIN d
    BY <1>3, <1>4, <1>5, <1>7, <2>1
  <2>3. i = Len(d) + 1
    BY <1>4, <1>5, <2>2
  <2> QED
    BY <1>5, <2>1, <2>3
<1>8. Passes(m, n)
  BY <1>7 DEF Passes, Elsewhere, Untouched
<1>9. Len(c) \in Nat /\ 1 < Len(c)
  BY <1>4, <1>5
<1> QED
  BY <1>6, <1>8, <1>9 DEF Ended, c, d

\* The last thread begins to close.
LEMMA ClosesLast ==
  ASSUME NEW m, NEW F, Body(m, F), NEW n, NEW E, Body(n, E), m.go # <<>>, n.go # <<>>, Last(m.go).t # Main,
         Links(n.go) = [Links(m.go) EXCEPT ![Len(Links(m.go))].closing = TRUE], Elsewhere(m, n)
  PROVE  Ended(m, n, 0, TRUE)
<1> DEFINE c == Links(m.go)
           d == Links(n.go)
<1>1. m.go \in Seq(Activation) /\ GoOk(m.go) /\ n.go \in Seq(Activation) /\ GoOk(n.go)
  BY BodyParts
<1>2. c \in Chains /\ Apart(c) /\ Last(c).t = Last(m.go).t /\ d = [c EXCEPT ![Len(c)].closing = TRUE]
  BY <1>1, LinksShow
<1>3. /\ \A co \in Coroutines : On(m.go, co) <=> \E i \in DOMAIN c : c[i].t = co
      /\ \A co \in Coroutines : On(n.go, co) <=> \E i \in DOMAIN d : d[i].t = co
  BY <1>1, LinksShow
<1> HIDE DEF c, d
<1>4. c \in Seq([t : Threads, closing : BOOLEAN]) /\ Len(c) \in Nat /\ Len(c) > 0 /\ Last(c) = c[Len(c)] /\ c[1].t = Main
  BY <1>2 DEF Chains, Last, Apart
<1>5. Len(c) > 1
  BY <1>2, <1>4
<1>6. Cut(c, 0, TRUE) = d
  <2>1. SubSeq(c, 1, Len(c)) = c /\ Len(c) - 0 = Len(c)
    BY <1>4, AllOnes
  <2> QED
    BY <1>2, <2>1 DEF Cut
<1>7. DOMAIN d = DOMAIN c /\ \A i \in DOMAIN d : d[i].t = c[i].t
  <2>1. DOMAIN d = 1 .. Len(c) - 0 /\ \A i \in 1 .. Len(c) - 0 : d[i].t = c[i].t
    BY <1>2, <1>4, <1>6, CutIs
  <2> QED
    BY <1>4, <2>1
<1>8. Passes(m, n)
  BY <1>3, <1>7 DEF Passes, Elsewhere, Untouched
<1>9. 0 < Len(c) /\ Len(c) - 0 > 1
  BY <1>4, <1>5
<1> QED
  BY <1>6, <1>8, <1>9 DEF Ended, c, d

\* One thread ends, and then others do.
LEMMA EndedTwice ==
  ASSUME NEW m, NEW F, Body(m, F), NEW n, NEW E, Body(n, E), Ended(m, n, 1, FALSE),
         NEW o, NEW D, Body(o, D), NEW k \in {0, 1}, NEW closing \in BOOLEAN, Ended(n, o, k, closing), m.go # <<>>
  PROVE  Ended(m, o, k + 1, closing)
<1> DEFINE c == Links(m.go)
           d == Links(n.go)
           S == [t : Threads, closing : BOOLEAN]
<1>1. m.go \in Seq(Activation) /\ GoOk(m.go) /\ n.go \in Seq(Activation) /\ GoOk(n.go) /\ o.go \in Seq(Activation) /\ GoOk(o.go)
      /\ n.go # <<>> /\ o.go # <<>>
  BY BodyParts DEF Ended
<1>2. c \in Chains /\ d \in Chains /\ d = Cut(c, 1, FALSE) /\ 1 < Len(c)
  BY <1>1, LinksShow DEF Ended
<1>3. d = SubSeq(c, 1, Len(c) - 1)
  BY <1>2 DEF Cut
<1>4. Len(d) = Len(c) - 1 /\ DOMAIN d = 1 .. Len(c) - 1 /\ \A i \in 1 .. Len(c) - 1 : d[i].t = c[i].t
  <2> HIDE DEF c, d
  <2>1. 1 \in Nat /\ FALSE \in BOOLEAN
    OBVIOUS
  <2>2. LET e == Cut(c, 1, FALSE) IN Len(e) = Len(c) - 1 /\ DOMAIN e = 1 .. Len(c) - 1 /\ \A i \in 1 .. Len(c) - 1 : e[i].t = c[i].t
    BY ONLY <1>2, <2>1, CutIs
  <2> QED
    BY ONLY <1>2, <2>2
<1>5. /\ \A co \in Coroutines : On(m.go, co) <=> \E i \in DOMAIN c : c[i].t = co
      /\ \A co \in Coroutines : On(n.go, co) <=> \E i \in DOMAIN d : d[i].t = co
      /\ \A co \in Coroutines : On(o.go, co) <=> \E i \in DOMAIN Links(o.go) : Links(o.go)[i].t = co
  BY <1>1, LinksShow
<1>6. k < Len(d) /\ (closing => Len(d) - k > 1) /\ Links(o.go) = Cut(d, k, closing)
  BY DEF Ended
<1> HIDE DEF c, d
<1>7. c \in Seq(S) /\ Len(c) \in Nat /\ DOMAIN c = 1 .. Len(c) /\ Len(c) - 1 \in 0 .. Len(c) /\ k \in Nat /\ Len(c) - 1 - k \in 0 .. Len(c) - 1
  <2>1. c \in Seq(S)
    BY <1>2 DEF Chains
  <2> HIDE DEF S
  <2>2. Len(c) \in Nat /\ DOMAIN c = 1 .. Len(c)
    BY <2>1
  <2>3. k \in Nat /\ k < Len(c) - 1
    BY <1>4, <1>6
  <2> QED
    BY <1>2, <2>1, <2>2, <2>3
<1> HIDE DEF S
<1>8. Cut(c, k + 1, closing) = Cut(d, k, closing)
  <2>1. SubSeq(d, 1, Len(c) - 1 - k) = SubSeq(c, 1, Len(c) - 1 - k)
    BY <1>3, <1>7, FirstOfFirst
  <2>2. SubSeq(c, 1, Len(c) - (k + 1)) = SubSeq(d, 1, Len(d) - k)
    <3>1. Len(c) - (k + 1) = Len(c) - 1 - k /\ Len(d) - k = Len(c) - 1 - k
      BY <1>4, <1>7
    <3> QED
      BY <2>1, <3>1
  <2> QED
    BY <2>2 DEF Cut
<1>9. \A co \in Coroutines : On(n.go, co) => On(m.go, co)
  <2>1. \A i \in DOMAIN d : i \in DOMAIN c /\ d[i].t = c[i].t
    BY <1>4, <1>7
  <2> QED
    BY <1>5, <2>1
<1>10. \A co \in Coroutines : On(o.go, co) => On(n.go, co)
  <2>1. DOMAIN Links(o.go) = 1 .. Len(d) - k /\ \A i \in 1 .. Len(d) - k : Links(o.go)[i].t = d[i].t
    <3>1. k \in Nat /\ k < Len(d)
      BY <1>6, <1>7
    <3>2. LET e == Cut(d, k, closing) IN DOMAIN e = 1 .. Len(d) - k /\ \A i \in 1 .. Len(d) - k : e[i].t = d[i].t
      BY ONLY <1>2, <3>1, closing \in BOOLEAN, CutIs
    <3> QED
      BY ONLY <1>6, <3>2
  <2>2. \A i \in DOMAIN Links(o.go) : i \in DOMAIN d /\ Links(o.go)[i].t = d[i].t
    BY <1>4, <1>7, <2>1
  <2> QED
    BY <1>5, <2>2
<1>11. Passes(m, o)
  <2> SUFFICES ASSUME NEW co \in Coroutines, ~On(o.go, co)
               PROVE IF On(m.go, co) THEN Rests(o.th[co]) = "dead" ELSE o.th[co] = m.th[co]
    BY DEF Passes
  <2>1. Passes(m, n) /\ Passes(n, o)
    BY DEF Ended
  <2> QED
    BY <1>9, <1>10, <2>1 DEF Passes
<1>12. k + 1 < Len(c) /\ (closing => Len(c) - (k + 1) > 1)
  BY <1>4, <1>6, <1>7
<1> QED
  BY <1>1, <1>6, <1>8, <1>11, <1>12 DEF Ended, c, d

-----------------------------------------------------------------------------
(* Calls and returns of Lua code, and the chain.                           *)

\* A step that leaves the chain as it is.
LEMMA ContinuesIs ==
  ASSUME NEW F, NEW E, Good(Machine, F), Good(Machine', E), go # <<>>, go' # <<>>, Links(go') = Links(go),
         \A t \in Coroutines : ~On(go, t) => th'[t] = th[t] /\ ~On(go', t)
  PROVE  Life!Next
<1>1. Machine.go = go /\ Machine.th = th /\ Machine'.go = go' /\ Machine'.th = th'
  BY DEF Machine
<1>2. Body(Machine, F) /\ Body(Machine', E)
  BY DEF Good
<1>3. Elsewhere(Machine, Machine')
  BY <1>1 DEF Elsewhere, Untouched
<1>4. Ended(Machine, Machine', 0, FALSE)
  BY <1>1, <1>2, <1>3, Continues
<1>5. 0 \in 0 .. 2 /\ FALSE \in BOOLEAN
  OBVIOUS
<1> QED
  BY ONLY <1>4, <1>5, go # <<>>, Good(Machine, F), Good(Machine', E), EndedIs

\* Calls add no link.
LEMMA CallLinks ==
  ASSUME NEW g \in Seq(Activation), NEW t \in Threads, NEW ny \in BOOLEAN
  PROVE  Links(Append(g, CallOf(t, ny))) = Links(g) /\ CallOf(t, ny) \in Activation /\ Append(g, CallOf(t, ny)) \in Seq(Activation)
         /\ Append(g, CallOf(t, ny)) # <<>>
<1>1. CallOf(t, ny) \in Activation /\ Neutral(CallOf(t, ny))
  BY DEF CallOf, Activation, Neutral, Begins, ClosesSelf
<1>2. Links(Append(g, CallOf(t, ny))) = Linked(Links(g), CallOf(t, ny)) /\ Links(g) \in Chains
  BY <1>1, LinksMore
<1>3. Linked(Links(g), CallOf(t, ny)) = Links(g)
  BY <1>1, <1>2, LinkedIs DEF Neutral
<1> QED
  BY <1>1, <1>2, <1>3

\* Steps within a thread.
OwnSteps ==
  \/ CallLua
  \/ CallMeta
  \/ \E continuation \in BOOLEAN : CallGo(continuation)
  \/ \E v \in Variables : Declare(v)
  \/ \E i \in 1 .. Cardinality(Variables) : Jump(i)
  \/ Return
  \/ CloseNext

\* What they do to Go's stack.
LEMMA OwnGo ==
  ASSUME OwnSteps
  PROVE  go' = go \/ \E ny \in BOOLEAN : go' = Append(go, CallOf(Running, ny))
<1>1. CASE CallLua
  BY <1>1 DEF CallLua
<1>2. CASE CallMeta
  BY <1>2 DEF CallMeta, CallOf
<1>3. CASE \E continuation \in BOOLEAN : CallGo(continuation)
  <2>1. PICK continuation \in BOOLEAN : CallGo(continuation)
    BY <1>3
  <2> DEFINE ny == ~continuation \/ th[Running].nny > 0
  <2>2. go' = Append(go, CallOf(Running, ny)) /\ ny \in BOOLEAN
    BY <2>1 DEF CallGo, CallOf
  <2> HIDE DEF ny
  <2> QED
    BY <2>2
<1>4. CASE \E v \in Variables : Declare(v)
  BY <1>4 DEF Declare
<1>5. CASE \E i \in 1 .. Cardinality(Variables) : Jump(i)
  BY <1>5 DEF Jump
<1>6. CASE Return
  BY <1>6 DEF Return
<1>7. CASE CloseNext
  <2>1. CASE Truncated
    BY <1>7, <2>1 DEF CloseNext
  <2>2. CASE ~Truncated
    <3> DEFINE ny == Last(go).k = "closing"
    <3>1. go' = Append(go, CallOf(Running, ny)) /\ ny \in BOOLEAN
      BY <1>7, <2>2 DEF CloseNext, CallClose, CallOf
    <3> HIDE DEF ny
    <3> QED
      BY <3>1
  <2> QED
    BY <2>1, <2>2
<1> QED
  BY <1>1, <1>2, <1>3, <1>4, <1>5, <1>6, <1>7 DEF OwnSteps

\* They leave the chain as it is.
LEMMA OwnLife ==
  ASSUME Inv, Inv',
         OwnSteps
  PROVE  Life!Next
<1>1. PICK F : Good(Machine, F)
  BY DEF Inv
<1>2. PICK E : Good(Machine', E)
  BY DEF Inv
<1>3. go # <<>> /\ go \in Seq(Activation) /\ Running \in Threads
  <2>1. go # <<>>
    BY DEF OwnSteps, CallLua, CallMeta, CallGo, Declare, Jump, Return, CloseNext, LuaRuns, Closing
  <2>2. Body(Machine, F) /\ Machine.go = go
    BY <1>1 DEF Good, Machine
  <2> QED
    BY <2>1, <2>2, BodyParts DEF Running
<1>4. ASSUME NEW t \in Coroutines, ~On(go, t) PROVE th'[t] = th[t] /\ ~On(go', t)
  BY <1>4, OwnElsewhere, CloseNextElsewhere DEF Threads, OwnSteps
<1>5. go' = go \/ \E ny \in BOOLEAN : go' = Append(go, CallOf(Running, ny))
  BY OwnGo
<1>6. go' # <<>> /\ Links(go') = Links(go)
  <2>1. CASE go' = go
    BY <1>3, <2>1
  <2>2. ASSUME NEW ny \in BOOLEAN, go' = Append(go, CallOf(Running, ny)) PROVE go' # <<>> /\ Links(go') = Links(go)
    BY ONLY <1>3, <2>2, CallLinks
  <2> QED
    BY ONLY <1>5, <2>1, <2>2
<1> QED
  BY ONLY <1>1, <1>2, <1>3, <1>4, <1>6, ContinuesIs

\* A pcall.
LEMMA PcallLife ==
  ASSUME Inv, Inv', CallPcall
  PROVE  Life!Next
<1>1. PICK F : Good(Machine, F)
  BY DEF Inv
<1>2. PICK E : Good(Machine', E)
  BY DEF Inv
<1>3. go # <<>> /\ go \in Seq(Activation) /\ Running \in Threads /\ th[Running] \in ThreadRecord /\ go' \in Seq(Activation)
  <2>1. go # <<>>
    BY DEF CallPcall, LuaRuns
  <2>2. Body(Machine, F) /\ Machine.go = go /\ Machine.th = th
    BY <1>1 DEF Good, Machine
  <2>3. Body(Machine', E) /\ Machine'.go = go'
    BY <1>2 DEF Good, Machine
  <2>4. go' \in Seq(Activation)
    BY ONLY <2>3, BodyParts
  <2> QED
    BY <2>1, <2>2, <2>4, BodyParts DEF Running
<1>4. ASSUME NEW t \in Coroutines, ~On(go, t) PROVE th'[t] = th[t] /\ ~On(go', t)
  BY <1>4, PcallElsewhere DEF Threads
<1> DEFINE r == PushFrame(Calling(th[Running]), "pcall", FALSE)
           q == Mark(r, "protect", 0)
           y == [k |-> "protect", t |-> Running, ci |-> q.ci, nny |-> r.nny, level |-> Last(r.ci).pos + 1]
           x == CallOf(Running, TRUE)
<1>5. CASE r.nny = 0
  <2>1. go' = Append(go, CallOf(Running, FALSE))
    BY <1>5 DEF CallPcall, CallOf
  <2>2. go' # <<>> /\ Links(go') = Links(go)
    BY <1>3, <2>1, CallLinks
  <2> QED
    BY ONLY <1>1, <1>2, <1>3, <1>4, <2>2, ContinuesIs
<1>6. CASE r.nny # 0
  <2>1. go' = go \o <<y, x>>
    BY <1>6 DEF CallPcall, CallOf
  <2>2. Neutral(y)
    BY DEF Neutral, Begins, ClosesSelf
  <2> HIDE DEF x, y
  <2> DEFINE n == Len(go)
  <2>3. n \in Nat /\ Len(go') = n + 2 /\ (\A j \in 1 .. n : go'[j] = go[j]) /\ go'[n + 1] = y
    BY <1>3, <2>1
  <2> HIDE DEF n
  <2>4. y \in Activation /\ go' = Append(Append(go, y), x)
    <3>1. n + 1 \in 1 .. Len(go')
      BY <2>3
    <3>2. y \in Activation
      BY <1>3, <2>3, <3>1
    <3> QED
      BY <1>3, <2>1, <3>2
  <2>5. Append(go, y) \in Seq(Activation) /\ Links(Append(go, y)) = Links(go)
    <3>1. Append(go, y) \in Seq(Activation)
      BY <1>3, <2>4
    <3>2. Links(Append(go, y)) = Linked(Links(go), y) /\ Links(go) \in Chains
      BY <1>3, <2>4, LinksMore
    <3> QED
      BY <2>2, <2>4, <3>1, <3>2, LinkedIs DEF Neutral
  <2>6. Links(go') = Links(go) /\ go' # <<>>
    BY <1>3, <2>4, <2>5, CallLinks DEF x
  <2> QED
    BY ONLY <1>1, <1>2, <1>3, <1>4, <2>6, ContinuesIs
<1> QED
  BY <1>5, <1>6

-----------------------------------------------------------------------------
(* Threads begin.                                                          *)

\* The host calls.
LEMMA HostLife ==
  ASSUME Inv, Inv', HostCall
  PROVE  Life!Next
<1>1. PICK F : Good(Machine, F)
  BY DEF Inv
<1>2. PICK E : Good(Machine', E)
  BY DEF Inv
<1>3. th \in [Threads -> ThreadRecord]
  BY <1>1 DEF Good, Body, Typed, Machine
<1> DEFINE r == Called(th[Main], TRUE)
           x == [k |-> "protect", t |-> Main, ci |-> <<>>, nny |-> 1, level |-> 1]
           y == CallOf(Main, TRUE)
<1>4. th' = [th EXCEPT ![Main] = r] /\ go' = <<x, y>> /\ go = <<>>
  BY DEF HostCall, CallOf
<1>5. Neutral(x) /\ x \in Activation /\ Main \in Threads
  <2>1. x.ci \in Seq(CallInfo)
    OBVIOUS
  <2> QED
    BY <2>1 DEF Neutral, Begins, ClosesSelf, Activation, Threads
<1> HIDE DEF r, x, y
<1>6. Links(go') = OnlyMain /\ go' # <<>>
  <2> DEFINE g == <<>>
  <2>1. g \in Seq(Activation) /\ Len(g) = 0
    OBVIOUS
  <2>2. go' = Append(Append(g, x), y)
    BY <1>4
  <2> HIDE DEF g
  <2>3. Links(g) = OnlyMain
    BY <2>1, LinksAre
  <2>4. Links(Append(g, x)) = Linked(Links(g), x) /\ Links(g) \in Chains /\ Append(g, x) \in Seq(Activation)
    <3>1. Append(g, x) \in Seq(Activation)
      BY <1>5, <2>1
    <3> QED
      BY <1>5, <2>1, <3>1, LinksMore
  <2>5. Linked(Links(g), x) = Links(g)
    BY <1>5, <2>4, LinkedIs DEF Neutral
  <2>6. Links(Append(Append(g, x), y)) = Links(Append(g, x)) /\ Append(Append(g, x), y) # <<>>
    BY <1>5, <2>4, CallLinks DEF y
  <2> QED
    BY <2>2, <2>3, <2>4, <2>5, <2>6
<1>7. \A co \in Coroutines : ~On(go, co) /\ th'[co] = th[co]
  BY <1>3, <1>4, ThreadsAssumption DEF On, Threads
<1>8. OnlyMain = ChainOf(go')
  BY <1>6 DEF ChainOf
<1>9. Life!Rechain(OnlyMain, {}, "dead")
  BY <1>1, <1>2, <1>7, <1>8, Rechains
<1>10. Life!Enter
  <2>1. <<Life!Link(Main, FALSE)>> = OnlyMain
    BY DEF Life!Link, Link, OnlyMain
  <2> QED
    BY <1>4, <1>9, <2>1 DEF Life!Enter
<1> QED
  BY <1>10 DEF Life!Next

\* A coroutine begins, or begins to be closed.
LEMMA Begun ==
  ASSUME NEW F, NEW E, Good(Machine, F), Good(Machine', E), go # <<>>, NEW co \in Coroutines, ~On(go, co),
         NEW x \in Activation, Begins(x), x.t = co, go' = Append(go, x),
         \A t \in Coroutines : ~On(go, t) /\ t # co => th'[t] = th[t]
  PROVE  Life!Rechain(Append(IF go = <<>> THEN <<>> ELSE Links(go), Life!Link(co, Ends(x))), {}, "dead")
<1>1. Good([th |-> th, go |-> go], F) /\ Good([th |-> th', go |-> go'], E)
  BY DEF Machine
<1>2. go \in Seq(Activation) /\ go' \in Seq(Activation) /\ GoOk(go)
  BY ONLY <1>1, ChainShows
<1>3. Links(go') = Linked(Links(go), x) /\ Links(go) \in Chains
  BY <1>2, LinksMore
<1>4. Linked(Links(go), x) = Append(Links(go), Link(co, Ends(x)))
  BY <1>3, LinkedIs
<1>5. go' # <<>> /\ DOMAIN go' = 1 .. Len(go) + 1 /\ (\A i \in 1 .. Len(go) : go'[i] = go[i]) /\ go'[Len(go) + 1] = x
      /\ DOMAIN go = 1 .. Len(go) /\ Len(go) \in Nat
  BY <1>2, OneMore
<1>6. \A t \in Coroutines : On(go', t) <=> On(go, t) \/ t = co
  <2>1. \A i \in 1 .. Len(go) + 1 : i \in 1 .. Len(go) \/ i = Len(go) + 1
    BY <1>5
  <2>2. Len(go) + 1 \in 1 .. Len(go) + 1 /\ \A i \in 1 .. Len(go) : i \in 1 .. Len(go) + 1
    BY <1>5
  <2> QED
    BY <1>5, <2>1, <2>2 DEF On
<1>7. ChainOf(go') = Append(Links(go), Link(co, Ends(x)))
  BY <1>3, <1>4, <1>5 DEF ChainOf
<1> DEFINE c == Append(Links(go), Link(co, Ends(x)))
<1>8. \A t \in Coroutines : ~On(go', t) => ~On(go, t) /\ th'[t] = th[t]
  BY <1>6
<1> HIDE DEF c
<1>9. Life!Rechain(c, {}, "dead")
  BY <1>7, <1>8, Rechains DEF c
<1>10. c = Append(IF go = <<>> THEN <<>> ELSE Links(go), Life!Link(co, Ends(x)))
  BY DEF Life!Link, Link, c
<1> QED
  BY <1>9, <1>10

\* Resume.
LEMMA ResumeLife ==
  ASSUME Inv, Inv', NEW co \in Coroutines, NEW wrap \in BOOLEAN, Resume(co, wrap)
  PROVE  Life!Next
<1>1. PICK F : Good(Machine, F)
  BY DEF Inv
<1>2. PICK E : Good(Machine', E)
  BY DEF Inv
<1>3. /\ Body(Machine, F) /\ Lua(go) /\ Running \in Threads /\ th \in [Threads -> ThreadRecord]
      /\ go # <<>> /\ th[Running].status = "ok" /\ th[Running].ci # <<>> /\ Running = Last(go).t
  BY <1>1, LuaParts DEF Resume
<1> DEFINE r == th[co]
           q == Resumed(r)
           x == [k |-> "resume", t |-> co, nny |-> r.nny, loop |-> FALSE, wrap |-> wrap]
<1>4. /\ r.status = "yield" \/ (r.status = "ok" /\ r.ci = <<>> /\ r.fresh)
      /\ th' = [th EXCEPT ![Running] = Calling(th[Running]), ![co] = q] /\ go' = Append(go, x)
  BY DEF Resume
<1>5. ~On(go, co) /\ r \in ThreadRecord
  BY <1>1, <1>3, <1>4, NotOn
<1>6. x \in Activation /\ Begins(x) /\ ~Ends(x) /\ x.t = co
  BY <1>5 DEF Activation, Begins, Ends, ThreadRecord
<1>7. Status(co) = "suspended"
  <2>1. Good([th |-> th, go |-> go], F)
    BY <1>1 DEF Machine
  <2>2. StatusOf(th, go, co) = IF Runs(go, co) THEN "running" ELSE IF On(go, co) THEN "normal" ELSE Rests(th[co])
    BY <2>1, StatusOfIs
  <2>3. ~Runs(go, co)
    BY <1>5, <2>1, ChainShows, TopIsOn DEF Runs
  <2>4. Rests(th[co]) = "suspended"
    BY <1>4 DEF Rests
  <2> QED
    BY <1>5, <2>2, <2>3, <2>4 DEF Status, StatusOf, Running, Rests
<1>8. ASSUME NEW t \in Coroutines, ~On(go, t), t # co PROVE th'[t] = th[t]
  <2>1. t # Running
    BY <1>1, <1>3, <1>8, BodyParts, TopIsOn DEF Machine
  <2> HIDE DEF q
  <2> QED
    BY <1>3, <1>4, <1>8, <2>1 DEF Threads
<1> HIDE DEF x, q, r
<1>9. Life!Rechain(Append(IF go = <<>> THEN <<>> ELSE Links(go), Life!Link(co, Ends(x))), {}, "dead")
  BY <1>1, <1>2, <1>3, <1>4, <1>5, <1>6, <1>8, Begun
<1>10. Life!Resume(co)
  <2>1. Life!Link(co, Ends(x)) = Life!Link(co, FALSE)
    <3>1. Ends(x) = FALSE
      BY <1>6 DEF Ends
    <3> QED
      BY <3>1
  <2>2. Links(go) # <<>>
    <3>1. Good([th |-> th, go |-> go], F)
      BY <1>1 DEF Machine
    <3> QED
      BY <1>3, <3>1, ChainShows DEF ChainOf
  <2> QED
    BY <1>3, <1>7, <1>9, <2>1, <2>2 DEF Life!Resume
<1> QED
  BY <1>10 DEF Life!Next

\* CloseThread, called on a coroutine that is not in progress.
LEMMA CloseCallLife ==
  ASSUME Inv, Inv', NEW op, LuaRuns(op), NEW co \in Coroutines, NEW then \in {"close", "wrap"}, ~On(go, co),
         Rests(th[co]) \in {"suspended", "dead"},
         Become(CloseThread([Machine EXCEPT !.th[Running] = Calling(@)], co, then))
  PROVE  Life!Next
<1>1. PICK F : Good(Machine, F)
  BY DEF Inv
<1>2. PICK E : Good(Machine', E)
  BY DEF Inv
<1>3. /\ Body(Machine, F) /\ Running \in Threads /\ th \in [Threads -> ThreadRecord] /\ Machine.go = go /\ Machine.th = th
      /\ go # <<>> /\ Running = Last(go).t
  BY <1>1, LuaParts
<1> DEFINE r == th[co]
           n == [Machine EXCEPT !.th[Running] = Calling(@)]
           x == [k |-> "closing", t |-> co, ci |-> <<>>, nny |-> 1, level |-> 1, err |-> r.death, then |-> then]
<1>4. n.go = go /\ n.th = [th EXCEPT ![Running] = Calling(th[Running])]
  BY DEF Machine
<1>5. co # Running /\ r \in ThreadRecord
  <2>1. Last(go).t # co
    BY <1>3, BodyParts, TopIsOn
  <2> QED
    BY <1>3, <2>1 DEF Threads
<1>6. n.th[co] = r
  BY <1>3, <1>4, <1>5 DEF Threads
<1> HIDE DEF n
<1>7. /\ go' = Append(go, x)
      /\ th' = [n.th EXCEPT ![co] = [@ EXCEPT !.status = "ok", !.death = FALSE, !.fresh = FALSE, !.ci = <<>>, !.nny = 1]]
  BY <1>4, <1>6 DEF Become, CloseThread, n
<1>8. x \in Activation /\ Begins(x) /\ Ends(x) = TRUE /\ x.t = co
  <2>1. r.death \in BOOLEAN /\ x.ci \in Seq(CallInfo)
    BY <1>5, ThreadParts
  <2> HIDE DEF r
  <2> QED
    BY <2>1 DEF Activation, Begins, Ends, Threads
<1>9. ASSUME NEW t \in Coroutines, ~On(go, t), t # co PROVE th'[t] = th[t]
  <2>1. t # Running
    BY <1>3, <1>9, BodyParts, TopIsOn
  <2>2. n.th[t] = th[t] /\ t \in DOMAIN n.th
    BY <1>3, <1>4, <2>1 DEF Threads
  <2> QED
    BY <1>7, <1>9, <2>2
<1>10. Status(co) \in {"suspended", "dead"}
  <2>1. Good([th |-> th, go |-> go], F)
    BY <1>1 DEF Machine
  <2>2. StatusOf(th, go, co) = IF Runs(go, co) THEN "running" ELSE IF On(go, co) THEN "normal" ELSE Rests(th[co])
    BY <2>1, StatusOfIs
  <2>3. ~Runs(go, co)
    BY <1>3, <1>5 DEF Runs
  <2>4. Status(co) = Rests(th[co])
    BY <2>2, <2>3 DEF Status, StatusOf, Running, Rests
  <2> QED
    BY <2>4
<1> HIDE DEF x, r
<1>11. Life!Rechain(Append(IF go = <<>> THEN <<>> ELSE Links(go), Life!Link(co, Ends(x))), {}, "dead")
  BY <1>1, <1>2, <1>3, <1>7, <1>8, <1>9, Begun
<1>12. Life!Close(co)
  <2>1. Life!Link(co, Ends(x)) = Life!Link(co, TRUE)
    BY <1>8
  <2>2. Links(go) # <<>>
    <3>1. Good([th |-> th, go |-> go], F)
      BY <1>1 DEF Machine
    <3> QED
      BY <1>3, <3>1, ChainShows DEF ChainOf
  <2> QED
    BY <1>3, <1>10, <1>11, <2>1, <2>2 DEF Life!Close
<1> QED
  BY <1>12 DEF Life!Next

\* coroutine.close, and wrap of a coroutine dead already.
LEMMA CloseLife ==
  ASSUME Inv, Inv', NEW co \in Coroutines, CloseCoroutine(co) \/ WrapDead(co)
  PROVE  Life!Next
<1>1. PICK F : Good(Machine, F)
  BY DEF Inv
<1>2. Body(Machine, F) /\ Machine.go = go /\ Machine.th = th /\ co \in Threads /\ Good([th |-> th, go |-> go], F)
  BY <1>1 DEF Good, Machine, Threads
<1>3. Status(co) = IF Runs(go, co) THEN "running" ELSE IF On(go, co) THEN "normal" ELSE Rests(th[co])
  <2>1. StatusOf(th, go, co) = IF Runs(go, co) THEN "running" ELSE IF On(go, co) THEN "normal" ELSE Rests(th[co])
    BY <1>2, StatusOfIs
  <2> QED
    BY <2>1 DEF Status, StatusOf, Running, Rests
<1>4. \A g \in Seq(Activation) : Runs(g, co) => On(g, co)
  BY DEF Runs, On, Last
<1>5. CASE CloseCoroutine(co)
  <2>1. /\ LuaRuns("close") /\ Status(co) \in {"dead", "suspended"}
        /\ Become(CloseThread([Machine EXCEPT !.th[Running] = Calling(@)], co, "close"))
    BY <1>5 DEF CloseCoroutine
  <2>2. ~On(go, co) /\ Rests(th[co]) \in {"suspended", "dead"}
    BY <1>2, <1>3, <1>4, <2>1, BodyParts
  <2> QED
    BY <2>1, <2>2, CloseCallLife
<1>6. CASE WrapDead(co)
  <2>1. /\ LuaRuns("resume") /\ th[co].status = "error"
        /\ Become(CloseThread([Machine EXCEPT !.th[Running] = Calling(@)], co, "wrap"))
    BY <1>6 DEF WrapDead
  <2>2. ~On(go, co)
    BY <1>1, <2>1, LuaParts, NotOn
  <2>3. Rests(th[co]) \in {"suspended", "dead"}
    BY <2>1 DEF Rests
  <2> QED
    BY <2>1, <2>2, <2>3, CloseCallLife
<1> QED
  BY <1>5, <1>6

\* The last link of a chain begins to close.
LEMMA ClosesLink ==
  ASSUME NEW c \in Chains, NEW t \in Threads, NEW b \in BOOLEAN
  PROVE  LET d == Append(c, Link(t, b)) IN
         d \in Chains /\ [d EXCEPT ![Len(d)].closing = TRUE] = Append(c, Link(t, TRUE))
<1> DEFINE S == [t : Threads, closing : BOOLEAN]
           x == Link(t, b)
           y == Link(t, TRUE)
           d == Append(c, x)
           n == Len(c) + 1
<1>1. c \in Seq(S) /\ x \in S /\ y \in S /\ [x EXCEPT !.closing = TRUE] = y
  <2>1. c \in Seq(S)
    BY DEF Chains
  <2> HIDE DEF S
  <2>2. x \in S /\ y \in S
    BY DEF S, Link
  <2>3. [x EXCEPT !.closing = TRUE] = y
    <3>1. \A z, w : [[t |-> t, closing |-> z] EXCEPT !.closing = w] = [t |-> t, closing |-> w]
      OBVIOUS
    <3> QED
      BY <3>1, Zenon DEF Link, x, y
  <2> QED
    BY <2>1, <2>2, <2>3
<1> HIDE DEF S, x, y
<1>2. d \in Seq(S) /\ Len(d) = n /\ d[n] = x /\ n \in DOMAIN d /\ d # <<>>
  BY <1>1
<1>3. [d EXCEPT ![n].closing = TRUE] = [d EXCEPT ![n] = y]
  <2> HIDE DEF n, d
  <2> QED
    BY <1>1, <1>2
<1>4. [d EXCEPT ![n] = y] = Append(c, y)
  <2> DEFINE u == [d EXCEPT ![n] = y]
             v == Append(c, y)
  <2>1. v \in [1 .. n -> S] /\ v[n] = y /\ \A j \in 1 .. Len(c) : v[j] = c[j]
    <3>1. v \in Seq(S) /\ Len(v) = n /\ v[n] = y /\ \A j \in 1 .. Len(c) : v[j] = c[j]
      BY <1>1, OneMore
    <3> HIDE DEF v, n
    <3> QED
      BY <3>1
  <2>2. d \in [1 .. n -> S] /\ \A j \in 1 .. Len(c) : d[j] = c[j]
    <3>1. d \in Seq(S) /\ Len(d) = n /\ \A j \in 1 .. Len(c) : d[j] = c[j]
      BY <1>1, OneMore
    <3> HIDE DEF d, n
    <3> QED
      BY <3>1
  <2>3. Len(c) \in Nat /\ \A j \in 1 .. n : j = n \/ j \in 1 .. Len(c)
    BY <1>1
  <2> HIDE DEF n, d, v
  <2>4. u \in [1 .. n -> S] /\ \A j \in 1 .. n : u[j] = v[j]
    BY <1>1, <2>1, <2>2, <2>3
  <2> HIDE DEF u
  <2>5. u = v
    <3>1. u = [j \in 1 .. n |-> u[j]] /\ v = [j \in 1 .. n |-> v[j]]
      BY <2>1, <2>4
    <3>2. [j \in 1 .. n |-> u[j]] = [j \in 1 .. n |-> v[j]]
      BY <2>4
    <3> QED
      BY <3>1, <3>2
  <2> QED
    BY <2>5 DEF u, v
<1> HIDE DEF n, d
<1> QED
  BY <1>2, <1>3, <1>4 DEF Chains, S, x, y, d

\* The chain of a thread's activations has one link for it.
LEMMA PieceLinks ==
  ASSUME NEW g \in Seq(Activation), GoOk(g), NEW i \in 1 .. Len(g), Begins(g[i]), NEW t \in Threads,
         \A j \in i .. Len(g) : g[j].t = t
  PROVE  LET l == SubSeq(g, 1, i - 1) IN
         Links(l) \in Chains /\ l \in Seq(Activation) /\ \E b \in BOOLEAN : Links(g) = Append(Links(l), Link(t, b))
<1> DEFINE l == SubSeq(g, 1, i - 1)
<1>1. /\ i - 1 \in 0 .. Len(g) /\ Len(g) \in Nat /\ i \in Nat /\ i - 1 \in Nat /\ i - 1 <= Len(g) /\ i <= Len(g)
      /\ Len(g) \in i .. Len(g) /\ i \in i .. Len(g) /\ g # <<>>
  OBVIOUS
<1>2. l \in Seq(Activation) /\ Len(l) = i - 1 /\ (\A k \in 1 .. i - 1 : l[k] = g[k])
  BY <1>1, FirstOnes
<1> HIDE DEF l
<1>3. PICK f : /\ IsLinks(f, g) /\ Links(g) = f[Len(g)] /\ (\A k \in 0 .. Len(g) : f[k] \in Chains)
               /\ \A k \in 1 .. Len(g) : f[k] = Linked(f[k - 1], g[k])
  BY LinksAre
<1>4. PICK u : IsLinks(u, l) /\ Links(l) = u[Len(l)]
  BY <1>2, LinksAre
<1>5. Links(l) = f[i - 1]
  <2>1. Len(l) \in Nat /\ i - 1 <= Len(l)
    BY <1>1, <1>2
  <2> DEFINE n == i - 1
  <2>2. n \in Nat /\ n <= Len(g) /\ n <= Len(l) /\ \A k \in 1 .. n : l[k] = g[k]
    BY <1>1, <1>2, <2>1
  <2> HIDE DEF n
  <2>3. u[n] = f[n]
    BY <1>1, <1>3, <1>4, <2>1, <2>2, LinksAgree
  <2> QED
    BY <1>2, <1>4, <2>3 DEF n
<1>6. \A j \in i + 1 .. Len(g) : ~Begins(g[j])
  <2>1. g[i].t = Last(g).t
    BY <1>1 DEF Last
  <2> QED
    BY <2>1, PieceOfTop
<1> DEFINE c == f[i - 1]
           H(n) == \E b \in BOOLEAN : f[n] = Append(c, Link(t, b))
<1>7. c \in Chains
  BY <1>1, <1>3
<1> HIDE DEF c
<1>8. H(i)
  <2>1. g[i] \in Activation /\ g[i].t = t /\ f[i] = Linked(c, g[i])
    BY <1>1, <1>3 DEF c
  <2>2. f[i] = Append(c, Link(t, Ends(g[i])))
    BY <1>7, <2>1, LinkedIs
  <2>3. Ends(g[i]) \in BOOLEAN
    BY DEF Ends
  <2> QED
    BY <2>2, <2>3
<1>9. ASSUME NEW n \in i + 1 .. Len(g), H(n - 1) PROVE H(n)
  <2>1. g[n] \in Activation /\ ~Begins(g[n]) /\ f[n] = Linked(f[n - 1], g[n]) /\ f[n - 1] \in Chains
    <3>1. n \in 1 .. Len(g) /\ n - 1 \in 0 .. Len(g)
      BY <1>1
    <3> QED
      BY <1>3, <1>6, <3>1
  <2>2. PICK b \in BOOLEAN : f[n - 1] = Append(c, Link(t, b))
    BY <1>9
  <2>3. CASE ClosesSelf(g[n])
    <3> DEFINE d == Append(c, Link(t, b))
    <3>1. [d EXCEPT ![Len(d)].closing = TRUE] = Append(c, Link(t, TRUE))
      BY <1>7, ClosesLink
    <3>2. f[n] = [d EXCEPT ![Len(d)].closing = TRUE]
      BY <2>1, <2>2, <2>3, LinkedIs
    <3> QED
      BY <3>1, <3>2
  <2>4. CASE ~ClosesSelf(g[n])
    BY <2>1, <2>2, <2>4, LinkedIs
  <2> QED
    BY <2>3, <2>4
<1>10. H(Len(g))
  <2> SUFFICES ASSUME ~H(Len(g)) PROVE FALSE
    OBVIOUS
  <2> HIDE DEF H
  <2> DEFINE d == Len(g) - i
             S == {k \in 0 .. d : ~H(i + k)}
  <2>1. d \in Nat /\ i + d = Len(g) /\ i + 0 = i
    BY <1>1
  <2>2. PICK k \in S : k \in 0 .. d /\ (k # 0 => k - 1 \in 0 .. d /\ k - 1 \notin S)
    <3> HIDE DEF d
    <3>1. S \in SUBSET (0 .. d) /\ d \in S
      BY <2>1
    <3> HIDE DEF S
    <3> QED
      BY <2>1, <3>1, FirstOf
  <2> HIDE DEF d
  <2>3. k # 0 /\ ~H(i + k) /\ k \in Nat
    BY <1>1, <1>8, <2>1, <2>2
  <2>4. H(i + (k - 1)) /\ i + k \in i + 1 .. Len(g) /\ (i + k) - 1 = i + (k - 1)
    BY <1>1, <2>1, <2>2, <2>3
  <2>5. H((i + k) - 1)
    BY <2>4
  <2> QED
    BY <1>9, <2>3, <2>4, <2>5
<1> QED
  BY <1>2, <1>3, <1>5, <1>7, <1>10 DEF l, c

\* A thread leaves Go's stack.
LEMMA DropLinks ==
  ASSUME NEW m, NEW F, Body(m, F), NEW i \in 1 .. Len(m.go), Begins(m.go[i]), NEW t \in Threads,
         \A j \in i .. Len(m.go) : m.go[j].t = t
  PROVE  LET l == SubSeq(m.go, 1, i - 1) IN
         \E x \in [t : Threads, closing : BOOLEAN] : x = Link(t, x.closing) /\ Links(m.go) = Append(Links(l), x)
<1>1. m.go \in Seq(Activation) /\ GoOk(m.go)
  BY BodyParts
<1> DEFINE g == m.go
           l == SubSeq(g, 1, i - 1)
<1>2. \E b \in BOOLEAN : Links(g) = Append(Links(l), Link(t, b))
  <2> HIDE DEF g
  <2> QED
    BY <1>1, PieceLinks DEF g
<1>3. PICK b \in BOOLEAN : Links(g) = Append(Links(l), Link(t, b))
  BY <1>2
<1>4. Link(t, b) \in [t : Threads, closing : BOOLEAN] /\ Link(t, b) = Link(t, Link(t, b).closing)
  BY DEF Link
<1> QED
  BY <1>3, <1>4

-----------------------------------------------------------------------------
(* What an error or an end does to the chain.                              *)

\* The chain ends at one link at most, or its last begins to close.
Steps(m, n) == \E k \in {0, 1}, closing \in BOOLEAN : Ended(m, n, k, closing)

\* A return leaves the chain as it is.
LEMMA BackEnded ==
  ASSUME NEW m, NEW o, NEW E, Body(o, E), NEW k, NEW closing, Ended(m, o, k, closing)
  PROVE  Ended(m, Back(o), k, closing)
<1>1. o.go \in Seq(Activation) /\ DOMAIN o.th = Threads
  BY BodyParts
<1>2. Back(o).go = o.go
  <2>1. o = [th |-> o.th, go |-> o.go]
    BY BodyParts
  <2> QED
    BY <2>1 DEF Back
<1>3. \A co \in Coroutines : ~On(o.go, co) => Back(o).th[co] = o.th[co]
  BY <1>1, BackUntouched DEF Untouched, Threads
<1> QED
  BY <1>2, <1>3 DEF Ended, Passes

\* auxResume's caller takes the end of a coroutine.
LEMMA FailedEnds ==
  ASSUME NEW m, NEW F, Body(m, F), m.go # <<>>, NEW o, NEW E, Body(o, E), Lua(o.go), Top(o).op = "call",
         NEW co \in Coroutines, ~On(o.go, co), NEW x \in [t : Threads, closing : BOOLEAN], x = Link(co, x.closing),
         Links(m.go) = Append(Links(o.go), x), Elsewhere(m, o), On(m.go, co), Rests(o.th[co]) = "dead", NEW wrap
  PROVE  Steps(m, ResumeFailed(o, co, wrap))
<1>1. o.go # <<>> /\ o.go \in Seq(Activation) /\ o.th \in [Threads -> ThreadRecord] /\ m.go \in Seq(Activation) /\ GoOk(m.go) /\ GoOk(o.go)
  BY BodyParts DEF Lua
<1>2. x.t = co /\ co \in Threads /\ co # Main /\ x.closing \in BOOLEAN
  BY ThreadsAssumption DEF Link, Threads
<1>3. CASE ~(wrap /\ o.th[co].status = "error")
  <2>1. Ended(m, o, 1, FALSE)
    BY <1>1, <1>2, EndsOne
  <2>2. Ended(m, Back(o), 1, FALSE)
    BY <2>1, BackEnded
  <2>3. ResumeFailed(o, co, wrap) = Back(o)
    BY <1>3 DEF ResumeFailed
  <2> QED
    BY <2>2, <2>3 DEF Steps
<1>4. CASE wrap /\ o.th[co].status = "error"
  <2> DEFINE n == CloseThread(o, co, "wrap")
             b == o.th[co].death
             e == [k |-> "closing", t |-> co, ci |-> <<>>, nny |-> 1, level |-> 1, err |-> b, then |-> "wrap"]
  <2>1. ResumeFailed(o, co, wrap) = n
    BY <1>4 DEF ResumeFailed
  <2>2. n.go = Append(o.go, e)
    BY DEF CloseThread
  <2>3. e \in Activation /\ Begins(e) /\ Ends(e) = TRUE /\ e.t = co
    <3>1. b \in BOOLEAN /\ e.ci \in Seq(CallInfo)
      BY <1>1, <1>2, ThreadParts
    <3> HIDE DEF b
    <3> QED
      BY <1>2, <3>1 DEF Activation, Begins, Ends
  <2>4. PICK D : Body(n, D)
    <3>1. \E D : Good(n, D)
      <4>1. "wrap" \in {"close", "wrap"}
        OBVIOUS
      <4> QED
        BY <4>1, CloseBegin
    <3> HIDE DEF n
    <3> QED
      BY <3>1 DEF Good
  <2> HIDE DEF e, b
  <2>5. Links(n.go) = Append(Links(o.go), Link(co, TRUE)) /\ n.go # <<>> /\ Links(o.go) \in Chains
    <3>1. Links(n.go) = Linked(Links(o.go), e) /\ Links(o.go) \in Chains
      BY <1>1, <2>2, <2>3, LinksMore
    <3>2. Linked(Links(o.go), e) = Append(Links(o.go), Link(co, TRUE))
      BY <2>3, <3>1, LinkedIs
    <3>3. n.go # <<>>
      BY <1>1, <2>2, <2>3, OneMore
    <3> QED
      BY <3>1, <3>2, <3>3
  <2> HIDE DEF n
  <2>6. Elsewhere(m, n)
    <3>1. ASSUME NEW t \in Coroutines, ~On(m.go, t) PROVE Untouched(m, n, t)
      <4>1. Untouched(m, o, t) /\ t # co /\ t \in Threads
        BY <3>1 DEF Elsewhere, Threads
      <4>2. "wrap" \in {"pcall", "close", "wrap", "self"}
        OBVIOUS
      <4>3. Untouched(o, n, t)
        BY <1>1, <1>2, <4>1, <4>2, CloseUntouched DEF n, Untouched
      <4> QED
        BY <4>1, <4>3, UntouchedTwice
    <3> QED
      BY <3>1 DEF Elsewhere
  <2>7. CASE x.closing
    <3>1. x = Link(co, TRUE)
      BY <1>2, <2>7
    <3>2. Links(n.go) = Links(m.go)
      BY <2>5, <3>1
    <3>3. Ended(m, n, 0, FALSE)
      BY <2>4, <2>5, <2>6, <3>2, Continues
    <3> QED
      BY <2>1, <3>3 DEF Steps
  <2>8. CASE ~x.closing
    <3> DEFINE c == Links(o.go)
               d == Append(c, Link(co, FALSE))
    <3>1. Links(m.go) = d
      BY <1>2, <2>8
    <3>2. [d EXCEPT ![Len(d)].closing = TRUE] = Append(c, Link(co, TRUE))
      BY <1>2, <2>5, ClosesLink
    <3>3. Last(m.go).t # Main
      <4>1. Last(Links(m.go)).t = Last(m.go).t
        BY <1>1, LinksShow
      <4>2. Last(d) = Link(co, FALSE)
        <5> DEFINE y == Link(co, FALSE)
                   S == [t : Threads, closing : BOOLEAN]
        <5>1. c \in Seq(S) /\ y \in S
          BY <1>2, <2>5 DEF Chains, Link
        <5> HIDE DEF c, y, S
        <5>2. Last(Append(c, y)) = y
          BY <5>1, OneMore
        <5> QED
          BY <5>2 DEF y
      <4> QED
        BY <1>2, <3>1, <4>1, <4>2 DEF Link
    <3>4. Links(n.go) = [Links(m.go) EXCEPT ![Len(Links(m.go))].closing = TRUE]
      BY <2>5, <3>1, <3>2
    <3>5. Ended(m, n, 0, TRUE)
      BY <2>4, <2>5, <2>6, <3>3, <3>4, ClosesLast
    <3> QED
      BY <2>1, <3>5 DEF Steps
  <2> QED
    BY <2>7, <2>8
<1> QED
  BY <1>3, <1>4

\* What a thread that leaves Go's stack leaves alone.
LEMMA WithoutElsewhere ==
  ASSUME NEW m, NEW F, Body(m, F), NEW t, On(m.go, t), NEW i \in 1 .. Len(m.go), NEW q
  PROVE  Elsewhere(m, Without(m, t, i, q))
<1>1. m.th \in [Threads -> ThreadRecord] /\ m.go \in Seq(Activation)
  BY BodyParts
<1>2. i - 1 \in 0 .. Len(m.go)
  BY <1>1
<1>3. ASSUME NEW co \in Coroutines, ~On(m.go, co) PROVE Untouched(m, Without(m, t, i, q), co)
  <2>1. ~On(SubSeq(m.go, 1, i - 1), co)
    <3> DEFINE g == m.go
               n == i - 1
    <3>1. g \in Seq(Activation) /\ n \in 0 .. Len(g) /\ ~On(g, co)
      BY <1>1, <1>2, <1>3
    <3> HIDE DEF g, n
    <3>2. ~On(SubSeq(g, 1, n), co)
      BY <3>1, TopIsOn
    <3> QED
      BY <3>2 DEF g, n
  <2>2. co # t /\ co \in Threads
    BY <1>3 DEF Threads
  <2>3. [m.th EXCEPT ![t] = q][co] = m.th[co]
    BY <1>1, <2>2
  <2> QED
    BY <2>1, <2>3 DEF Untouched, Without
<1> QED
  BY <1>3 DEF Elsewhere

\* What catches an error, and what it becomes, add the same to a chain.
LEMMA CatchLinks ==
  ASSUME NEW g \in Seq(Activation), NEW i \in 1 .. Len(g), \A j \in i + 1 .. Len(g) : g[j].k = "call",
         NEW x \in Activation, Alike(x, g[i]) \/ (Neutral(x) /\ Neutral(g[i]))
  PROVE  LET h == Append(SubSeq(g, 1, i - 1), x) IN Links(h) = Links(g) /\ h # <<>>
<1> DEFINE e == g[i]
           l == SubSeq(g, 1, i - 1)
<1>1. \A j \in i + 1 .. Len(g) : Neutral(g[j])
  BY DEF Neutral, Begins, ClosesSelf
<1>2. Links(g) = Linked(Links(l), e) /\ l \in Seq(Activation) /\ Links(l) \in Chains /\ e \in Activation
  BY <1>1, LinksAt
<1> HIDE DEF l, e
<1>3. Links(Append(l, x)) = Linked(Links(l), x) /\ Append(l, x) # <<>>
  BY <1>2, LinksMore, OneMore
<1>4. Linked(Links(l), x) = Linked(Links(l), e)
  <2>1. CASE Alike(x, e)
    BY <1>2, <2>1, LinkedAlike
  <2>2. CASE Neutral(x) /\ Neutral(e)
    BY <1>2, <2>2, LinkedIs DEF Neutral
  <2> QED
    BY <2>1, <2>2 DEF e
<1> QED
  BY <1>2, <1>3, <1>4 DEF l

\* Resume takes an error.
LEMMA ResumeEnds ==
  ASSUME NEW m, NEW F, Body(m, F), Lua(m.go), Top(m).op \in LuaOps, NEW t, NEW i \in 1 .. Len(m.go),
         \A j \in i .. Len(m.go) : m.go[j].t = t, m.go[i].k = "resume", \A j \in i + 1 .. Len(m.go) : m.go[j].k = "call",
         NEW n, n = CaughtByResume("error", [m EXCEPT !.go = Append(SubSeq(m.go, 1, i - 1), m.go[i])], m.go[i]),
         NEW E, Body(n, E), Elsewhere(m, n)
  PROVE  Steps(m, n)
<1> DEFINE r == m.th[t]
           e == m.go[i]
           g == SubSeq(m.go, 1, i - 1)
           x == [e EXCEPT !.loop = TRUE]
           q == Dead(r, e.nny)
           o == Without(m, t, i, q)
           a == [th |-> [m.th EXCEPT ![t] = Recover(r)], go |-> Append(g, x)]
<1>1. /\ x \in Activation /\ Alike(x, e)
      /\ Recoverable(r) # {} => n = a
      /\ Recoverable(r) = {} => /\ \A p \in DOMAIN r.ci : r.ci[p].op \notin {"protect", "pcall", "error"}
                                /\ n = ResumeFailed(o, t, e.wrap)
  <2> HIDE DEF x, q
  <2> QED
    BY CaughtIs, Zenon DEF x, q
<1>2. m.go # <<>> /\ m.go \in Seq(Activation) /\ On(m.go, t) /\ t \in Coroutines /\ t \in Threads /\ Begins(m.go[i])
  BY BodyParts, ResumePiece DEF Lua
<1>3. CASE Recoverable(r) # {}
  <2> HIDE DEF x, r
  <2>1. n.go = Append(g, x)
    <3>1. n = a
      BY <1>1, <1>3
    <3> QED
      BY ONLY <3>1
  <2>2. Links(Append(g, x)) = Links(m.go) /\ Append(g, x) # <<>>
    BY <1>1, <1>2, CatchLinks, ZenonT(30)
  <2>3. Ended(m, n, 0, FALSE)
    <3> HIDE DEF g
    <3> QED
      BY <1>2, <2>1, <2>2, Continues
  <2> QED
    BY <2>3 DEF Steps
<1>4. CASE Recoverable(r) = {}
  <2> DEFINE D == SubSeq(F, 1, i - 1)
  <2>1. Body(o, D) /\ ~On(o.go, t) /\ Lua(o.go) /\ Top(o).op = "call" /\ q.status = "error" /\ o.th[t] = q
    <3>1. \A p \in DOMAIN m.th[t].ci : m.th[t].ci[p].op \notin {"protect", "pcall", "error"}
      BY <1>1, <1>4
    <3>2. LET p == Dead(m.th[t], m.go[i].nny)
              w == Without(m, t, i, p)
          IN Body(w, SubSeq(F, 1, i - 1)) /\ ~On(w.go, t) /\ Lua(w.go) /\ Top(w).op = "call" /\ p.status = "error" /\ w.th[t] = p
      BY <1>2, <3>1, DieDeparts
    <3> QED
      BY <3>2
  <2>2. Rests(o.th[t]) = "dead"
    <3> HIDE DEF o, q
    <3> QED
      BY <2>1 DEF Rests
  <2>3. PICK y \in [t : Threads, closing : BOOLEAN] : y = Link(t, y.closing) /\ Links(m.go) = Append(Links(g), y)
    BY <1>2, DropLinks
  <2>4. Elsewhere(m, o)
    <3> HIDE DEF o, q
    <3> QED
      BY <1>2, WithoutElsewhere DEF o
  <2>5. o.go = g
    BY DEF Without
  <2> HIDE DEF o, g, D
  <2>6. Steps(m, ResumeFailed(o, t, e.wrap))
    BY <1>2, <2>1, <2>2, <2>3, <2>4, <2>5, FailedEnds
  <2> QED
    BY <1>1, <1>4, <2>6
<1> QED
  BY <1>3, <1>4

\* An error of Lua code ends one thread at most, and may begin to close the
\* next.
LEMMA ThrowEnds ==
  ASSUME NEW m, NEW F, Body(m, F), Lua(m.go), Top(m).op \in LuaOps
  PROVE  Steps(m, Throw("error", m))
<1> DEFINE g == m.go
           t == Last(g).t
           i == Max({j \in 1 .. Len(g) : Catches(g[j], "error")})
           e == g[i]
           l == SubSeq(g, 1, i - 1)
           reset == [m.th EXCEPT ![e.t].ci = e.ci, ![e.t].nny = e.nny]
           n == Throw("error", m)
<1>1. g \in Seq(Activation) /\ GoOk(g) /\ m.th \in [Threads -> ThreadRecord] /\ g # <<>> /\ m = [th |-> m.th, go |-> g]
  BY BodyParts DEF Lua
<1>2. PICK E : Good(n, E)
  BY ErrorBody
<1>3. 1 \in 1 .. Len(g) /\ Catches(g[1], "error")
  <2>1. "error" # "closed"
    OBVIOUS
  <2> HIDE DEF g
  <2> QED
    BY <1>1, <2>1, FirstCatches
<1>4. i \in 1 .. Len(g) /\ Catches(e, "error") /\ \A j \in i + 1 .. Len(g) : ~Catches(g[j], "error")
  <2> HIDE DEF g
  <2> QED
    BY <1>1, <1>3, CatchIs
<1> HIDE DEF i
<1>5. (\A j \in i .. Len(g) : g[j].t = t) /\ (\A j \in i + 1 .. Len(g) : g[j].k = "call") /\ i \in i .. Len(g)
  <2> HIDE DEF g
  <2>1. g \in Seq(Activation) /\ GoOk(g) /\ i \in 1 .. Len(g) /\ \A j \in i + 1 .. Len(g) : ~Catches(g[j], "error")
    BY <1>1, <1>4
  <2>2. (\A j \in i .. Len(g) : g[j].t = Last(g).t) /\ ("error" # "closed" => \A j \in i + 1 .. Len(g) : g[j].k = "call")
    BY <2>1, AboveCatch, ZenonT(30)
  <2>3. i \in i .. Len(g)
    BY <2>1
  <2> QED
    BY <2>2, <2>3
<1>6. e \in Activation /\ e.t = t /\ e.k \in {"closing", "resume", "protect"}
  BY <1>1, <1>4, <1>5 DEF Catches
<1>7. n =
        CASE e.k = "resume" -> CaughtByResume("error", [m EXCEPT !.go = Append(l, e)], e)
          [] e.k = "protect" ->
               [th |-> reset,
                go |-> Append(l, [k |-> "closing", t |-> e.t, ci |-> e.ci, nny |-> e.nny,
                                  level |-> e.level, err |-> TRUE, then |-> "pcall"])]
          [] e.k = "closing" ->
               [th |-> reset, go |-> Append(l, [e EXCEPT !.err = @ \/ TRUE])]
  BY DEF Throw, i
<1>8. Elsewhere(m, n)
  <2>1. ASSUME NEW co \in Coroutines, ~On(g, co) PROVE Untouched(m, n, co)
    <3>1. co \in Threads
      BY DEF Threads
    <3> QED
      BY <1>1, <1>3, <2>1, <3>1, ThrowUntouched
  <2> HIDE DEF n
  <2> QED
    BY <2>1 DEF Elsewhere
<1>9. Body(n, E)
  BY <1>2 DEF Good
<1>10. CASE e.k = "resume"
  <2>1. n = CaughtByResume("error", [m EXCEPT !.go = Append(l, e)], e)
    BY <1>7, <1>10
  <2> HIDE DEF n, t, i
  <2>2. i \in 1 .. Len(m.go) /\ (\A j \in i .. Len(m.go) : m.go[j].t = t) /\ m.go[i].k = "resume" /\ (\A j \in i + 1 .. Len(m.go) : m.go[j].k = "call")
    BY <1>4, <1>5, <1>10
  <2> QED
    BY <1>8, <1>9, <2>1, <2>2, ResumeEnds DEF n
<1>11. ASSUME NEW x \in Activation, n.go = Append(l, x), Alike(x, e) \/ (Neutral(x) /\ Neutral(e))
       PROVE  Steps(m, n)
  <2>1. Links(Append(l, x)) = Links(g) /\ Append(l, x) # <<>>
    <3> HIDE DEF g, i
    <3> QED
      BY <1>1, <1>4, <1>5, <1>11, CatchLinks
  <2> HIDE DEF n, l
  <2>2. Ended(m, n, 0, FALSE)
    BY <1>1, <1>8, <1>9, <1>11, <2>1, Continues
  <2> QED
    BY <2>2 DEF Steps
<1>12. CASE e.k = "protect"
  <2> DEFINE x == [k |-> "closing", t |-> e.t, ci |-> e.ci, nny |-> e.nny, level |-> e.level, err |-> TRUE, then |-> "pcall"]
  <2>1. n = [th |-> reset, go |-> Append(l, x)]
    BY <1>7, <1>12
  <2>2. x \in Activation
    <3>1. e.t \in Threads /\ e.ci \in Seq(CallInfo) /\ e.nny \in Nat /\ e.level \in Nat
      BY <1>6, <1>12, ActivationParts
    <3> HIDE DEF e
    <3> QED
      BY <3>1 DEF Activation
  <2>3. Neutral(x) /\ Neutral(e)
    BY <1>12 DEF Neutral, Begins, ClosesSelf
  <2> HIDE DEF n, x, l, reset, e
  <2>4. n.go = Append(l, x)
    BY <2>1
  <2> QED
    BY ONLY <1>11, <2>2, <2>3, <2>4 DEF n
<1>13. CASE e.k = "closing"
  <2> DEFINE x == [e EXCEPT !.err = @ \/ TRUE]
  <2>1. n = [th |-> reset, go |-> Append(l, x)]
    BY ONLY <1>7, <1>13
  <2>2. e \in [k : {"closing"}, t : Threads, ci : Seq(CallInfo), nny : Nat, level : Nat, err : BOOLEAN,
               then : {"pcall", "close", "wrap", "self"}]
    <3> HIDE DEF e
    <3> QED
      BY <1>6, <1>13 DEF Activation
  <2>3. x \in Activation /\ x.k = "closing" /\ x.then = e.then /\ x.t = e.t /\ x.ci = e.ci /\ x.nny = e.nny /\ x.level = e.level
    <3> HIDE DEF e
    <3> QED
      BY <2>2 DEF Activation
  <2> HIDE DEF n, x, l, reset, e
  <2>4. n.go = Append(l, x)
    BY <2>1
  <2>5. Alike(x, e)
    BY <1>13, <2>3 DEF Alike, Begins, Ends, ClosesSelf, Halts, Protects
  <2> QED
    BY ONLY <1>11, <2>3, <2>4, <2>5 DEF n
<1> QED
  BY <1>6, <1>10, <1>12, <1>13

\* Steps of the machine are steps of the lifecycle.
LEMMA StepsLive ==
  ASSUME NEW F, NEW E, Good(Machine, F), Good(Machine', E), go # <<>>, Steps(Machine, Machine')
  PROVE  Life!Next
<1>1. PICK k \in {0, 1}, closing \in BOOLEAN : Ended(Machine, Machine', k, closing)
  BY DEF Steps
<1>2. k \in 0 .. 2
  OBVIOUS
<1> QED
  BY <1>1, <1>2, EndedIs

\* An error.
LEMMA ErrorLife ==
  ASSUME Inv, Inv', Error
  PROVE  Life!Next
<1>1. PICK F : Good(Machine, F)
  BY DEF Inv
<1>2. PICK E : Good(Machine', E)
  BY DEF Inv
<1>3. LuaRuns("error") /\ Become(Throw("error", Machine))
  BY DEF Error
<1>4. Body(Machine, F) /\ Lua(Machine.go) /\ Top(Machine).op \in LuaOps /\ go # <<>>
  BY <1>1, <1>3, LuaParts
<1>5. Steps(Machine, Throw("error", Machine))
  BY <1>4, ThrowEnds
<1>6. Machine' = Throw("error", Machine)
  <2> DEFINE n == Throw("error", Machine)
  <2>1. n = [th |-> n.th, go |-> n.go]
    BY <1>4, ErrorBody DEF Good, Body
  <2> HIDE DEF n
  <2>2. Machine' = [th |-> th', go |-> go']
    BY DEF Machine
  <2> QED
    BY <1>3, <2>1, <2>2 DEF Become, n
<1> QED
  BY <1>1, <1>2, <1>4, <1>5, <1>6, StepsLive

-----------------------------------------------------------------------------
(* A coroutine yields, or closes itself.                                   *)

\* A yield.
LEMMA YieldLife ==
  ASSUME Inv, Inv', Yield
  PROVE  Life!Next
<1>1. PICK F : Good(Machine, F)
  BY DEF Inv
<1>2. PICK E : Good(Machine', E)
  BY DEF Inv
<1> DEFINE t == Running
           m == Machine
           y == [m EXCEPT !.th[t] = [Calling(m.th[t]) EXCEPT !.status = "yield"]]
           n == Throw("yield", y)
<1>3. LuaRuns("yield") /\ th[t].nny = 0 /\ Become(n)
  BY DEF Yield
<1>4. Body(m, F) /\ Lua(m.go) /\ Top(m).op = "run" /\ t = Last(m.go).t /\ m.th[t].nny = 0 /\ m.go = go /\ m.th = th /\ go # <<>>
  BY <1>1, <1>3, LuaParts
<1>5. go \in Seq(Activation) /\ GoOk(go) /\ Good([th |-> th, go |-> go], F)
  BY <1>1, <1>4, BodyParts DEF Machine
<1>6. PICK i \in 1 .. Len(m.go), q \in ThreadRecord : Yields(m, F, t, i, q, n)
  <2> HIDE DEF m, t
  <2> QED
    BY ONLY <1>4, YieldIs
<1> HIDE DEF n
<1> DEFINE l == SubSeq(go, 1, i - 1)
           o == Without(m, t, i, q)
           c == Links(l)
           S == [t : Threads, closing : BOOLEAN]
           x == Link(t, FALSE)
<1>7. o.go = l
  BY <1>4 DEF Without
<1>8. /\ i \in 1 .. Len(go) /\ go[i].k = "resume" /\ (\A j \in i .. Len(go) : go[j].t = t) /\ (\A j \in i + 1 .. Len(go) : go[j].k = "call")
      /\ t \in Coroutines /\ t \in Threads
  BY <1>4, <1>6 DEF Threads, Yields
<1>9. go' = l /\ th' = Back(o).th /\ l # <<>> /\ ~On(l, t)
  <2> HIDE DEF m, t, n
  <2>1. Back(o).go = o.go /\ n = Back(o) /\ ~On(o.go, t) /\ o.go # <<>>
    <3>1. \/ o.go = <<>>
          \/ Last(o.go).k # "protect"
      BY <1>6 DEF Lua, Yields
    <3> HIDE DEF o
    <3> QED
      BY <1>6, <3>1, BackBody DEF Lua, o, Yields
  <2> HIDE DEF o, l
  <2> QED
    BY <1>3, <1>7, <2>1 DEF Become
<1>10. Rests(th'[t]) = "suspended"
  <2> HIDE DEF m, t, n
  <2>1. Untouched(o, Back(o), t)
    <3>1. o.go \in Seq(Activation) /\ t \in DOMAIN o.th /\ ~On(o.go, t)
      <4>1. Body(o, SubSeq(F, 1, i - 1)) /\ ~On(o.go, t)
        BY <1>6 DEF Yields
      <4> HIDE DEF o
      <4> QED
        BY <1>8, <4>1, BodyParts
    <3> HIDE DEF o
    <3> QED
      BY <3>1, BackUntouched
  <2> HIDE DEF l
  <2> QED
    BY <1>6, <1>9, <2>1 DEF Rests, Untouched, Yields
<1>11. c \in Seq(S) /\ x \in S /\ Links(go) = Append(c, x) /\ c # <<>>
  <2> HIDE DEF t
  <2>1. \A j \in i + 1 .. Len(go) : Neutral(go[j])
    BY <1>8 DEF Neutral, Begins, ClosesSelf
  <2>2. Links(go) = Linked(c, go[i]) /\ c \in Chains /\ go[i] \in Activation
    BY <1>5, <1>8, <2>1, LinksAt
  <2> HIDE DEF c, l
  <2>3. Begins(go[i]) /\ go[i].t = t
    <3>1. i \in i .. Len(go)
      BY <1>5, <1>8
    <3> QED
      BY <1>8, <3>1 DEF Begins
  <2>4. Ends(go[i]) = FALSE
    BY <1>8 DEF Ends
  <2>5. Linked(c, go[i]) = Append(c, Link(go[i].t, Ends(go[i])))
    BY <2>2, <2>3, LinkedIs
  <2> QED
    BY <1>8, <2>2, <2>3, <2>4, <2>5 DEF Chains, Link
<1>12. ~On(go, t) = FALSE /\ \A co \in Coroutines : co # t /\ ~On(go', co) => ~On(go, co)
  <2>1. \A j \in 1 .. i - 1 : j \in DOMAIN l /\ l[j] = go[j]
    <3> DEFINE k == i - 1
    <3>1. k \in 0 .. Len(go)
      BY <1>5, <1>8
    <3> HIDE DEF k
    <3>2. DOMAIN SubSeq(go, 1, k) = 1 .. k /\ \A j \in 1 .. k : SubSeq(go, 1, k)[j] = go[j]
      BY <1>5, <3>1, FirstOnes
    <3> QED
      BY <3>2 DEF k
  <2>2. \A j \in DOMAIN go : j \in 1 .. i - 1 \/ j \in i .. Len(go)
    BY <1>5, <1>8
  <2>3. i \in i .. Len(go) /\ i \in DOMAIN go
    BY <1>5, <1>8
  <2> HIDE DEF l, t
  <2> QED
    BY <1>8, <1>9, <2>1, <2>2, <2>3 DEF On
<1>13. Front(Append(c, x)) = c /\ Last(Append(c, x)) = x /\ Len(Append(c, x)) > 1
  <2> HIDE DEF c, x, S
  <2>1. c \in Seq(S) /\ x \in S /\ Len(c) \in Nat /\ Len(c) > 0
    BY <1>11
  <2>2. Len(Append(c, x)) = Len(c) + 1
    BY <2>1
  <2> QED
    BY <2>1, <2>2, OneMore
<1> HIDE DEF m, n, c, x, S
<1>14. Life!Rechain(c, {t}, "suspended")
  <2>1. c = ChainOf(go')
    BY <1>9 DEF ChainOf, c
  <2>2. ASSUME NEW co \in Coroutines, co # t, ~On(go', co) PROVE ~On(go, co) /\ th'[co] = th[co]
    <3>1. ~On(go, co) /\ co \in Threads
      BY <1>12, <2>2 DEF Threads
    <3> QED
      BY <3>1, PanicElsewhere
  <2> DEFINE out == {t}
             fate == "suspended"
  <2>3. \A co \in Coroutines :
          IF co \in out THEN ~On(go', co) /\ Rests(th'[co]) = fate
          ELSE ~On(go', co) => ~On(go, co) /\ th'[co] = th[co]
    BY <1>9, <1>10, <2>2
  <2> HIDE DEF out, fate, l, t
  <2>4. Life!Rechain(c, out, fate)
    BY <1>1, <1>2, <2>1, <2>3, Rechains
  <2> QED
    BY <2>4 DEF out, fate
<1>15. x.t = t /\ x.closing = FALSE
  BY DEF x, Link
<1>16. Life!Yield
  <2> HIDE DEF t, l
  <2>1. Last(Links(go)).t = t /\ Last(Links(go)).closing = FALSE /\ Front(Links(go)) = c /\ Len(Links(go)) > 1
    BY <1>11, <1>13, <1>15
  <2> QED
    BY <1>4, <1>14, <2>1 DEF Life!Yield, Life!Last, Life!Front, Last, Front
<1> QED
  BY <1>16 DEF Life!Next

\* CloseRunning.
LEMMA CloseRunningLife ==
  ASSUME Inv, Inv', CloseRunning
  PROVE  Life!Next
<1>1. PICK F : Good(Machine, F)
  BY DEF Inv
<1>2. PICK E : Good(Machine', E)
  BY DEF Inv
<1> DEFINE co == Running
           m == Machine
           r == m.th[co]
           x == [k |-> "closing", t |-> co, ci |-> <<>>, nny |-> 1, level |-> 1, err |-> r.death, then |-> "self"]
           n == CloseThread(m, co, "self")
<1>3. LuaRuns("closeSelf") /\ co # Main /\ Become(n)
  BY DEF CloseRunning
<1>4. /\ Body(m, F) /\ Lua(m.go) /\ m.go = go /\ co = Last(m.go).t /\ go # <<>> /\ co \in Threads /\ m.th = th
      /\ th \in [Threads -> ThreadRecord] /\ r \in ThreadRecord
  BY <1>1, <1>3, LuaParts
<1>5. go \in Seq(Activation) /\ GoOk(go)
  BY <1>4, BodyParts
<1>6. x \in Activation /\ ClosesSelf(x)
  BY <1>4 DEF Activation, ClosesSelf, ThreadRecord
<1>7. go' = Append(go, x)
  <2>1. n.go = Append(m.go, x)
    BY DEF CloseThread
  <2> HIDE DEF n, x, m
  <2> QED
    BY <1>3, <1>4, <2>1 DEF Become
<1>8. Elsewhere(Machine, Machine')
  <2>1. ASSUME NEW t \in Coroutines, ~On(go, t) PROVE th'[t] = th[t] /\ ~On(go', t)
    <3>1. t # co /\ t \in Threads
      BY <1>4, <1>5, <2>1, TopIsOn DEF Threads
    <3>2. Untouched(m, n, t)
      <4>1. "self" \in {"pcall", "close", "wrap", "self"}
        OBVIOUS
      <4> HIDE DEF m, co
      <4> QED
        BY <1>4, <1>5, <2>1, <3>1, <4>1, CloseUntouched
    <3> HIDE DEF n
    <3> QED
      BY <1>3, <1>4, <3>2 DEF Become, Untouched
  <2> QED
    BY <2>1 DEF Elsewhere, Untouched, Machine
<1> HIDE DEF x, n, m
<1>9. Links(go') = [Links(go) EXCEPT ![Len(Links(go))].closing = TRUE] /\ go' # <<>>
  <2>1. Links(Append(go, x)) = Linked(Links(go), x) /\ Links(go) \in Chains /\ Append(go, x) # <<>>
    BY <1>5, <1>6, LinksMore, OneMore
  <2> QED
    BY <1>6, <1>7, <2>1, LinkedIs
<1>10. Ended(Machine, Machine', 0, TRUE)
  <2>1. Body(Machine', E)
    BY <1>2 DEF Good
  <2>2. Machine.go = go /\ Machine'.go = go'
    BY DEF Machine
  <2>3. Body(Machine, F) /\ Last(go).t # Main
    BY <1>3, <1>4 DEF m
  <2> QED
    BY <1>4, <1>8, <1>9, <2>1, <2>2, <2>3, ClosesLast
<1>11. 0 \in 0 .. 2 /\ TRUE \in BOOLEAN
  OBVIOUS
<1> QED
  BY <1>1, <1>2, <1>4, <1>10, <1>11, EndedIs

\* The chain of m is that of o, and thread t.
LastLink(m, o, t) ==
  \E x \in [t : Threads, closing : BOOLEAN] : x = Link(t, x.closing) /\ Links(m.go) = Append(Links(o.go), x)

-----------------------------------------------------------------------------
(* Activations end.                                                        *)

\* Its chain has lost one thread, which is dead.
LEMMA DepartsEnd ==
  ASSUME NEW m, NEW F, Body(m, F), NEW t, NEW i \in 1 .. Len(m.go), NEW q, Departs(m, F, t, i, q), Rests(q) = "dead"
  PROVE  LET o == Without(m, t, i, q) IN
         m.go # <<>> /\ o.go # <<>> /\ Elsewhere(m, o) /\ Ended(m, o, 1, FALSE) /\ On(m.go, t) /\ LastLink(m, o, t)
<1> DEFINE o == Without(m, t, i, q)
           D == SubSeq(F, 1, i - 1)
<1>1. m.go \in Seq(Activation) /\ GoOk(m.go) /\ i \in i .. Len(m.go) /\ i \in DOMAIN m.go
  BY BodyParts
<1>2. /\ Begins(m.go[i]) /\ \A j \in i .. Len(m.go) : m.go[j].t = t
      /\ Body(o, D) /\ Lua(o.go) /\ o.th[t] = q /\ t \in Threads
  BY DEF Departs, Threads
<1>3. On(m.go, t)
  BY <1>1, <1>2 DEF On
<1>4. m.go # <<>>
  BY <1>1
<1>5. Elsewhere(m, o)
  BY <1>3, WithoutElsewhere
<1>6. o.go = SubSeq(m.go, 1, i - 1)
  BY DEF Without
<1>7. PICK x \in [t : Threads, closing : BOOLEAN] : x = Link(t, x.closing) /\ Links(m.go) = Append(Links(SubSeq(m.go, 1, i - 1)), x)
  BY <1>2, DropLinks
<1>8. x.t = t
  BY <1>7 DEF Link
<1> HIDE DEF o, D
<1>9. o.go # <<>> /\ Links(m.go) = Append(Links(o.go), x) /\ Rests(o.th[x.t]) = "dead"
  BY <1>2, <1>6, <1>7, <1>8 DEF Lua
<1>10. Ended(m, o, 1, FALSE)
  BY <1>2, <1>4, <1>5, <1>9, EndsOne
<1>11. LastLink(m, o, t)
  BY <1>7, <1>9 DEF LastLink
<1> QED
  BY <1>3, <1>4, <1>5, <1>9, <1>10, <1>11 DEF o

\* auxResume's caller takes its end.
LEMMA DepartsFail ==
  ASSUME NEW m, NEW F, Body(m, F), NEW t, NEW i \in 1 .. Len(m.go), NEW q, Departs(m, F, t, i, q), Rests(q) = "dead", NEW wrap
  PROVE  Steps(m, ResumeFailed(Without(m, t, i, q), t, wrap))
<1> DEFINE o == Without(m, t, i, q)
           D == SubSeq(F, 1, i - 1)
<1>1. Body(o, D) /\ Lua(o.go) /\ Top(o).op = "call" /\ t \in Coroutines /\ ~On(o.go, t) /\ o.th[t] = q
  BY DEF Departs, Calls
<1>2. m.go # <<>> /\ Elsewhere(m, o) /\ On(m.go, t)
  BY DepartsEnd
<1>3. PICK x \in [t : Threads, closing : BOOLEAN] : x = Link(t, x.closing) /\ Links(m.go) = Append(Links(o.go), x)
  <2>1. LastLink(m, o, t)
    BY DepartsEnd
  <2> QED
    BY <2>1 DEF LastLink
<1> HIDE DEF o, D
<1>4. Steps(m, ResumeFailed(o, t, wrap))
  BY <1>1, <1>2, <1>3, FailedEnds
<1> QED
  BY <1>4 DEF o

\* Machine n has the stack of m, without activations that are no thread's first.
Shortens(m, n) ==
  \E k \in 0 .. Len(m.go) : n.go = SubSeq(m.go, 1, k) /\ \A j \in k + 1 .. Len(m.go) : Neutral(m.go[j])

\* What stays is shortened by nothing.
LEMMA ShortensNone ==
  ASSUME NEW m, NEW n, m.go \in Seq(Activation), n.go = m.go
  PROVE  Shortens(m, n)
<1> DEFINE g == m.go
           k == Len(g)
<1>1. SubSeq(g, 1, Len(g)) = g /\ Len(g) \in 0 .. Len(g) /\ Len(g) \in Nat
  BY AllOnes
<1>2. k \in 0 .. Len(g) /\ n.go = SubSeq(g, 1, k) /\ \A j \in k + 1 .. Len(g) : Neutral(g[j])
  BY <1>1
<1> QED
  BY <1>2 DEF Shortens

\* What Back leaves alone.
LEMMA BackGo ==
  ASSUME NEW T, NEW g
  PROVE  Back([th |-> T, go |-> g]).go = g
BY DEF Back

\* State.call ends, and a protect with it.
LEMMA LeaveShortens ==
  ASSUME NEW m, NEW F, Body(m, F), Lua(m.go), NEW t, t = Last(m.go).t, Top(m).fresh \/ Done(m.th[t]), Last(m.go).k = "call" \/ ~Top(m).fresh
  PROVE  Shortens(m, Leave(m))
<1> DEFINE g == m.go
           l == Len(g)
           p == [m.th[t] EXCEPT !.ci = Front(m.th[t].ci)]
           T == [m.th EXCEPT ![t] = p]
           W == [m EXCEPT !.th[t].ci = Front(@)]
<1>1. g \in Seq(Activation) /\ g # <<>> /\ t \in Threads
  BY BodyParts DEF Lua
<1>2. W = [th |-> T, go |-> g]
  BY <1>1, PopIs
<1> HIDE DEF W, T
<1>3. CASE ~Top(m).fresh
  <2>1. Leave(m) = Back(W)
    <3>1. ~Last(m.th[t].ci).fresh
      BY <1>3 DEF Top
    <3> QED
      BY <3>1 DEF Leave, W
  <2>2. Leave(m).go = g
    BY <1>2, <2>1, BackGo
  <2> QED
    BY <1>1, <2>2, ShortensNone
<1>4. CASE Top(m).fresh /\ Last(m.go).k = "call"
  <2>1. Leave(m) = Back(EndCall(W))
    <3>1. Last(m.th[t].ci).fresh
      BY <1>4 DEF Top
    <3> QED
      BY <1>4, <3>1 DEF Leave, W
  <2> DEFINE h == Front(g)
             U == [T EXCEPT ![Last(g).t].nny = @ - (IF Last(g).ny THEN 1 ELSE 0)]
             k == IF h # <<>> /\ Last(h).k = "protect" THEN l - 2 ELSE l - 1
  <2>2. EndCall(W) = [th |-> U, go |-> IF h # <<>> /\ Last(h).k = "protect" THEN Front(h) ELSE h]
    <3>1. W.th = T /\ W.go = g
      BY <1>2
    <3> HIDE DEF g
    <3> QED
      BY <3>1 DEF EndCall
  <2>3. Leave(m).go = IF h # <<>> /\ Last(h).k = "protect" THEN Front(h) ELSE h
    <3> DEFINE G == IF h # <<>> /\ Last(h).k = "protect" THEN Front(h) ELSE h
    <3> HIDE DEF U, G
    <3>1. Leave(m) = Back([th |-> U, go |-> G])
      BY <2>1, <2>2 DEF G
    <3> QED
      BY <3>1, BackGo DEF G
  <2>4. l \in Nat /\ l > 0 /\ l \in 1 .. l /\ Last(g) = g[l] /\ l - 1 \in 0 .. l /\ DOMAIN g = 1 .. l
    <3> HIDE DEF g
    <3> QED
      BY <1>1, LastOne, AllOnes
  <2>5. h = SubSeq(g, 1, l - 1)
    BY DEF Front
  <2> DEFINE a == l - 1
  <2>6. h \in Seq(Activation) /\ Len(h) = a /\ \A j \in 1 .. a : h[j] = g[j]
    <3>1. a \in 0 .. Len(g)
      BY <2>4
    <3> HIDE DEF g, a
    <3>2. SubSeq(g, 1, a) \in Seq(Activation) /\ Len(SubSeq(g, 1, a)) = a /\ \A j \in 1 .. a : SubSeq(g, 1, a)[j] = g[j]
      BY <1>1, <3>1, FirstOnes
    <3> QED
      BY <2>5, <3>2 DEF a
  <2>7. Neutral(g[l])
    BY <1>4, <2>4 DEF Neutral, Begins, ClosesSelf
  <2>8. CASE h # <<>> /\ Last(h).k = "protect"
    <3>1. a \in Nat /\ a > 0 /\ a \in 1 .. a /\ Last(h) = h[a] /\ a - 1 \in 0 .. a /\ a - 1 \in 0 .. l
      <4> HIDE DEF h, l
      <4>1. Len(h) \in 1 .. Len(h) /\ Last(h) = h[Len(h)]
        BY <2>6, <2>8, LastOne
      <4> QED
        BY <2>4, <2>6, <4>1
    <3>2. Front(h) = SubSeq(g, 1, a - 1)
      <4>1. Front(h) = SubSeq(h, 1, a - 1)
        <5> HIDE DEF h, a
        <5> QED
          BY <2>6 DEF Front
      <4>2. a \in 0 .. Len(g) /\ a - 1 \in 0 .. a
        BY <2>4, <3>1
      <4> DEFINE b == a - 1
      <4> HIDE DEF g, a, b
      <4>3. SubSeq(SubSeq(g, 1, a), 1, b) = SubSeq(g, 1, b)
        <5>1. b \in 0 .. a
          BY <4>2 DEF b
        <5> QED
          BY <1>1, <4>2, <5>1, FirstOfFirst
      <4> QED
        BY <2>5, <4>1, <4>3 DEF a, b
    <3>3. g[a].k = "protect"
      BY <2>6, <2>8, <3>1
    <3>4. Neutral(g[a])
      BY <3>3 DEF Neutral, Begins, ClosesSelf
    <3>5. \A j \in a - 1 + 1 .. l : j = a \/ j = l
      <4> HIDE DEF l
      <4> QED
        BY <2>4
    <3> DEFINE b == a - 1
    <3>6. b \in 0 .. Len(g) /\ Leave(m).go = SubSeq(g, 1, b) /\ \A j \in b + 1 .. Len(g) : Neutral(g[j])
      <4> HIDE DEF h
      <4> QED
        BY <2>3, <2>7, <2>8, <3>1, <3>2, <3>4, <3>5
    <3> HIDE DEF b
    <3> QED
      BY <3>6 DEF Shortens
  <2>9. CASE ~(h # <<>> /\ Last(h).k = "protect")
    <3>1. a \in 0 .. Len(g) /\ \A j \in a + 1 .. l : j = l
      <4> HIDE DEF l
      <4>1. l - 1 \in 0 .. l /\ \A j \in l - 1 + 1 .. l : j = l
        BY <2>4
      <4> QED
        BY <4>1 DEF l
    <3>2. Leave(m).go = SubSeq(g, 1, a)
      <4> HIDE DEF h
      <4> QED
        BY <2>3, <2>5, <2>9
    <3>3. \A j \in a + 1 .. Len(g) : Neutral(g[j])
      BY <2>7, <3>1
    <3> HIDE DEF a
    <3> QED
      BY <3>1, <3>2, <3>3 DEF Shortens
  <2> QED
    BY <2>8, <2>9
<1> QED
  BY <1>3, <1>4

\* A function returns.
LEMMA LeaveEnds ==
  ASSUME NEW m, NEW F, Body(m, F), Lua(m.go), NEW t, t = Last(m.go).t, Done(m.th[t])
  PROVE  Shortens(m, Leave(m)) \/ Ended(m, Leave(m), 1, FALSE)
<1>1. Last(m.go).k \in {"call", "resume"} /\ m.go \in Seq(Activation)
  BY BodyParts DEF Lua
<1>2. CASE Last(m.go).k = "call" \/ ~Top(m).fresh
  BY <1>2, LeaveShortens
<1>3. CASE Last(m.go).k = "resume" /\ Top(m).fresh
  <2>1. CASE Leave(m).go = m.go
    BY <1>1, <2>1, ShortensNone
  <2>2. CASE \E q \in ThreadRecord :
               /\ q.status = "ok" /\ q.ci = <<>> /\ ~q.fresh
               /\ Len(m.go) \in 1 .. Len(m.go) /\ Departs(m, F, t, Len(m.go), q)
               /\ Leave(m) = Back(Without(m, t, Len(m.go), q))
    <3>1. PICK q \in ThreadRecord :
               /\ q.status = "ok" /\ q.ci = <<>> /\ ~q.fresh
               /\ Len(m.go) \in 1 .. Len(m.go) /\ Departs(m, F, t, Len(m.go), q)
               /\ Leave(m) = Back(Without(m, t, Len(m.go), q))
      BY <2>2
    <3> DEFINE i == Len(m.go)
               o == Without(m, t, i, q)
               D == SubSeq(F, 1, i - 1)
    <3>2. Rests(q) = "dead"
      BY <3>1 DEF Rests
    <3>3. i \in 1 .. Len(m.go) /\ Departs(m, F, t, i, q)
      BY <3>1
    <3>4. Leave(m) = Back(o)
      BY <3>1
    <3> HIDE DEF i
    <3>5. Body(o, D) /\ Ended(m, o, 1, FALSE)
      BY <3>2, <3>3, DepartsEnd DEF Departs
    <3> HIDE DEF o, D
    <3>6. Ended(m, Back(o), 1, FALSE)
      BY <3>5, BackEnded
    <3> QED
      BY <3>4, <3>6
  <2>3. \/ Good(Leave(m), F) /\ Leave(m).go = m.go
        \/ \E q \in ThreadRecord :
               /\ q.status = "ok" /\ q.ci = <<>> /\ ~q.fresh
               /\ Len(m.go) \in 1 .. Len(m.go) /\ Departs(m, F, t, Len(m.go), q)
               /\ Leave(m) = Back(Without(m, t, Len(m.go), q))
    BY <1>3, ReturnIs
  <2> QED
    BY <2>1, <2>2, <2>3
<1> QED
  BY <1>1, <1>2, <1>3

\* CloseThread ends for coroutine.close, or for wrap.
LEMMA CloseEnds ==
  ASSUME NEW m, NEW F, Body(m, F), m.go # <<>>, NEW t, t = Last(m.go).t, Ends(Last(m.go)), ~HasTBC(m.th[t], Last(m.go).level),
         Last(m.go).then # "self"
  PROVE  \E k \in 0 .. 2, closing \in BOOLEAN : Ended(m, EndClosing(Last(m.go), m), k, closing)
<1> DEFINE i == Len(m.go)
           e == Last(m.go)
<1>1. PICK q \in ThreadRecord :
        /\ Len(m.go) \in 1 .. Len(m.go) /\ Departs(m, F, t, Len(m.go), q) /\ Rests(q) = "dead"
        /\ Finishes(Without(m, t, Len(m.go), q), t)
        /\ EndClosing(Last(m.go), m) = (IF Last(m.go).then = "close" THEN Back(Without(m, t, Len(m.go), q))
                                        ELSE Throw("error", Without(m, t, Len(m.go), q)))
  BY EndsCloseIs
<1> DEFINE o == Without(m, t, i, q)
           D == SubSeq(F, 1, i - 1)
<1>2. i \in 1 .. Len(m.go) /\ Departs(m, F, t, i, q) /\ Rests(q) = "dead"
  BY <1>1
<1>3. EndClosing(e, m) = IF e.then = "close" THEN Back(o) ELSE Throw("error", o)
  BY <1>1
<1>4. (0 \in 0 .. 2 /\ 1 \in 0 .. 2) /\ FALSE \in BOOLEAN
  OBVIOUS
<1> HIDE DEF i, e
<1>5. Body(o, D) /\ Lua(o.go) /\ Calls(o)
  BY <1>2 DEF Departs
<1>6. Ended(m, o, 1, FALSE)
  BY <1>2, DepartsEnd
<1> HIDE DEF o, D
<1>7. CASE e.then = "close"
  <2>1. Ended(m, Back(o), 1, FALSE)
    BY <1>5, <1>6, BackEnded
  <2> QED
    BY <1>3, <1>4, <1>7, <2>1 DEF e
<1>8. CASE e.then # "close"
  <2> DEFINE n == Throw("error", o)
  <2>1. Top(o).op \in LuaOps
    BY <1>5 DEF Calls, LuaOps
  <2>2. Steps(o, n)
    BY <1>5, <2>1, ThrowEnds
  <2>3. PICK B : Good(n, B)
    BY <1>5, <2>1, ErrorBody
  <2> HIDE DEF n
  <2>4. PICK k \in {0, 1}, closing \in BOOLEAN : Ended(o, n, k, closing)
    BY <2>2 DEF Steps
  <2>5. Body(n, B)
    BY <2>3 DEF Good
  <2>6. Ended(m, n, k + 1, closing)
    BY <1>5, <1>6, <2>4, <2>5, EndedTwice
  <2>7. k + 1 \in 0 .. 2
    OBVIOUS
  <2>8. EndClosing(e, m) = n
    BY <1>3, <1>8 DEF n
  <2> QED
    BY <2>6, <2>7, <2>8 DEF e
<1> QED
  BY <1>7, <1>8

\* A CloseRunning that ends inside a CloseThread leaves the chain as it is.
LEMMA ClosingAgain ==
  ASSUME NEW c \in Chains, NEW x \in Activation, Ends(x), NEW e \in Activation, ClosesSelf(e)
  PROVE  Linked(Linked(c, x), e) = Linked(c, x)
<1> DEFINE d == Linked(c, x)
<1>1. d \in Chains /\ Linked(d, e) = [d EXCEPT ![Len(d)].closing = TRUE]
  <2>1. d \in Chains
    BY LinkedIs
  <2> HIDE DEF d
  <2> QED
    BY <2>1, LinkedIs
<1>2. CASE Begins(x)
  <2> DEFINE l == Append(c, Link(x.t, TRUE))
  <2>1. d = l
    <3>1. d = Append(c, Link(x.t, Ends(x)))
      BY <1>2, LinkedIs
    <3>2. Ends(x) = TRUE
      BY DEF Ends
    <3> QED
      BY <3>1, <3>2
  <2>2. x.t \in Threads /\ TRUE \in BOOLEAN
    BY ActivationParts
  <2>3. [l EXCEPT ![Len(l)].closing = TRUE] = l
    BY <2>2, ClosesLink
  <2> HIDE DEF d, l
  <2> QED
    BY <1>1, <2>1, <2>3 DEF d
<1>3. CASE ~Begins(x)
  <2>1. ClosesSelf(x)
    BY <1>3, ActivationParts DEF Begins, Ends, ClosesSelf
  <2>2. d = [c EXCEPT ![Len(c)].closing = TRUE]
    BY <2>1, LinkedIs
  <2>3. [d EXCEPT ![Len(d)].closing = TRUE] = d
    <3> DEFINE S == [t : Threads, closing : BOOLEAN]
               n == Len(c)
               z == [c[n] EXCEPT !.closing = TRUE]
               p == [c EXCEPT ![n] = z]
    <3>1. c \in Seq(S) /\ n \in 1 .. n /\ n \in DOMAIN c /\ c[n] \in S
      <4>1. c \in Seq(S) /\ c # <<>>
        BY DEF Chains
      <4> HIDE DEF S
      <4> QED
        BY <4>1
    <3>2. z \in S /\ [z EXCEPT !.closing = TRUE] = z
      <4> DEFINE a == c[n]
      <4>1. a \in S
        BY <3>1
      <4> HIDE DEF a
      <4>2. [a EXCEPT !.closing = TRUE] \in S /\ [[a EXCEPT !.closing = TRUE] EXCEPT !.closing = TRUE] = [a EXCEPT !.closing = TRUE]
        BY <4>1
      <4> QED
        BY <4>2 DEF a
    <3>3. d = p
      BY <2>2, <3>1
    <3> HIDE DEF z, S
    <3>4. Len(p) = n /\ p[n] = z /\ [p EXCEPT ![n] = z] = p
      <4>1. c \in [1 .. n -> S] /\ n \in Nat
        BY <3>1
      <4> HIDE DEF n
      <4>2. p \in [1 .. n -> S] /\ p[n] = z /\ n \in 1 .. n
        BY <3>1, <3>2, <4>1
      <4>3. Len(p) = n
        BY <4>1, <4>2
      <4> HIDE DEF p
      <4> QED
        BY <4>2, <4>3
    <3> HIDE DEF p, n
    <3>5. [p EXCEPT ![n].closing = TRUE] = [p EXCEPT ![n] = [p[n] EXCEPT !.closing = TRUE]]
      BY <3>4
    <3> HIDE DEF d
    <3> QED
      BY <3>2, <3>3, <3>4, <3>5
  <2> HIDE DEF d
  <2> QED
    BY <1>1, <2>3 DEF d
<1> QED
  BY <1>2, <1>3

\* How CloseThread ends in CloseRunning: its CloseThread's loop closes on, or its
\* Resume ends.
LEMMA SelfEnds ==
  ASSUME NEW m, NEW F, Body(m, F), m.go # <<>>, NEW t, t = Last(m.go).t, ClosesSelf(Last(m.go)), ~HasTBC(m.th[t], Last(m.go).level)
  PROVE  Steps(m, EndClosing(Last(m.go), m))
<1> DEFINE g == m.go
           h == Front(g)
           i == Max({j \in 1 .. Len(h) : Catches(h[j], "closed")})
           e == Last(g)
           x == g[i]
           l == SubSeq(g, 1, i - 1)
           n == EndClosing(e, m)
<1>1. g \in Seq(Activation) /\ GoOk(g) /\ g # <<>> /\ e \in Activation
  BY BodyParts
<1>2. /\ i \in 1 .. Len(g) /\ i \in 1 .. Len(h) /\ h[i] = x /\ x \in Activation /\ SubSeq(h, 1, i - 1) = l
      /\ x.k = "resume" \/ Ends(x)
  <2> HIDE DEF g
  <2> QED
    BY <1>1, ClosedCatch, ZenonT(60), SMTT(60) DEF g
<1>3. Taken(m, F, t, i, n)
  BY EndsSelf
<1>4. h \in Seq(Activation) /\ h = SubSeq(g, 1, Len(g) - 1) /\ Len(g) \in 1 .. Len(g) /\ e = g[Len(g)]
  <2>1. Len(g) \in 1 .. Len(g)
    <3> HIDE DEF g
    <3> QED
      BY <1>1
  <2> HIDE DEF g
  <2> QED
    BY <1>1, <2>1 DEF Front, Last
<1>5. \A j \in i + 1 .. Len(h) : Neutral(h[j])
  <2>1. Catches(h[i], "closed")
    BY <1>2 DEF Catches, Ends
  <2>2. \A j \in Max({b \in 1 .. Len(h) : Catches(h[b], "closed")}) + 1 .. Len(h) : ~Catches(h[j], "closed")
    <3> DEFINE a == i
    <3>1. a \in 1 .. Len(h) /\ Catches(h[a], "closed")
      BY <1>2, <2>1
    <3> HIDE DEF h, a
    <3> QED
      BY <1>4, <3>1, CatchIs
  <2> QED
    BY ONLY <2>2 DEF Catches, Neutral, Begins, ClosesSelf
<1>6. n.go # <<>> => \A s \in Coroutines : ~On(m.go, s) => Untouched(m, n, s)
  <2>1. Last(m.go).k = "closing"
    BY DEF ClosesSelf
  <2>2. ASSUME NEW s \in Coroutines, ~On(m.go, s)
        PROVE  Untouched(m, n, s)
    <3>1. s \in Threads
      BY DEF Threads
    <3> QED
      BY <2>1, <2>2, <3>1, EndUntouched
  <2> QED
    BY <2>2
<1>7. \E E : Body(n, E)
  BY EndsSelf DEF Good
<1> HIDE DEF i, n
<1>8. CASE \E y \in Activation : Ends(x) /\ Alike(y, x) /\ n.go = Append(l, y)
  <2>1. PICK y \in Activation : Ends(x) /\ Alike(y, x) /\ n.go = Append(l, y)
    BY <1>8
  <2> DEFINE c == Links(l)
  <2>2. Links(h) = Linked(c, x) /\ l \in Seq(Activation) /\ c \in Chains
    <3>1. /\ Links(h) = Linked(Links(SubSeq(h, 1, i - 1)), h[i]) /\ SubSeq(h, 1, i - 1) \in Seq(Activation)
          /\ Links(SubSeq(h, 1, i - 1)) \in Chains
      <4> HIDE DEF h
      <4> QED
        BY <1>2, <1>4, <1>5, LinksAt
    <3> HIDE DEF h, l, x
    <3> QED
      BY <1>2, <3>1
  <2>3. Links(g) = Linked(Links(h), e)
    <3> DEFINE b == Len(g)
    <3>1. \A j \in b + 1 .. Len(g) : Neutral(g[j])
      <4> HIDE DEF g
      <4> QED
        BY <1>1
    <3>2. b \in 1 .. Len(g)
      BY <1>4
    <3> HIDE DEF b
    <3>3. Links(g) = Linked(Links(SubSeq(g, 1, b - 1)), g[b])
      BY <1>1, <3>1, <3>2, LinksAt
    <3> HIDE DEF g, h, e
    <3> QED
      BY <1>4, <3>3 DEF b
  <2>4. Links(Append(l, y)) = Linked(c, y) /\ Append(l, y) # <<>>
    <3> HIDE DEF l
    <3> QED
      BY <2>2, LinksMore
  <2>5. Linked(c, y) = Linked(c, x)
    <3> HIDE DEF c, x
    <3> QED
      BY <1>2, <2>1, <2>2, LinkedAlike
  <2>6. Linked(Linked(c, x), e) = Linked(c, x)
    <3>1. ClosesSelf(e)
      OBVIOUS
    <3> HIDE DEF c, x, e
    <3> QED
      BY <1>1, <1>2, <2>1, <2>2, <3>1, ClosingAgain
  <2>7. Links(n.go) = Links(m.go) /\ n.go # <<>>
    <3>1. Links(g) = Linked(c, x)
      BY <2>2, <2>3, <2>6
    <3>2. Links(n.go) = Linked(c, x) /\ n.go # <<>>
      <4> HIDE DEF c, l, x
      <4> QED
        BY <2>1, <2>4, <2>5
    <3> QED
      BY <3>1, <3>2
  <2>8. PICK E : Body(n, E)
    BY <1>7
  <2>9. Elsewhere(m, n)
    BY <1>6, <2>7 DEF Elsewhere
  <2>10. Ended(m, n, 0, FALSE)
    BY ONLY <2>7, <2>8, <2>9, Body(m, F), m.go # <<>>, Continues
  <2> QED
    BY <2>10 DEF Steps, n
<1>9. CASE \E q, wrap : Departs(m, F, t, i, q) /\ Rests(q) = "dead" /\ n = ResumeFailed(Without(m, t, i, q), t, wrap)
  <2>1. PICK q, wrap : Departs(m, F, t, i, q) /\ Rests(q) = "dead" /\ n = ResumeFailed(Without(m, t, i, q), t, wrap)
    BY <1>9
  <2>2. i \in 1 .. Len(m.go)
    BY <1>2
  <2>3. Steps(m, ResumeFailed(Without(m, t, i, q), t, wrap))
    BY ONLY <2>1, <2>2, Body(m, F), DepartsFail
  <2> QED
    BY <2>1, <2>3 DEF n
<1> QED
  BY <1>3, <1>8, <1>9 DEF Taken

\* Activations that begin no thread are dropped: the chain stays, or the host's
\* call has returned.
LEMMA CutLife ==
  ASSUME NEW F, NEW E, Good(Machine, F), Good(Machine', E), go # <<>>, Shortens(Machine, Machine'),
         \A t \in Coroutines : ~On(go, t) => th'[t] = th[t] /\ ~On(go', t)
  PROVE  Life!Next
<1>1. Machine.go = go /\ Machine'.go = go' /\ Body(Machine, F) /\ Good([th |-> th, go |-> go], F)
  BY DEF Machine, Good
<1>2. go \in Seq(Activation) /\ GoOk(go)
  BY ONLY <1>1, BodyParts
<1>3. PICK k \in 0 .. Len(go) : go' = SubSeq(go, 1, k) /\ \A j \in k + 1 .. Len(go) : Neutral(go[j])
  BY <1>1 DEF Shortens
<1>4. Links(go') = Links(go)
  BY <1>2, <1>3, LinksCut
<1>5. CASE go' # <<>>
  BY <1>4, <1>5, ContinuesIs
<1>6. CASE go' = <<>>
  <2>1. Links(go') = OnlyMain
    <3> DEFINE g == <<>>
    <3>1. g \in Seq(Activation) /\ Len(g) = 0
      OBVIOUS
    <3> HIDE DEF g
    <3>2. Links(g) = OnlyMain
      BY <3>1, LinksAre
    <3> QED
      BY <1>6, <3>2 DEF g
  <2>2. ASSUME NEW co \in Coroutines PROVE ~On(go, co)
    <3>1. On(go, co) <=> \E i \in DOMAIN OnlyMain : OnlyMain[i].t = co
      <4>1. \A c \in Coroutines : On(go, c) <=> \E i \in DOMAIN Links(go) : Links(go)[i].t = c
        BY ONLY <1>2, go # <<>>, LinksShow
      <4>2. Links(go) = OnlyMain
        BY <1>4, <2>1
      <4> QED
        BY ONLY <4>1, <4>2, co \in Coroutines
    <3>2. \A i \in DOMAIN OnlyMain : OnlyMain[i].t = Main
      BY DEF OnlyMain, Link
    <3> QED
      BY <3>1, <3>2, ThreadsAssumption
  <2>3. <<>> = ChainOf(go')
    BY <1>6 DEF ChainOf
  <2>4. Life!Rechain(<<>>, {}, "dead")
    BY <2>2, <2>3, Rechains
  <2>5. Len(Links(go)) = 1
    BY <1>4, <2>1 DEF OnlyMain
  <2>6. Life!Exit
    BY <2>4, <2>5 DEF Life!Exit
  <2> QED
    BY <2>6 DEF Life!Next
<1> QED
  BY <1>5, <1>6

\* What closes has nothing left to close.
LEMMA EndCloseLife ==
  ASSUME Inv, Inv', EndClose
  PROVE  Life!Next
<1>1. PICK F : Good(Machine, F)
  BY DEF Inv
<1>2. PICK E : Good(Machine', E)
  BY DEF Inv
<1> DEFINE m == Machine
           t == Running
           r == th[t]
           e == Last(go)
<1>3. go # <<>> /\ (e.k # "closing" => Frame.op \in {"jump", "return", "error"}) /\ ~HasTBC(r, Level)
  BY DEF EndClose, Closing
<1>4. m.th = th /\ m.go = go /\ m = [th |-> th, go |-> go] /\ t = Last(m.go).t /\ t = e.t
  BY DEF Machine, Running
<1>5. Body(m, F) /\ m.go # <<>> /\ Good(m, F)
  BY <1>1, <1>3, <1>4 DEF Good
<1>6. /\ th' = (IF e.k = "closing" THEN EndClosing(e, m)
                 ELSE CASE Frame.op = "jump" -> [m EXCEPT !.th[t] = Mark(@, "run", 0)]
                        [] Frame.op = "error" -> [m EXCEPT !.th[t] = ReturnGo(@)]
                        [] Frame.op = "return" -> Leave(m)).th
      /\ go' = (IF e.k = "closing" THEN EndClosing(e, m)
                 ELSE CASE Frame.op = "jump" -> [m EXCEPT !.th[t] = Mark(@, "run", 0)]
                        [] Frame.op = "error" -> [m EXCEPT !.th[t] = ReturnGo(@)]
                        [] Frame.op = "return" -> Leave(m)).go
  BY DEF EndClose, Become
<1>7. Machine'.go = go' /\ Machine'.th = th' /\ Machine' = [th |-> th', go |-> go']
  BY DEF Machine
<1> HIDE DEF m, t
<1>8. e \in Activation /\ th \in [Threads -> ThreadRecord] /\ t \in Threads /\ go \in Seq(Activation) /\ Coroutines \subseteq Threads
  BY <1>4, <1>5, BodyParts DEF Threads
<1>9. CASE e.k = "closing"
  <2> DEFINE n == EndClosing(e, m)
  <2>1. th' = n.th /\ go' = n.go
    BY <1>6, <1>9
  <2>2. ~HasTBC(r, e.level)
    BY <1>3, <1>9 DEF Level
  <2>3. e.then \in {"pcall", "close", "wrap", "self"}
    BY <1>8, <1>9, ActivationParts
  <2>4. ~HasTBC(m.th[t], Last(m.go).level) /\ Last(m.go) = e
    BY <1>4, <2>2
  <2>5. ASSUME NEW s \in Coroutines, ~On(go, s) PROVE th'[s] = th[s] /\ ~On(go', s)
    <3>1. Last(m.go).k = "closing" /\ s \in Threads /\ ~On(m.go, s)
      BY <1>4, <1>8, <1>9, <2>4, <2>5
    <3>2. Untouched(m, EndClosing(Last(m.go), m), s)
      BY ONLY <1>5, <3>1, EndUntouched
    <3> HIDE DEF e
    <3>3. Untouched(m, n, s)
      BY <2>4, <3>2
    <3> HIDE DEF n
    <3> QED
      BY <1>4, <2>1, <3>3 DEF Untouched
  <2>6. CASE e.then = "pcall"
    <3> DEFINE z == [m EXCEPT !.go = Front(m.go)]
    <3>1. n = Back(z)
      BY <2>6 DEF EndClosing
    <3>2. z = [th |-> th, go |-> Front(go)]
      BY <1>4
    <3>3. n.go = Front(go)
      <4>1. Back([th |-> th, go |-> Front(go)]).go = Front(go)
        BY BackGo
      <4> HIDE DEF n, z
      <4> QED
        BY <3>1, <3>2, <4>1
    <3>4. Shortens(Machine, Machine')
      <4> DEFINE k == Len(go) - 1
      <4>1. k \in 0 .. Len(go) /\ go' = SubSeq(go, 1, k) /\ Len(go) = k + 1
        <5> HIDE DEF n
        <5> QED
          BY <1>3, <1>8, <2>1, <3>3 DEF Front
      <4>2. e = go[k + 1] /\ Neutral(e)
        BY <1>9, <2>6, <4>1 DEF Last, Neutral, Begins, ClosesSelf
      <4> HIDE DEF k, n, e
      <4>3. \A j \in k + 1 .. Len(go) : Neutral(go[j])
        <5>1. \A j \in k + 1 .. Len(go) : j = k + 1
          BY <4>1
        <5> QED
          BY <4>2, <5>1
      <4>4. Machine.go = go
        BY DEF Machine
      <4> QED
        BY <1>7, <4>1, <4>3, <4>4 DEF Shortens
    <3> HIDE DEF n, r, e
    <3> QED
      BY ONLY <1>1, <1>2, <1>3, <2>5, <3>4, CutLife
  <2>7. CASE e.then # "pcall"
    <3>1. Ends(Last(m.go))
      BY <1>9, <2>4, <2>7 DEF Ends
    <3>2. \E k \in 0 .. 2, closing \in BOOLEAN : Ended(m, EndClosing(Last(m.go), m), k, closing)
      <4>1. CASE e.then # "self"
        <5>1. Last(m.go).then # "self"
          BY <2>4, <4>1
        <5> QED
          BY ONLY <1>4, <1>5, <2>4, <3>1, <5>1, CloseEnds
      <4>2. CASE e.then = "self"
        <5>1. ClosesSelf(Last(m.go))
          BY <1>9, <2>4, <4>2 DEF ClosesSelf
        <5>2. Steps(m, EndClosing(Last(m.go), m))
          BY ONLY <1>4, <1>5, <2>4, <5>1, SelfEnds
        <5>3. PICK k \in {0, 1}, closing \in BOOLEAN : Ended(m, EndClosing(Last(m.go), m), k, closing)
          BY <5>2 DEF Steps
        <5>4. k \in 0 .. 2
          OBVIOUS
        <5> QED
          BY <5>3, <5>4
      <4> QED
        BY <4>1, <4>2
    <3>3. \E D : Good(n, D)
      <4>1. CASE e.then # "self"
        <5>1. Last(m.go).then # "self"
          BY <2>4, <4>1
        <5> HIDE DEF e
        <5>2. \E D : Good(EndClosing(Last(m.go), m), D)
          BY ONLY <1>4, <1>5, <2>4, <3>1, <5>1, EndsClose
        <5> QED
          BY <2>4, <5>2
      <4>2. CASE e.then = "self"
        <5>1. ClosesSelf(Last(m.go))
          BY <1>9, <2>4, <4>2 DEF ClosesSelf
        <5> HIDE DEF e
        <5>2. \E D : Good(EndClosing(Last(m.go), m), D)
          BY ONLY <1>4, <1>5, <2>4, <5>1, EndsSelf
        <5> QED
          BY <2>4, <5>2
      <4> QED
        BY <4>1, <4>2
    <3> HIDE DEF n
    <3>4. Machine' = n
      <4>1. n = [th |-> n.th, go |-> n.go]
        BY <3>3 DEF Good, Body
      <4> QED
        BY <1>7, <2>1, <4>1
    <3>5. PICK k \in 0 .. 2, closing \in BOOLEAN : Ended(Machine, Machine', k, closing)
      <4> HIDE DEF e
      <4>1. EndClosing(Last(m.go), m) = n
        BY <2>4 DEF n
      <4>2. m = Machine
        BY DEF m
      <4> QED
        BY <3>2, <3>4, <4>1, <4>2
    <3> QED
      BY ONLY <1>1, <1>2, <1>3, <3>5, EndedIs
  <2> QED
    BY <2>6, <2>7
<1>10. CASE e.k # "closing"
  <2>1. Lua(m.go) /\ Lua(go)
    <3>1. e.k # "protect"
      BY <1>1, <1>3, <1>4 DEF Good, Machine
    <3> QED
      BY <1>3, <1>4, <1>8, <1>10, <3>1, ActivationParts DEF Lua
  <2>2. CASE Frame.op \in {"jump", "error"}
    <3> DEFINE q == IF Frame.op = "jump" THEN Mark(r, "run", 0) ELSE ReturnGo(r)
    <3>1. th' = [th EXCEPT ![t] = q] /\ go' = go
      <4>1. [m EXCEPT !.th[t] = Mark(@, "run", 0)] = [th |-> [th EXCEPT ![t] = Mark(r, "run", 0)], go |-> go]
        BY <1>4
      <4>2. [m EXCEPT !.th[t] = ReturnGo(@)] = [th |-> [th EXCEPT ![t] = ReturnGo(r)], go |-> go]
        BY <1>4
      <4>3. CASE Frame.op = "jump"
        BY <1>6, <1>10, <4>1, <4>3
      <4>4. CASE Frame.op = "error"
        BY <1>6, <1>10, <4>2, <4>4
      <4> QED
        BY <2>2, <4>3, <4>4
    <3>2. ASSUME NEW s \in Coroutines, ~On(go, s) PROVE th'[s] = th[s] /\ ~On(go', s)
      <4>1. s # t
        BY <1>3, <1>4, <1>8, <3>2, TopIsOn
      <4> HIDE DEF q
      <4> QED
        BY <1>8, <3>1, <3>2, <4>1
    <3>3. go' # <<>> /\ Links(go') = Links(go)
      BY <1>3, <3>1
    <3> HIDE DEF q, r, e
    <3> QED
      BY ONLY <1>1, <1>2, <1>3, <3>2, <3>3, ContinuesIs
  <2>3. CASE Frame.op = "return"
    <3> DEFINE n == Leave(m)
    <3>1. Top(m) = Frame
      BY <1>4 DEF Top, Frame, Running
    <3>2. Done(m.th[t])
      <4>1. ~HasTBC(r, Frame.level) /\ Frame = Last(r.ci)
        BY <1>3, <1>10 DEF Level, Frame, t
      <4> QED
        BY <1>4, <2>3, <4>1 DEF Done
    <3>3. th' = n.th /\ go' = n.go
      BY <1>6, <1>10, <2>3
    <3>4. Body(m, F) /\ Lua(m.go) /\ t = Last(m.go).t /\ Done(m.th[t])
      BY <1>4, <1>5, <2>1, <3>2
    <3>5. Shortens(m, n) \/ Ended(m, n, 1, FALSE)
      BY ONLY <3>4, LeaveEnds
    <3>6. Machine' = n
      <4>1. n = [th |-> n.th, go |-> n.go]
        <5>1. \E D : Good(n, D)
          <6>1. CASE ~Top(m).fresh
            BY ONLY <3>4, <6>1, LeaveReentry
          <6>2. CASE Top(m).fresh /\ Last(m.go).k = "call"
            BY ONLY <3>4, <6>2, LeaveCall
          <6>3. CASE Top(m).fresh /\ Last(m.go).k = "resume"
            BY ONLY <3>4, <6>3, LeaveResume
          <6>4. Last(m.go).k = "call" \/ Last(m.go).k = "resume"
            BY <2>1 DEF Lua
          <6> QED
            BY <6>1, <6>2, <6>3, <6>4
        <5> QED
          BY <5>1 DEF Good, Body
      <4> HIDE DEF n
      <4> QED
        BY <1>7, <3>3, <4>1
    <3>7. ASSUME NEW s \in Coroutines, ~On(go, s) PROVE th'[s] = th[s] /\ ~On(go', s)
      <4>1. s \in Threads /\ ~On(m.go, s)
        BY <1>4, <1>8, <3>7
      <4>2. Untouched(m, n, s)
        BY ONLY <3>4, <4>1, LeaveUntouched
      <4> HIDE DEF n
      <4> QED
        BY <1>4, <3>3, <4>2 DEF Untouched
    <3> HIDE DEF n
    <3>8. Shortens(Machine, Machine') \/ Ended(Machine, Machine', 1, FALSE)
      BY <3>5, <3>6 DEF m
    <3>9. CASE Shortens(Machine, Machine')
      <4> HIDE DEF r, e
      <4> QED
        BY ONLY <1>1, <1>2, <1>3, <3>7, <3>9, CutLife
    <3>10. CASE Ended(Machine, Machine', 1, FALSE)
      <4>1. 1 \in 0 .. 2 /\ FALSE \in BOOLEAN
        OBVIOUS
      <4> HIDE DEF r, e
      <4> QED
        BY ONLY <1>1, <1>2, <1>3, <3>10, <4>1, EndedIs
    <3> QED
      BY <3>8, <3>9, <3>10
  <2> QED
    BY <1>3, <1>10, <2>2, <2>3
<1> QED
  BY <1>9, <1>10

-----------------------------------------------------------------------------
(* Coroutines follow the lifecycle.                                        *)

\* Every step is one of the lifecycle, or leaves it alone.
LEMMA LifeStep ==
  ASSUME Inv, Inv', [Next]_vars
  PROVE  [Life!Next]_(Life!vars)
<1>1. CASE OwnSteps
  BY <1>1, OwnLife
<1>2. CASE HostCall
  BY <1>2, HostLife
<1>3. CASE CallPcall
  BY <1>3, PcallLife
<1>4. CASE Error
  BY <1>4, ErrorLife
<1>5. CASE Yield
  BY <1>5, YieldLife
<1>6. CASE \E co \in Coroutines, wrap \in BOOLEAN : Resume(co, wrap)
  BY <1>6, ResumeLife
<1>7. CASE \E co \in Coroutines : WrapDead(co)
  BY <1>7, CloseLife
<1>8. CASE \E co \in Coroutines : CloseCoroutine(co)
  BY <1>8, CloseLife
<1>9. CASE CloseRunning
  BY <1>9, CloseRunningLife
<1>10. CASE EndClose
  BY <1>10, EndCloseLife
<1>11. CASE UNCHANGED vars
  BY <1>11 DEF vars, Life!vars, Status, Running
<1> QED
  BY <1>1, <1>2, <1>3, <1>4, <1>5, <1>6, <1>7, <1>8, <1>9, <1>10, <1>11 DEF Next, OwnSteps

\* Every coroutine is suspended.
LEMMA LifeInit ==
  ASSUME Init
  PROVE  Life!Init
<1>1. ASSUME NEW co \in Coroutines PROVE Status(co) = "suspended"
  <2>1. /\ th = [t \in Threads |-> [status |-> "ok", death |-> FALSE, fresh |-> t # Main, ci |-> <<>>,
                                    tbc |-> <<>>, nny |-> IF t = Main THEN 1 ELSE 0]]
        /\ go = <<>> /\ co \in Threads /\ co # Main
    BY ThreadsAssumption DEF Init, Threads
  <2>2. th[co].status = "ok" /\ th[co].fresh /\ th[co].ci = <<>>
    BY <2>1
  <2> QED
    BY <2>1, <2>2 DEF Status
<1>2. go = <<>>
  BY DEF Init
<1> QED
  BY <1>1, <1>2 DEF Life!Init

\* coroutine.status follows the lifecycle: one chain of threads of which only
\* the last runs, a dead coroutine is never resumed, and one whose closing has
\* begun never yields again and ends dead (Resume, Yield, CloseThread,
\* coroutineStatus).
THEOREM StatusesFollow ==
  ASSUME "closeInPcall" \notin Uses
  PROVE  Spec => StatusFollowsLifecycle
<1>1. Init => Life!Init
  BY LifeInit
<1>2. Inv /\ Inv' /\ [Next]_vars => [Life!Next]_(Life!vars)
  BY LifeStep
<1> QED
  BY <1>1, <1>2, AlwaysInv, PTL DEF Spec, StatusFollowsLifecycle, Life!Spec
=============================================================================
