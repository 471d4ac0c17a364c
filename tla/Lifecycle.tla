------------------------------ MODULE Lifecycle ------------------------------
(***************************************************************************)
(* What the coroutine library promises of coroutine.status: one chain of   *)
(* threads, each resuming the next, of which only the last runs; a dead    *)
(* coroutine is never resumed, and one whose closing has begun never       *)
(* yields again and ends dead.                                             *)
(***************************************************************************)
EXTENDS Integers, SequencesExt

CONSTANTS Main, Coroutines

VARIABLES
  life,   \* life[co]: what coroutine.status(co) says
  chain   \* the threads in progress, the running one last

vars == <<life, chain>>

Link(t, closing) == [t |-> t, closing |-> closing]

\* The chain becomes c, and the coroutines of out, which left it, become what
\* fate says.
Rechain(c, out, fate) ==
  /\ chain' = c
  /\ life' = [co \in Coroutines |->
                IF co \in out THEN fate
                ELSE IF c # <<>> /\ Last(c).t = co THEN "running"
                ELSE IF \E i \in DOMAIN c : c[i].t = co THEN "normal"
                ELSE life[co]]

Init == chain = <<>> /\ life = [co \in Coroutines |-> "suspended"]

Enter == chain = <<>> /\ Rechain(<<Link(Main, FALSE)>>, {}, "dead")
Exit == Len(chain) = 1 /\ Rechain(<<>>, {}, "dead")

Resume(co) ==
  /\ chain # <<>> /\ life[co] = "suspended"
  /\ Rechain(Append(chain, Link(co, FALSE)), {}, "dead")

Yield ==
  /\ Len(chain) > 1 /\ ~Last(chain).closing
  /\ Rechain(Front(chain), {Last(chain).t}, "suspended")

\* coroutine.close, of one that does not run: its __close metamethods run.
Close(co) ==
  /\ chain # <<>> /\ life[co] \in {"suspended", "dead"}
  /\ Rechain(Append(chain, Link(co, TRUE)), {}, "dead")

\* The last n threads end, by returning or by an error; the one that resumed
\* them may end of the same error, and then begin to close.
End(n, closes) ==
  /\ n < Len(chain)
  /\ LET rest == SubSeq(chain, 1, Len(chain) - n)
         out  == {chain[i].t : i \in Len(rest) + 1 .. Len(chain)}
     IN /\ closes => Len(rest) > 1
        /\ Rechain(IF closes THEN [rest EXCEPT ![Len(rest)].closing = TRUE] ELSE rest, out, "dead")

Next ==
  \/ Enter
  \/ Exit
  \/ \E co \in Coroutines : Resume(co)
  \/ Yield
  \/ \E co \in Coroutines : Close(co)
  \/ \E n \in 0 .. 2, closes \in BOOLEAN : End(n, closes)

Spec == Init /\ [][Next]_vars
=============================================================================
