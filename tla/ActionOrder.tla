----------------------------- MODULE ActionOrder -----------------------------
(***************************************************************************)
(* What the queue of a `wt shell` promises (ADR 0068): actions are started *)
(* one at a time and in the order in which they were confirmed, none is    *)
(* started twice, and what leaves the queue without being started leaves   *)
(* with everything behind it.  The numbers are the ids of the actions.     *)
(***************************************************************************)
EXTENDS Naturals

VARIABLES waiting,   \* ids of the actions not yet started
          running,   \* id of the started action, 0 when there is none
          last       \* id given out last

vars == <<waiting, running, last>>

Init == waiting = {} /\ running = 0 /\ last = 0

Confirm ==
    /\ last' = last + 1
    /\ waiting' = waiting \union {last + 1}
    /\ UNCHANGED running

\* The started action is the oldest one.
Begin ==
    /\ running = 0
    /\ running' \in waiting
    /\ \A i \in waiting : running' <= i
    /\ waiting' = waiting \ {running'}
    /\ UNCHANGED last

\* A success leaves the others waiting; a failure takes them along, unless a
\* cancellation has done so before.
End ==
    /\ running # 0
    /\ running' = 0
    /\ waiting' \in {waiting, {}}
    /\ UNCHANGED last

\* An action that is taken out takes the later ones along.
TakeOut ==
    /\ \E cut \in waiting : waiting' = {i \in waiting : i < cut}
    /\ UNCHANGED <<running, last>>

\* The queue is lost with its shell.
Close ==
    /\ waiting' = {}
    /\ running' = 0
    /\ last' = 0

Next == Confirm \/ Begin \/ End \/ TakeOut \/ Close

Spec == Init /\ [][Next]_vars
=============================================================================
