----------------------------- MODULE MCCommands -----------------------------
EXTENDS Commands, TLC

CONSTANTS c1, c2, n1, n2, P, Q

MCContexts == <<c1, c2>>
MCTotals == (c1 :> [memory |-> 3, disk |-> 0]) @@ (c2 :> [memory |-> 4, disk |-> 7])

\* One world in the first context; in the second none or one of the
\* same name.
MCFirstWorlds ==
    LET W(id, name) == {[id |-> id, name |-> name, up |-> TRUE]}
    IN {(c1 :> W(1, n1)) @@ (c2 :> second) : second \in {{}, W(2, n1)}}
=============================================================================
