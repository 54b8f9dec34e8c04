--------------------------- MODULE WorldLifecycle ---------------------------
(***************************************************************************)
(* What the server promises about each world, without threads, locks,      *)
(* inspections or machines: the life of a world id, the processors and     *)
(* memory it holds while it may run, and the SSH identity it keeps.        *)
(***************************************************************************)
EXTENDS Integers, FiniteSetsExt

CONSTANTS
    WorldIds,
    Limit,      \* the limit of each compute resource
    NoIdentity  \* the identity of a world that has never been reached

VARIABLES
    status,     \* the life of each world id
    held,       \* the compute resources each world holds
    identity    \* the SSH host identity each world is known by

lifecycle == <<status, held, identity>>

Compute == {"cpu", "memory"}
Nothing == [r \in Compute |-> 0]

Settled == {"running", "stopped", "error"}
InFlight == {"provisioning", "destroying"}

Total(h, r) == MapThenSumSet(LAMBDA w : h[w][r], WorldIds)

Init ==
    /\ status = [w \in WorldIds |-> "unborn"]
    /\ held = [w \in WorldIds |-> Nothing]
    /\ identity = [w \in WorldIds |-> NoIdentity]

\* Growing what a world holds never takes the host over its limit.
Hold(w) ==
    /\ held[w] = Nothing
    /\ held'[w] # Nothing
    /\ held' = [held EXCEPT ![w] = held'[w]]
    /\ \A r \in Compute : Total(held', r) <= Limit[r]

Admit(w) ==
    /\ status[w] = "unborn"
    /\ status' = [status EXCEPT ![w] = "provisioning"]
    /\ Hold(w)
    /\ UNCHANGED identity

\* The first contact with the guest fixes its identity.
Provisioned(w) ==
    /\ status[w] = "provisioning"
    /\ held[w] # Nothing
    /\ status' = [status EXCEPT ![w] = "running"]
    /\ identity[w] = NoIdentity
    /\ identity'[w] # NoIdentity
    /\ identity' = [identity EXCEPT ![w] = identity'[w]]
    /\ UNCHANGED held

\* A start reacquires the resources before the world may run again.
Reserve(w) ==
    /\ status[w] = "stopped"
    /\ Hold(w)
    /\ UNCHANGED <<status, identity>>

\* Only a world that holds its resources and has an identity runs.
FoundRunning(w) ==
    /\ status[w] \in Settled
    /\ held[w] # Nothing
    /\ identity[w] # NoIdentity
    /\ status' = [status EXCEPT ![w] = "running"]
    /\ UNCHANGED <<held, identity>>

FoundStopped(w) ==
    /\ status[w] \in Settled
    /\ status' = [status EXCEPT ![w] = "stopped"]
    /\ held' = [held EXCEPT ![w] = Nothing]
    /\ UNCHANGED identity

Fail(w) ==
    /\ status[w] \in Settled \cup InFlight
    /\ status' = [status EXCEPT ![w] = "error"]
    /\ UNCHANGED <<held, identity>>

Destroy(w) ==
    /\ status[w] \in Settled
    /\ status' = [status EXCEPT ![w] = "destroying"]
    /\ UNCHANGED <<held, identity>>

\* A removed id is never used again.
Removed(w) ==
    /\ status[w] = "destroying"
    /\ status' = [status EXCEPT ![w] = "removed"]
    /\ held' = [held EXCEPT ![w] = Nothing]
    /\ identity' = [identity EXCEPT ![w] = NoIdentity]

\* A restart of the server turns every operation in flight into an error.
Interrupt ==
    /\ status' = [w \in WorldIds |-> IF status[w] \in InFlight THEN "error" ELSE status[w]]
    /\ UNCHANGED <<held, identity>>

Next ==
    \/ \E w \in WorldIds :
          \/ Admit(w) \/ Provisioned(w) \/ Reserve(w) \/ FoundRunning(w)
          \/ FoundStopped(w) \/ Fail(w) \/ Destroy(w) \/ Removed(w)
    \/ Interrupt

Spec == Init /\ [][Next]_lifecycle

=============================================================================
