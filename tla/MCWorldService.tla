--------------------------- MODULE MCWorldService ---------------------------
(* Instances of WorldService for TLC. *)
EXTENDS WorldService, TLC

Shape(n) == [cpu |-> n, memory |-> n, disk |-> 1]

\* One shape, of which one fits at a time.
OneShape == {Shape(1)}
LimitOne == [cpu |-> 1, memory |-> 1, disk |-> 2]

\* Half a GiB, which the registry rounds up to one.
SomeUsage == {1}

AllOperations == Operation
ContendedOperations == {"create", "rename", "list", "start"}
FairOperations == {"create", "list", "start", "delete"}
RemovalOperations == {"create", "delete"}

SymmetricThreads == Permutations(Threads)

AllFaults == {"provision", "remove", "inspect", "start", "stop", "usage"}
SomeFaults == {"remove", "inspect"}
ProvisionFault == {"provision"}
NoFaults == {}
=============================================================================
