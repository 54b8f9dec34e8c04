--------------------------- MODULE MCApiMutations ---------------------------
(* Instances of ApiMutations for TLC. *)
EXTENDS ApiMutations, TLC

OneShape == {[cpu |-> 1, memory |-> 1, disk |-> 1]}
LimitOne == [cpu |-> 1, memory |-> 1, disk |-> 1]
SomeUsage == {1}
ApiOperations == {"create", "delete"}
SomeFaults == {"provision", "remove"}
RemoveFault == {"remove"}
SymmetricThreads == Permutations(Threads) \cup Permutations(RequestIds)
=============================================================================
