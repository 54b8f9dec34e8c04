------------------------- MODULE WorldServiceProofs -------------------------
(***************************************************************************)
(* Proofs about WorldService, for every number of worlds, threads, names   *)
(* and faults.                                                             *)
(*                                                                         *)
(* Unconditionally: type correctness, mutual exclusion of the operations   *)
(* on a world, names are unique, every operation in flight has its thread, *)
(* and a world keeps its SSH identity.  If no client removes a world that  *)
(* is being created: only the holder of a world changes its status, what   *)
(* runs is accounted for, a removal leaves nothing behind, and running     *)
(* worlds are observable.                                                  *)
(***************************************************************************)
EXTENDS WorldService, TLAPS

-----------------------------------------------------------------------------
(* The registry operations keep the table well typed *)

LEMMA ConstantsTyped ==
    /\ AnyWorld \in WorldIds
    /\ AnyRequest \in Request
    /\ NoRow \in Row
    /\ MaxKeys \in Nat /\ NoKey \in KeyIds /\ 1 \in KeyIds
<1>1. WorldIds # {} /\ Names # {} /\ Shapes # {} /\ MaxKeys \in Nat \ {0}
  BY ServiceAssumption, CapacityAssumption
<1>2. AnyWorld \in WorldIds
  BY <1>1 DEF AnyWorld
<1>3. Request # {}
  <2>1. PICK n \in Names, shape \in Shapes : TRUE
    BY <1>1
  <2>2. [name |-> n, want |-> shape] \in Request
    BY <2>1 DEF Request
  <2> QED
    BY <2>2
<1>4. AnyRequest \in Request
  BY <1>3 DEF AnyRequest
<1>5. NoRow \in Row
  BY <1>1, <1>3 DEF NoRow, Row, NoKey, KeyIds, WorldStatus
<1> QED
  BY <1>1, <1>2, <1>4, <1>5 DEF NoKey, KeyIds

LEMMA DiskTargetTyped == ASSUME NEW row \in Row PROVE DiskTarget(row) \in Nat
<1> DEFINE a == row.want["disk"]
           b == row.disk_reserved
<1>1. a \in Nat /\ b \in Nat
  BY DEF Row, Resource
<1>2. \E x \in {a, b} : \A y \in {a, b} : x >= y
  BY <1>1
<1> QED
  BY <1>1, <1>2 DEF DiskTarget, Max

LEMMA RequestTyped == ASSUME NEW q \in Request
                      PROVE q.name \in Names /\ q.want \in [Resource -> Nat]
BY CapacityAssumption DEF Request

LEMMA TableTyped ==
    ASSUME NEW ws \in [WorldIds -> Row], NEW w \in WorldIds
    PROVE  /\ \A q \in Request : insert_world(ws, w, q) \in [WorldIds -> Row]
           /\ hold_resources(ws, w) \in [WorldIds -> Row]
           /\ \A k \in KeyIds : mark_host_running(ws, w, k) \in [WorldIds -> Row]
           /\ \A b \in DiskBytes : mark_stopped(ws, w, b) \in [WorldIds -> Row]
           /\ mark_error(ws, w) \in [WorldIds -> Row]
           /\ mark_destroying(ws, w) \in [WorldIds -> Row]
           /\ \A n \in Names : rename(ws, w, n) \in [WorldIds -> Row]
           /\ delete(ws, w) \in [WorldIds -> Row]
<1>1. ASSUME NEW q \in Request PROVE insert_world(ws, w, q) \in [WorldIds -> Row]
  <2>1. q.name \in Names /\ q.want \in [Resource -> Nat] /\ q.want["disk"] \in Nat
    BY RequestTyped DEF Resource
  <2> QED
    BY <2>1, ConstantsTyped DEF insert_world, Row, WorldStatus
<1>2. hold_resources(ws, w) \in [WorldIds -> Row]
  <2>1. DiskTarget(ws[w]) \in Nat
    BY DiskTargetTyped
  <2> QED
    BY <2>1 DEF hold_resources, Row
<1>3. \A k \in KeyIds : mark_host_running(ws, w, k) \in [WorldIds -> Row]
  BY DEF mark_host_running, Row, WorldStatus
<1>4. ASSUME NEW b \in DiskBytes PROVE mark_stopped(ws, w, b) \in [WorldIds -> Row]
  <2>1. DivCeil(b, GiB) \in Nat
    BY CapacityAssumption, ServiceAssumption DEF DivCeil
  <2> QED
    BY <2>1 DEF mark_stopped, release_resources, Row, WorldStatus
<1>5. mark_error(ws, w) \in [WorldIds -> Row]
  BY DEF mark_error, Row, WorldStatus
<1>6. mark_destroying(ws, w) \in [WorldIds -> Row]
  BY DEF mark_destroying, Row, WorldStatus
<1>7. \A n \in Names : rename(ws, w, n) \in [WorldIds -> Row]
  BY DEF rename, Row
<1>8. delete(ws, w) \in [WorldIds -> Row]
  BY ConstantsTyped DEF delete
<1> QED
  BY <1>1, <1>2, <1>3, <1>4, <1>5, <1>6, <1>7, <1>8

LEMMA InterruptedTyped ==
    ASSUME NEW ws \in [WorldIds -> Row]
    PROVE  reconcile_interrupted(ws) \in [WorldIds -> Row]
BY DEF reconcile_interrupted, Row, WorldStatus

-----------------------------------------------------------------------------
(* Snapshots and the locals of a handler *)

LEMMA SeenTyped == ASSUME NEW row \in Row PROVE Seen(row) \in SeenRow
BY DEF Row, Seen, SeenRow

LEMMA SnapshotTyped ==
    /\ \A ws \in [WorldIds -> Row] : list_owned(ws) \in Snapshot
    /\ \A todo \in Snapshot, w \in WorldIds :
          [x \in DOMAIN todo \ {w} |-> todo[x]] \in Snapshot
    /\ \A todo \in Snapshot : \A w \in DOMAIN todo : w \in WorldIds /\ todo[w] \in SeenRow
    /\ [w \in {} |-> Seen(NoRow)] \in Snapshot
<1>1. ASSUME NEW S \in SUBSET WorldIds, NEW f \in [S -> SeenRow] PROVE f \in Snapshot
  BY DEF Snapshot
<1>2. ASSUME NEW f \in Snapshot PROVE \E S \in SUBSET WorldIds : f \in [S -> SeenRow]
  BY DEF Snapshot
<1>3. ASSUME NEW ws \in [WorldIds -> Row] PROVE list_owned(ws) \in Snapshot
  <2>1. \A w \in StoredIds(ws) : Seen(ws[w]) \in SeenRow
    BY SeenTyped DEF StoredIds
  <2>2. list_owned(ws) \in [StoredIds(ws) -> SeenRow] /\ StoredIds(ws) \subseteq WorldIds
    BY <2>1 DEF list_owned, StoredIds
  <2> QED
    BY <2>2, <1>1
<1>4. ASSUME NEW todo \in Snapshot, NEW w \in WorldIds
      PROVE  [x \in DOMAIN todo \ {w} |-> todo[x]] \in Snapshot
  <2>1. PICK S \in SUBSET WorldIds : todo \in [S -> SeenRow]
    BY <1>2
  <2>2. [x \in DOMAIN todo \ {w} |-> todo[x]] \in [S \ {w} -> SeenRow]
    BY <2>1
  <2> QED
    BY <2>1, <2>2, <1>1
<1>5. ASSUME NEW todo \in Snapshot, NEW w \in DOMAIN todo
      PROVE  w \in WorldIds /\ todo[w] \in SeenRow
  BY <1>2
<1>6. [w \in {} |-> Seen(NoRow)] \in Snapshot
  <2>1. [w \in {} |-> Seen(NoRow)] \in [{} -> SeenRow]
    OBVIOUS
  <2> QED
    BY <2>1, <1>1
<1> QED
  BY <1>3, <1>4, <1>5, <1>6

LEMMA NoCallTyped == NoCall \in Call
<1>1. Seen(NoRow) \in SeenRow
  BY ConstantsTyped, SeenTyped
<1>2. 0 \in 0 .. INSPECTION_RETRIES
  BY ServiceAssumption
<1> QED
  BY <1>1, <1>2, ConstantsTyped, SnapshotTyped DEF NoCall, Call, Operation, Outcome

\* The locals with one field replaced are typed when the new value is.
LEMMA CallFieldTyped ==
    ASSUME NEW c \in Call
    PROVE  /\ \A w \in WorldIds : [c EXCEPT !.w = w] \in Call
           /\ \A row \in SeenRow : [c EXCEPT !.stored = row] \in Call
           /\ \A w \in WorldIds, row \in SeenRow : [c EXCEPT !.w = w, !.stored = row] \in Call
           /\ \A f \in Snapshot : [c EXCEPT !.todo = f] \in Call
           /\ \A n \in 0 .. INSPECTION_RETRIES : [c EXCEPT !.attempts = n] \in Call
           /\ \A k \in KeyIds : [c EXCEPT !.key = k] \in Call
BY DEF Call

-----------------------------------------------------------------------------
(* The steps of each operation *)

LEMMA OpOfStep ==
    ASSUME NEW op \in Operation, NEW s \in StepsOf[op]
    PROVE  /\ s \in CreateSteps \cup {"create_lock"} => op = "create"
           /\ s \in ReconcilePoints => op \in {"list", "get", "start", "stop"}
           /\ s \in {"list_read", "list_next", "list_unlock", "list_reread", "list_usage"} => op = "list"
           /\ s = "get_read" => op = "get"
           /\ s = "read" => op \in {"start", "stop", "rename"}
           /\ s = "lock" => op \in {"get", "start", "stop", "rename", "delete", "exec"}
           /\ s \in {"start_check", "start_reserve", "start_boot", "start_ready",
                     "start_probe", "start_apply"} => op = "start"
           /\ s \in {"stop_check", "stop_shutdown", "stop_record"} => op = "stop"
           /\ s \in {"delete_mark", "delete_failed", "delete_row"} => op = "delete"
           /\ s \in {"remove_domain", "remove_files"} => op \in {"create", "delete"}
           /\ s = "rename_write" => op = "rename"
           /\ s \in {"exec_check", "exec_run"} => op = "exec"
           /\ s = "final_read" => op \in {"create", "get", "start", "stop", "rename"}
<1>1. CASE op = "create" BY <1>1 DEF StepsOf, Operation, CreateSteps, ReconcilePoints
<1>2. CASE op = "list" BY <1>2 DEF StepsOf, Operation, CreateSteps, ReconcilePoints
<1>3. CASE op = "get" BY <1>3 DEF StepsOf, Operation, CreateSteps, ReconcilePoints
<1>4. CASE op = "start" BY <1>4 DEF StepsOf, Operation, CreateSteps, ReconcilePoints
<1>5. CASE op = "stop" BY <1>5 DEF StepsOf, Operation, CreateSteps, ReconcilePoints
<1>6. CASE op = "delete" BY <1>6 DEF StepsOf, Operation, CreateSteps, ReconcilePoints
<1>7. CASE op = "rename" BY <1>7 DEF StepsOf, Operation, CreateSteps, ReconcilePoints
<1>8. CASE op = "exec" BY <1>8 DEF StepsOf, Operation, CreateSteps, ReconcilePoints
<1> QED
  BY <1>1, <1>2, <1>3, <1>4, <1>5, <1>6, <1>7, <1>8 DEF Operation

LEMMA StepOfOp ==
    /\ CreateSteps \cup {"create_lock", "remove_domain", "remove_files", "final_read"}
          \subseteq StepsOf["create"]
    /\ ReconcilePoints \cup {"list_read", "list_next", "list_unlock", "list_reread", "list_usage"}
          \subseteq StepsOf["list"]
    /\ ReconcilePoints \cup {"get_read", "lock", "final_read"} \subseteq StepsOf["get"]
    /\ ReconcilePoints \cup {"read", "lock", "start_check", "start_reserve", "start_boot",
                             "start_ready", "start_probe", "start_apply", "final_read"}
          \subseteq StepsOf["start"]
    /\ ReconcilePoints \cup {"read", "lock", "stop_check", "stop_shutdown", "stop_record",
                             "final_read"} \subseteq StepsOf["stop"]
    /\ {"lock", "delete_mark", "remove_domain", "remove_files", "delete_failed", "delete_row"}
          \subseteq StepsOf["delete"]
    /\ {"read", "lock", "rename_write", "final_read"} \subseteq StepsOf["rename"]
    /\ {"lock", "exec_check", "exec_run"} \subseteq StepsOf["exec"]
BY DEF StepsOf, Operation

LEMMA StepsTyped == ASSUME NEW op \in Operation, NEW s \in StepsOf[op] PROVE s \in Steps
BY DEF Steps

-----------------------------------------------------------------------------
(* Type correctness, one step per action *)

ThreadsTyped ==
    /\ pc \in [Threads -> Steps]
    /\ call \in [Threads -> Call]
    /\ \A t \in Threads :
          /\ pc[t] \in {"idle", "return"} \cup StepsOf[call[t].op]
          /\ At(t, "inspect") => call[t].attempts <= Retries(call[t].stored)

DataTyped ==
    /\ worlds \in [WorldIds -> Row]
    /\ issued \subseteq WorldIds
    /\ machine \in [WorldIds -> Machine]
    /\ active \subseteq OperationKey
    /\ guards \in [Threads -> SUBSET OperationKey]
    /\ inactive \subseteq WorldIds
    /\ crashes \in 0 .. MaxCrashes

LEMMA TypeSplit == /\ TypeOK <=> ThreadsTyped /\ DataTyped
                   /\ TypeOK' <=> ThreadsTyped' /\ DataTyped'
BY DEF TypeOK, ThreadsTyped, DataTyped

\* Locals of a thread, and what its step says of its operation.
LEMMA Locals ==
    ASSUME TypeOK, NEW t \in Threads
    PROVE  /\ call[t] \in Call /\ W(t) \in WorldIds /\ call[t].op \in Operation
           /\ call[t].request \in Request /\ call[t].key \in KeyIds
           /\ call[t].todo \in Snapshot /\ call[t].stored \in SeenRow
           /\ call[t].attempts \in 0 .. INSPECTION_RETRIES
           /\ pc[t] \in {"idle", "return"} \cup StepsOf[call[t].op]
<1>1. call[t] \in Call /\ pc[t] \in {"idle", "return"} \cup StepsOf[call[t].op]
  BY DEF TypeOK
<1> QED
  BY <1>1 DEF Call, W

LEMMA MoveTyped ==
    ASSUME TypeOK, NEW t \in Threads, NEW c \in Call,
           NEW s \in {"idle", "return"} \cup StepsOf[c.op],
           s = "inspect" => c.attempts <= Retries(c.stored),
           pc' = [pc EXCEPT ![t] = s], call' = [call EXCEPT ![t] = c]
    PROVE  ThreadsTyped'
<1>1. c.op \in Operation
  BY DEF Call
<1>2. s \in Steps
  BY <1>1 DEF Steps
<1> QED
  BY <1>2 DEF TypeOK, ThreadsTyped, At

LEMMA GotoTyped ==
    ASSUME TypeOK, NEW t \in Threads, NEW s \in {"idle", "return"} \cup StepsOf[call[t].op],
           s # "inspect", Goto(t, s), UNCHANGED call
    PROVE  ThreadsTyped'
<1>1. call[t] \in Call /\ call' = [call EXCEPT ![t] = call[t]]
  BY DEF TypeOK
<1> QED
  BY <1>1, MoveTyped DEF Goto

LEMMA FinishTyped ==
    ASSUME TypeOK, NEW t \in Threads, NEW out \in Outcome, Finish(t, out)
    PROVE  ThreadsTyped'
<1> DEFINE c == [NoCall EXCEPT !.op = call[t].op, !.w = call[t].w, !.out = out]
<1>1. c \in Call
  BY NoCallTyped, Locals DEF Call, W
<1> QED
  BY <1>1, MoveTyped DEF Finish, Goto

LEMMA LocalStepTyped == ASSUME TypeOK, LocalStep PROVE DataTyped'
BY DEF TypeOK, DataTyped, LocalStep, RegistryUnchanged, HostUnchanged, LocksUnchanged

LEMMA RegistryStepTyped ==
    ASSUME TypeOK, RegistryStep, worlds' \in [WorldIds -> Row], inactive' \subseteq WorldIds
    PROVE  DataTyped'
BY DEF TypeOK, DataTyped, RegistryStep, HostUnchanged, LocksUnchanged

LEMMA MachineStepTyped ==
    ASSUME TypeOK, MachineStep, machine' \in [WorldIds -> Machine]
    PROVE  DataTyped'
BY DEF TypeOK, DataTyped, MachineStep, RegistryUnchanged, LocksUnchanged

LEMMA DomainTyped ==
    ASSUME TypeOK, NEW w \in WorldIds, NEW d \in Domain
    PROVE  /\ machine \in [WorldIds -> Machine]
           /\ [machine EXCEPT ![w].domain = d] \in [WorldIds -> Machine]
<1>1. machine \in [WorldIds -> Machine] /\ machine[w] \in Machine
  BY DEF TypeOK
<1>2. [machine[w] EXCEPT !.domain = d] \in Machine
  BY <1>1 DEF Machine
<1> QED
  BY <1>1, <1>2

LEMMA KeysTyped == /\ \A n \in Names : CreateKey(n) \in OperationKey
                   /\ \A w \in WorldIds : WorldKey(w) \in OperationKey
BY DEF OperationKey

LEMMA AcquireTyped ==
    ASSUME TypeOK, NEW t \in Threads, NEW key \in OperationKey, Acquire(t, key)
    PROVE  active' \subseteq OperationKey /\ guards' \in [Threads -> SUBSET OperationKey]
BY DEF TypeOK, Acquire

LEMMA DropTyped ==
    ASSUME TypeOK, NEW t \in Threads, DropGuards(t)
    PROVE  active' \subseteq OperationKey /\ guards' \in [Threads -> SUBSET OperationKey]
BY DEF TypeOK, DropGuards

LEMMA TypeCreate == ASSUME TypeOK, NEW t \in Threads, CreateStep(t) PROVE TypeOK'
<1> USE TypeSplit, Locals
<1>1. CASE lock_create(t)
  <2>1. DataTyped'
    BY <1>1, AcquireTyped, KeysTyped, RequestTyped
    DEF lock_create, TypeOK, DataTyped, RegistryUnchanged, HostUnchanged
  <2>2. ThreadsTyped'
    BY <1>1, GotoTyped, OpOfStep, StepOfOp DEF lock_create, At, CreateSteps
  <2> QED BY <2>1, <2>2
<1>2. CASE create_lookup(t)
  <2>1. ThreadsTyped'
    BY <1>2, GotoTyped, FinishTyped, OpOfStep, StepOfOp DEF create_lookup, At, CreateSteps, Outcome
  <2> QED BY <1>2, <2>1, LocalStepTyped DEF create_lookup
<1>3. CASE create_insert(t)
  <2>1. CASE UNCHANGED <<worlds, issued>> /\ (Finish(t, "capacity") \/ Finish(t, "conflict"))
    <3>1. ThreadsTyped'
      BY <2>1, FinishTyped DEF Outcome
    <3> QED BY <1>3, <2>1, <3>1 DEF create_insert, TypeOK, DataTyped, HostUnchanged, LocksUnchanged
  <2>2. CASE \E w \in WorldIds \ issued :
                /\ issued' = issued \cup {w}
                /\ worlds' = insert_world(worlds, w, call[t].request)
                /\ call' = [call EXCEPT ![t].w = w]
                /\ Goto(t, "create_overlay")
    <3>1. PICK w \in WorldIds \ issued :
                /\ issued' = issued \cup {w}
                /\ worlds' = insert_world(worlds, w, call[t].request)
                /\ call' = [call EXCEPT ![t].w = w]
                /\ Goto(t, "create_overlay")
      BY <2>2
    <3>2. worlds' \in [WorldIds -> Row] /\ issued' \subseteq WorldIds
      BY <3>1, TableTyped DEF TypeOK
    <3>3. call[t].op = "create"
      BY <1>3, OpOfStep DEF create_insert, At, CreateSteps
    <3>4. [call[t] EXCEPT !.w = w] \in Call /\ [call[t] EXCEPT !.w = w].op = "create"
      BY <3>3, CallFieldTyped DEF Call
    <3>5. ThreadsTyped'
      BY <3>1, <3>4, MoveTyped, StepOfOp DEF Goto, CreateSteps
    <3> QED BY <1>3, <3>2, <3>5 DEF create_insert, TypeOK, DataTyped, HostUnchanged, LocksUnchanged
  <2> QED BY <1>3, <2>1, <2>2 DEF create_insert, RegistryUnchanged
<1>4. CASE create_overlay(t)
  <2>1. ThreadsTyped'
    BY <1>4, GotoTyped, OpOfStep, StepOfOp DEF create_overlay, At, CreateSteps
  <2>2. machine' \in [WorldIds -> Machine]
    BY <1>4 DEF create_overlay, HostUnchanged, TypeOK, Machine, Domain
  <2> QED BY <1>4, <2>1, <2>2, MachineStepTyped DEF create_overlay
<1>5. CASE create_directory(t)
  <2>1. ThreadsTyped'
    BY <1>5, GotoTyped, OpOfStep, StepOfOp DEF create_directory, At, CreateSteps
  <2>2. machine' \in [WorldIds -> Machine]
    BY <1>5 DEF create_directory, HostUnchanged, TypeOK, Machine, Domain
  <2> QED BY <1>5, <2>1, <2>2, MachineStepTyped DEF create_directory
<1>6. CASE create_define(t)
  <2>1. ThreadsTyped'
    BY <1>6, GotoTyped, OpOfStep, StepOfOp DEF create_define, At, CreateSteps
  <2>2. machine' \in [WorldIds -> Machine]
    BY <1>6 DEF create_define, HostUnchanged, TypeOK, Machine, Domain
  <2> QED BY <1>6, <2>1, <2>2, MachineStepTyped DEF create_define
<1>7. CASE create_boot(t)
  <2>1. ThreadsTyped'
    BY <1>7, GotoTyped, OpOfStep, StepOfOp DEF create_boot, At, CreateSteps
  <2>2. machine' \in [WorldIds -> Machine]
    BY <1>7 DEF create_boot, HostUnchanged, TypeOK, Machine, Domain
  <2> QED BY <1>7, <2>1, <2>2, MachineStepTyped DEF create_boot
<1>8. CASE create_wait(t)
  <2>1. ThreadsTyped'
    BY <1>8, GotoTyped, OpOfStep, StepOfOp DEF create_wait, At, CreateSteps
  <2>2. machine' \in [WorldIds -> Machine]
    BY <1>8 DEF create_wait, HostUnchanged, TypeOK
  <2> QED BY <1>8, <2>1, <2>2, MachineStepTyped DEF create_wait
<1>9. CASE create_setup(t)
  <2>1. call[t].op = "create"
    BY <1>9, OpOfStep DEF create_setup, At, CreateSteps
  <2>2. [call[t] EXCEPT !.key = 1] \in Call /\ [call[t] EXCEPT !.key = 1].op = "create"
    BY <2>1, CallFieldTyped, ConstantsTyped DEF Call
  <2>3. ThreadsTyped'
    <3>1. CASE UNCHANGED call /\ Goto(t, "create_failed")
      BY <3>1, <2>1, GotoTyped, StepOfOp DEF CreateSteps
    <3>2. CASE call' = [call EXCEPT ![t].key = 1] /\ Goto(t, "create_running")
      BY <3>2, <2>2, MoveTyped, StepOfOp DEF CreateSteps, Goto
    <3> QED BY <1>9, <3>1, <3>2 DEF create_setup
  <2>4. machine' \in [WorldIds -> Machine]
    BY <1>9, ConstantsTyped DEF create_setup, HostUnchanged, TypeOK, Machine
  <2> QED BY <1>9, <2>3, <2>4, MachineStepTyped DEF create_setup
<1>10. CASE create_running(t)
  <2>1. ThreadsTyped'
    BY <1>10, GotoTyped, FinishTyped, OpOfStep, StepOfOp DEF create_running, At, CreateSteps, Outcome
  <2>2. worlds' \in [WorldIds -> Row] /\ inactive' \subseteq WorldIds
    BY <1>10, TableTyped DEF create_running, TypeOK
  <2> QED BY <1>10, <2>1, <2>2, RegistryStepTyped DEF create_running
<1>11. CASE create_failed(t)
  <2>1. ThreadsTyped'
    BY <1>11, FinishTyped DEF create_failed, Outcome
  <2>2. worlds' \in [WorldIds -> Row] /\ inactive' \subseteq WorldIds
    BY <1>11, TableTyped DEF create_failed, TypeOK
  <2> QED BY <1>11, <2>1, <2>2, RegistryStepTyped DEF create_failed
<1> QED
  BY <1>1, <1>2, <1>3, <1>4, <1>5, <1>6, <1>7, <1>8, <1>9, <1>10, <1>11 DEF CreateStep

\* A read row replaces a local and the thread moves on.
LEMMA StoreTyped ==
    ASSUME TypeOK, NEW t \in Threads, NEW s \in StepsOf[call[t].op],
           s # "inspect", Goto(t, s), call' = [call EXCEPT ![t].stored = Seen(worlds[W(t)])]
    PROVE  ThreadsTyped'
<1> DEFINE c == [call[t] EXCEPT !.stored = Seen(worlds[W(t)])]
<1>1. Seen(worlds[W(t)]) \in SeenRow
  BY SeenTyped, Locals DEF TypeOK
<1>2. c \in Call /\ c.op = call[t].op
  BY <1>1, Locals, CallFieldTyped DEF Call
<1>3. call' = [call EXCEPT ![t] = c]
  OBVIOUS
<1> QED
  BY <1>2, <1>3, MoveTyped DEF Goto

LEMMA KeyTyped ==
    ASSUME TypeOK, NEW t \in Threads, NEW s \in StepsOf[call[t].op], NEW k \in KeyIds,
           s # "inspect", Goto(t, s), call' = [call EXCEPT ![t].key = k]
    PROVE  ThreadsTyped'
<1> DEFINE c == [call[t] EXCEPT !.key = k]
<1>1. c \in Call /\ c.op = call[t].op
  BY Locals, CallFieldTyped DEF Call
<1>2. call' = [call EXCEPT ![t] = c]
  OBVIOUS
<1> QED
  BY <1>1, <1>2, MoveTyped DEF Goto

LEMMA TodoTyped ==
    ASSUME TypeOK, NEW t \in Threads, NEW s \in StepsOf[call[t].op], NEW f \in Snapshot,
           s # "inspect", Goto(t, s), call' = [call EXCEPT ![t].todo = f]
    PROVE  ThreadsTyped'
<1> DEFINE c == [call[t] EXCEPT !.todo = f]
<1>1. c \in Call /\ c.op = call[t].op
  BY Locals, CallFieldTyped DEF Call
<1>2. call' = [call EXCEPT ![t] = c]
  OBVIOUS
<1> QED
  BY <1>1, <1>2, MoveTyped DEF Goto

LEMMA MachineKeyTyped == ASSUME TypeOK, NEW w \in WorldIds PROVE machine[w].key \in KeyIds
BY DEF TypeOK, Machine

LEMMA AfterReconcileTyped ==
    ASSUME NEW op \in {"list", "get", "start", "stop"}
    PROVE  /\ AfterReconcile(op) \in StepsOf[op] /\ AfterReconcile(op) # "inspect"
           /\ \A row : ReconcileStep(op, row) \in StepsOf[op]
BY StepOfOp DEF AfterReconcile, ReconcileStep, ReconcilePoints

LEMMA TypeRead == ASSUME TypeOK, NEW t \in Threads,
                         read(t) \/ get_read(t) \/ try_lock_world(t) \/ final_read(t) \/ Respond(t)
                  PROVE  TypeOK'
<1> USE TypeSplit, Locals
<1>1. CASE read(t)
  <2>1. call[t].op \in {"start", "stop", "rename"}
    BY <1>1, OpOfStep DEF read, At
  <2>2. ThreadsTyped'
    BY <1>1, <2>1, StoreTyped, FinishTyped, StepOfOp DEF read, Outcome
  <2> QED BY <1>1, <2>2, LocalStepTyped DEF read
<1>2. CASE get_read(t)
  <2>1. call[t].op = "get"
    BY <1>2, OpOfStep DEF get_read, At
  <2>2. CASE Finish(t, "not_found")
    BY <1>2, <2>2, FinishTyped, LocalStepTyped DEF get_read, Outcome
  <2>3. CASE \E w \in StoredIds(worlds) :
               /\ call' = [call EXCEPT ![t].w = w, ![t].stored = Seen(worlds[w])]
               /\ Goto(t, "lock")
    <3>1. PICK w \in StoredIds(worlds) :
               /\ call' = [call EXCEPT ![t].w = w, ![t].stored = Seen(worlds[w])]
               /\ Goto(t, "lock")
      BY <2>3
    <3> DEFINE c == [call[t] EXCEPT !.w = w, !.stored = Seen(worlds[w])]
    <3>2. w \in WorldIds /\ Seen(worlds[w]) \in SeenRow
      BY SeenTyped DEF StoredIds, TypeOK
    <3>3. c \in Call /\ c.op = "get"
      BY <2>1, <3>2, CallFieldTyped DEF Call
    <3>4. call' = [call EXCEPT ![t] = c]
      BY <3>1
    <3>5. ThreadsTyped'
      BY <3>1, <3>3, <3>4, MoveTyped, StepOfOp DEF Goto
    <3> QED BY <1>2, <3>5, LocalStepTyped DEF get_read
  <2> QED BY <1>2, <2>2, <2>3 DEF get_read
<1>3. CASE try_lock_world(t)
  <2>1. ThreadsTyped'
    <3>1. call[t].op \in {"get", "start", "stop", "rename", "delete", "exec"}
      BY <1>3, OpOfStep DEF try_lock_world, At
    <3>2. StepUnderLock(call[t]) \in StepsOf[call[t].op]
      BY <3>1, AfterReconcileTyped, StepOfOp DEF StepUnderLock
    <3> DEFINE c == [call[t] EXCEPT !.attempts = 0]
    <3>3. c \in Call /\ c.op = call[t].op /\ c.attempts <= Retries(c.stored)
      <4>1. INSPECTION_RETRIES \in Nat /\ 0 \in 0 .. INSPECTION_RETRIES
        BY ServiceAssumption
      <4>2. c \in Call
        BY <4>1, CallFieldTyped
      <4>3. c.op = call[t].op /\ c.attempts = 0
        BY DEF Call
      <4>4. Retries(c.stored) \in Nat
        BY <4>1 DEF Retries
      <4> QED BY <4>2, <4>3, <4>4
    <3>4. CASE call' = [call EXCEPT ![t].attempts = 0] /\ Goto(t, StepUnderLock(call[t]))
      BY <3>2, <3>3, <3>4, MoveTyped DEF Goto
    <3> QED BY <1>3, <3>4, FinishTyped DEF try_lock_world, Outcome
  <2>2. DataTyped'
    BY <1>3, AcquireTyped, KeysTyped
    DEF try_lock_world, TypeOK, DataTyped, RegistryUnchanged, HostUnchanged, LocksUnchanged
  <2> QED BY <2>1, <2>2
<1>4. CASE final_read(t)
  <2>1. ThreadsTyped'
    BY <1>4, FinishTyped DEF final_read, Outcome
  <2> QED BY <1>4, <2>1, LocalStepTyped DEF final_read
<1>5. CASE Respond(t)
  <2>1. ThreadsTyped'
    BY <1>5, MoveTyped, NoCallTyped DEF Respond, Goto
  <2>2. DataTyped'
    BY <1>5, DropTyped DEF Respond, TypeOK, DataTyped, RegistryUnchanged, HostUnchanged
  <2> QED BY <2>1, <2>2
<1> QED
  BY <1>1, <1>2, <1>3, <1>4, <1>5

LEMMA StoppedTyped ==
    ASSUME TypeOK, NEW t \in Threads, NEW g \in SUBSET WorldIds, record_stopped(t, g)
    PROVE  worlds' \in [WorldIds -> Row] /\ inactive' \subseteq WorldIds
BY TableTyped, Locals DEF record_stopped, TypeOK

LEMMA ApplyTyped ==
    ASSUME TypeOK, NEW t \in Threads, NEW s \in StepsOf[call[t].op], s # "inspect",
           apply_world(t, s)
    PROVE  TypeOK'
<1>1. worlds' \in [WorldIds -> Row] /\ inactive' \subseteq WorldIds
  BY TableTyped, Locals DEF apply_world, TypeOK
<1>2. ThreadsTyped'
  BY GotoTyped DEF apply_world
<1> QED
  BY <1>1, <1>2, RegistryStepTyped, TypeSplit DEF apply_world

LEMMA TypeReconcile == ASSUME TypeOK, NEW t \in Threads, ReconcileSteps(t) PROVE TypeOK'
<1> USE TypeSplit, Locals
<1>0. call[t].op \in {"list", "get", "start", "stop"}
  BY OpOfStep DEF ReconcileSteps, inspect, reconcile_reserve, reconcile_running,
                  reconcile_stopped, reconcile_error, At, ReconcilePoints
<1>a. /\ AfterReconcile(call[t].op) \in StepsOf[call[t].op]
      /\ AfterReconcile(call[t].op) # "inspect"
      /\ ReconcilePoints \subseteq StepsOf[call[t].op]
  BY <1>0, AfterReconcileTyped, StepOfOp
<1>1. CASE inspect(t)
  <2>1. CASE retry(t)
    <3>1. CASE call[t].attempts = Retries(call[t].stored)
      BY <1>1, <1>a, <2>1, <3>1, GotoTyped, LocalStepTyped DEF inspect, retry, ReconcilePoints
    <3>2. CASE call[t].attempts # Retries(call[t].stored)
      \* The count stays below the number of retries.
      <4> DEFINE c == [call[t] EXCEPT !.attempts = call[t].attempts + 1]
      <4>1. call[t].attempts + 1 \in 0 .. INSPECTION_RETRIES
        BY <1>1, <3>2, ServiceAssumption DEF inspect, TypeOK, Retries
      <4>2. c \in Call /\ c.op = call[t].op
        BY <4>1, CallFieldTyped DEF Call
      <4>3. call' = [call EXCEPT ![t] = c] /\ pc' = [pc EXCEPT ![t] = pc[t]]
        BY <2>1, <3>2 DEF retry, TypeOK
      <4>4. c.attempts <= Retries(c.stored)
        <5>1. c.attempts = call[t].attempts + 1 /\ c.stored = call[t].stored
          BY DEF Call
        <5>2. call[t].attempts <= Retries(call[t].stored)
          BY <1>1 DEF inspect, TypeOK
        <5>3. Retries(call[t].stored) \in Nat
          BY ServiceAssumption DEF Retries
        <5> QED BY <3>2, <5>1, <5>2, <5>3
      <4>5. ThreadsTyped'
        BY <4>2, <4>3, <4>4, MoveTyped
      <4> QED BY <1>1, <4>5, LocalStepTyped DEF inspect
    <3> QED BY <3>1, <3>2
  <2>2. CASE ~retry(t)
    <3>1. ThreadsTyped'
      BY <1>1, <1>a, <2>2, GotoTyped, KeyTyped, MachineKeyTyped DEF inspect, ReconcilePoints
    <3> QED BY <1>1, <3>1, LocalStepTyped DEF inspect
  <2> QED BY <2>1, <2>2
<1>2. CASE reconcile_reserve(t)
  <2>1. ThreadsTyped'
    BY <1>2, <1>a, GotoTyped, FinishTyped DEF reconcile_reserve, Outcome, ReconcilePoints
  <2>2. worlds' \in [WorldIds -> Row] /\ inactive' \subseteq WorldIds
    BY <1>2, TableTyped DEF reconcile_reserve, TypeOK
  <2> QED BY <1>2, <2>1, <2>2, RegistryStepTyped DEF reconcile_reserve
<1>3. CASE reconcile_running(t)
  BY <1>3, <1>a, ApplyTyped DEF reconcile_running
<1>4. CASE reconcile_stopped(t)
  <2>1. ThreadsTyped'
    BY <1>4, <1>a, GotoTyped, FinishTyped DEF reconcile_stopped, Outcome
  <2>2. worlds' \in [WorldIds -> Row] /\ inactive' \subseteq WorldIds
    BY <1>4, StoppedTyped DEF reconcile_stopped, TypeOK
  <2> QED BY <1>4, <2>1, <2>2, RegistryStepTyped DEF reconcile_stopped
<1>5. CASE reconcile_error(t)
  <2>1. ThreadsTyped'
    BY <1>5, <1>a, GotoTyped, FinishTyped DEF reconcile_error, Outcome
  <2>2. worlds' \in [WorldIds -> Row] /\ inactive' \subseteq WorldIds
    BY <1>5, TableTyped DEF reconcile_error, TypeOK
  <2> QED BY <1>5, <2>1, <2>2, RegistryStepTyped DEF reconcile_error
<1> QED
  BY <1>1, <1>2, <1>3, <1>4, <1>5 DEF ReconcileSteps

LEMMA TypeList == ASSUME TypeOK, NEW t \in Threads, ListStep(t) PROVE TypeOK'
<1> USE TypeSplit, Locals
<1>0. call[t].op = "list"
  <2>1. pc[t] \in {"list_read", "list_next", "list_unlock", "list_reread", "list_usage"}
    BY DEF ListStep, list_read, list_next, list_unlock, list_reread, list_usage, At
  <2> QED BY <2>1, OpOfStep
<1>1. CASE list_read(t)
  <2>1. ThreadsTyped'
    BY <1>0, <1>1, TodoTyped, SnapshotTyped, StepOfOp DEF list_read, TypeOK
  <2> QED BY <1>1, <2>1, LocalStepTyped DEF list_read
<1>2. CASE list_next(t)
  <2> DEFINE todo == call[t].todo
             Rest(w) == [x \in DOMAIN todo \ {w} |-> todo[x]]
  <2>1. CASE Goto(t, "list_reread") /\ UNCHANGED call /\ LocksUnchanged
    <3>1. ThreadsTyped'
      BY <1>0, <2>1, GotoTyped, StepOfOp
    <3> QED BY <1>2, <2>1, <3>1
         DEF list_next, TypeOK, DataTyped, RegistryUnchanged, HostUnchanged, LocksUnchanged
  <2>2. CASE \E w \in DOMAIN todo : call' = [call EXCEPT ![t].todo = Rest(w)] /\ UNCHANGED pc /\ LocksUnchanged
    <3>1. PICK w \in DOMAIN todo : call' = [call EXCEPT ![t].todo = Rest(w)]
      BY <2>2
    <3>2. Rest(w) \in Snapshot
      BY SnapshotTyped
    <3>3. Goto(t, "list_next")
      BY <1>2, <2>2 DEF list_next, At, Goto, TypeOK
    <3>4. ThreadsTyped'
      BY <1>0, <3>1, <3>2, <3>3, TodoTyped, StepOfOp
    <3> QED BY <1>2, <2>2, <3>4
         DEF list_next, TypeOK, DataTyped, RegistryUnchanged, HostUnchanged, LocksUnchanged
  <2>3. CASE \E w \in DOMAIN todo :
               /\ Acquire(t, WorldKey(w))
               /\ call' = [call EXCEPT ![t].todo = Rest(w), ![t].w = w,
                                       ![t].stored = todo[w], ![t].attempts = 0]
               /\ Goto(t, ReconcileStep("list", todo[w]))
    <3>1. PICK w \in DOMAIN todo :
               /\ Acquire(t, WorldKey(w))
               /\ call' = [call EXCEPT ![t].todo = Rest(w), ![t].w = w,
                                       ![t].stored = todo[w], ![t].attempts = 0]
               /\ Goto(t, ReconcileStep("list", todo[w]))
      BY <2>3
    <3> DEFINE c == [call[t] EXCEPT !.todo = Rest(w), !.w = w, !.stored = todo[w], !.attempts = 0]
    <3>2. Rest(w) \in Snapshot /\ w \in WorldIds /\ todo[w] \in SeenRow
      BY SnapshotTyped
    <3>3. INSPECTION_RETRIES \in Nat /\ 0 \in 0 .. INSPECTION_RETRIES
      BY ServiceAssumption
    <3>4. c \in Call
      BY <3>2, <3>3 DEF Call
    <3>5. c.op = "list" /\ c.attempts = 0
      BY <1>0 DEF Call
    <3>6. Retries(c.stored) \in Nat
      BY <3>3 DEF Retries
    <3>7. call' = [call EXCEPT ![t] = c]
      BY <3>1
    <3>8. ReconcileStep("list", todo[w]) \in StepsOf["list"]
      BY AfterReconcileTyped
    <3>9. ThreadsTyped'
      <4> DEFINE s == ReconcileStep("list", todo[w])
      <4>1. s \in {"idle", "return"} \cup StepsOf[c.op] /\ c.attempts <= Retries(c.stored)
        BY <3>5, <3>6, <3>8
      <4>2. pc' = [pc EXCEPT ![t] = s]
        BY <3>1 DEF Goto
      <4> HIDE DEF c, s
      <4> QED BY <3>4, <3>7, <4>1, <4>2, MoveTyped
    <3>10. active' \subseteq OperationKey /\ guards' \in [Threads -> SUBSET OperationKey]
      BY <3>1, <3>2, AcquireTyped, KeysTyped
    <3> QED BY <1>2, <3>9, <3>10
         DEF list_next, TypeOK, DataTyped, RegistryUnchanged, HostUnchanged
  <2> QED BY <1>2, <2>1, <2>2, <2>3 DEF list_next
<1>3. CASE list_unlock(t)
  <2>1. ThreadsTyped'
    BY <1>0, <1>3, GotoTyped, StepOfOp DEF list_unlock
  <2>2. DataTyped'
    BY <1>3, DropTyped DEF list_unlock, TypeOK, DataTyped, RegistryUnchanged, HostUnchanged
  <2> QED BY <2>1, <2>2
<1>4. CASE list_reread(t)
  <2>1. ThreadsTyped'
    BY <1>0, <1>4, TodoTyped, SnapshotTyped, StepOfOp DEF list_reread, TypeOK
  <2> QED BY <1>4, <2>1, LocalStepTyped DEF list_reread
<1>5. CASE list_usage(t)
  <2> DEFINE todo == call[t].todo
             Rest(w) == [x \in DOMAIN todo \ {w} |-> todo[x]]
  <2>1. CASE \E out \in Outcome : Finish(t, out)
    BY <1>5, <2>1, FinishTyped, LocalStepTyped DEF list_usage
  <2>2. CASE \E w \in DOMAIN todo : call' = [call EXCEPT ![t].todo = Rest(w)] /\ UNCHANGED pc
    <3>1. PICK w \in DOMAIN todo : call' = [call EXCEPT ![t].todo = Rest(w)]
      BY <2>2
    <3>2. Rest(w) \in Snapshot
      BY SnapshotTyped
    <3>3. Goto(t, "list_usage")
      BY <1>5, <2>2 DEF list_usage, At, Goto, TypeOK
    <3>4. ThreadsTyped'
      BY <1>0, <3>1, <3>2, <3>3, TodoTyped, StepOfOp
    <3> QED BY <1>5, <3>4, LocalStepTyped DEF list_usage
  <2> QED BY <1>5, <2>1, <2>2 DEF list_usage, Outcome
<1> QED
  BY <1>1, <1>2, <1>3, <1>4, <1>5 DEF ListStep

LEMMA TypePower == ASSUME TypeOK, NEW t \in Threads, PowerStep(t) PROVE TypeOK'
<1> USE TypeSplit, Locals
<1>1. CASE start_check(t)
  <2>1. ThreadsTyped'
    BY <1>1, GotoTyped, FinishTyped, OpOfStep, StepOfOp, StoreTyped DEF start_check, At, Outcome
  <2> QED BY <1>1, <2>1, LocalStepTyped DEF start_check
<1>2. CASE start_reserve(t)
  <2>1. ThreadsTyped'
    BY <1>2, GotoTyped, FinishTyped, OpOfStep, StepOfOp DEF start_reserve, At, Outcome
  <2>2. worlds' \in [WorldIds -> Row] /\ inactive' \subseteq WorldIds
    BY <1>2, TableTyped DEF start_reserve, TypeOK
  <2> QED BY <1>2, <2>1, <2>2, RegistryStepTyped DEF start_reserve
<1>3. CASE start_boot(t)
  <2>1. ThreadsTyped'
    BY <1>3, GotoTyped, FinishTyped, OpOfStep, StepOfOp DEF start_boot, At, Outcome
  <2>2. machine' \in [WorldIds -> Machine]
    BY <1>3, DomainTyped DEF start_boot, HostUnchanged, TypeOK, Domain
  <2> QED BY <1>3, <2>1, <2>2, MachineStepTyped DEF start_boot
<1>4. CASE start_ready(t)
  <2>1. ThreadsTyped'
    BY <1>4, GotoTyped, KeyTyped, MachineKeyTyped, OpOfStep, StepOfOp DEF start_ready, At
  <2> QED BY <1>4, <2>1, LocalStepTyped DEF start_ready
<1>5. CASE start_probe(t)
  <2>1. ThreadsTyped'
    BY <1>5, FinishTyped DEF start_probe, Outcome
  <2>2. worlds' \in [WorldIds -> Row] /\ inactive' \subseteq WorldIds
    BY <1>5, StoppedTyped DEF start_probe, TypeOK
  <2> QED BY <1>5, <2>1, <2>2, RegistryStepTyped DEF start_probe
<1>6. CASE start_apply(t)
  BY <1>6, ApplyTyped, OpOfStep, StepOfOp DEF start_apply, At
<1>7. CASE stop_check(t)
  <2>1. ThreadsTyped'
    BY <1>7, GotoTyped, FinishTyped, OpOfStep, StepOfOp, StoreTyped DEF stop_check, At, Outcome
  <2> QED BY <1>7, <2>1, LocalStepTyped DEF stop_check
<1>8. CASE stop_shutdown(t)
  <2>1. ThreadsTyped'
    BY <1>8, GotoTyped, FinishTyped, OpOfStep, StepOfOp DEF stop_shutdown, At, Outcome
  <2>2. machine' \in [WorldIds -> Machine]
    BY <1>8, DomainTyped DEF stop_shutdown, HostUnchanged, TypeOK, Domain
  <2> QED BY <1>8, <2>1, <2>2, MachineStepTyped DEF stop_shutdown
<1>9. CASE stop_record(t)
  <2>1. ThreadsTyped'
    BY <1>9, GotoTyped, FinishTyped, OpOfStep, StepOfOp DEF stop_record, At, Outcome
  <2>2. worlds' \in [WorldIds -> Row] /\ inactive' \subseteq WorldIds
    BY <1>9, StoppedTyped DEF stop_record, TypeOK
  <2> QED BY <1>9, <2>1, <2>2, RegistryStepTyped DEF stop_record
<1> QED
  BY <1>1, <1>2, <1>3, <1>4, <1>5, <1>6, <1>7, <1>8, <1>9 DEF PowerStep

LEMMA AfterCleanupTyped ==
    ASSUME NEW op \in {"create", "delete"}, NEW done \in BOOLEAN
    PROVE  AfterCleanup(op, done) \in StepsOf[op] /\ AfterCleanup(op, done) # "inspect"
BY StepOfOp DEF AfterCleanup, CreateSteps

LEMMA TypeLocked == ASSUME TypeOK, NEW t \in Threads, LockedStep(t) PROVE TypeOK'
<1> USE TypeSplit, Locals
<1>1. CASE delete_mark(t)
  <2>1. ThreadsTyped'
    BY <1>1, GotoTyped, FinishTyped, OpOfStep, StepOfOp DEF delete_mark, At, Outcome
  <2>2. worlds' \in [WorldIds -> Row] /\ inactive' \subseteq WorldIds
    BY <1>1, TableTyped DEF delete_mark, TypeOK
  <2> QED BY <1>1, <2>1, <2>2, RegistryStepTyped DEF delete_mark
<1>2. CASE remove_domain(t)
  <2>1. call[t].op \in {"create", "delete"}
    BY <1>2, OpOfStep DEF remove_domain, At
  <2>2. ThreadsTyped'
    BY <1>2, <2>1, GotoTyped, AfterCleanupTyped, StepOfOp DEF remove_domain
  <2>3. machine' \in [WorldIds -> Machine]
    <3>1. \/ machine' = machine
          \/ machine' = [machine EXCEPT ![W(t)].domain = "none"]
          \/ machine' = [machine EXCEPT ![W(t)].domain = "off"]
      BY <1>2 DEF remove_domain, HostUnchanged
    <3>2. "none" \in Domain /\ "off" \in Domain
      BY DEF Domain
    <3>3. machine \in [WorldIds -> Machine] /\ W(t) \in WorldIds
      BY DEF TypeOK
    <3>4. /\ [machine EXCEPT ![W(t)].domain = "none"] \in [WorldIds -> Machine]
          /\ [machine EXCEPT ![W(t)].domain = "off"] \in [WorldIds -> Machine]
      BY <3>2, <3>3, DomainTyped
    <3> QED BY <3>1, <3>3, <3>4
  <2> QED BY <1>2, <2>2, <2>3, MachineStepTyped DEF remove_domain
<1>3. CASE remove_files(t)
  <2>1. call[t].op \in {"create", "delete"}
    BY <1>3, OpOfStep DEF remove_files, At
  <2>2. PICK files, disk \in BOOLEAN :
          /\ machine' = [machine EXCEPT ![W(t)].files = files, ![W(t)].disk = disk,
                                        ![W(t)].key = IF disk THEN @ ELSE NoKey]
          /\ Goto(t, AfterCleanup(call[t].op, ~files /\ ~disk))
    BY <1>3 DEF remove_files
  <2>3. ThreadsTyped'
    BY <1>3, <2>1, <2>2, GotoTyped, AfterCleanupTyped DEF remove_files
  <2>4. machine' \in [WorldIds -> Machine]
    <3> DEFINE m == [machine[W(t)] EXCEPT !.files = files, !.disk = disk,
                                          !.key = IF disk THEN @ ELSE NoKey]
    <3>1. machine \in [WorldIds -> Machine] /\ machine[W(t)] \in Machine
      BY DEF TypeOK
    <3>2. m \in Machine
      BY <2>2, <3>1, ConstantsTyped DEF Machine
    <3>3. machine' = [machine EXCEPT ![W(t)] = m]
      BY <2>2, <3>1
    <3> QED BY <3>1, <3>2, <3>3
  <2> QED BY <1>3, <2>3, <2>4, MachineStepTyped DEF remove_files
<1>4. CASE delete_failed(t)
  <2>1. ThreadsTyped'
    BY <1>4, GotoTyped, FinishTyped, OpOfStep, StepOfOp DEF delete_failed, At, Outcome
  <2>2. worlds' \in [WorldIds -> Row] /\ inactive' \subseteq WorldIds
    BY <1>4, TableTyped DEF delete_failed, TypeOK
  <2> QED BY <1>4, <2>1, <2>2, RegistryStepTyped DEF delete_failed
<1>5. CASE delete_row(t)
  <2>1. ThreadsTyped'
    BY <1>5, GotoTyped, FinishTyped, OpOfStep, StepOfOp DEF delete_row, At, Outcome
  <2>2. worlds' \in [WorldIds -> Row] /\ inactive' \subseteq WorldIds
    BY <1>5, TableTyped DEF delete_row, TypeOK
  <2> QED BY <1>5, <2>1, <2>2, RegistryStepTyped DEF delete_row
<1>6. CASE rename_write(t)
  <2>1. ThreadsTyped'
    BY <1>6, GotoTyped, FinishTyped, OpOfStep, StepOfOp DEF rename_write, At, Outcome
  <2>2. worlds' \in [WorldIds -> Row] /\ inactive' \subseteq WorldIds
    BY <1>6, TableTyped, RequestTyped DEF rename_write, TypeOK
  <2> QED BY <1>6, <2>1, <2>2, RegistryStepTyped DEF rename_write
<1>7. CASE exec_check(t)
  <2>1. ThreadsTyped'
    BY <1>7, GotoTyped, FinishTyped, OpOfStep, StepOfOp DEF exec_check, At, Outcome
  <2> QED BY <1>7, <2>1, LocalStepTyped DEF exec_check
<1>8. CASE exec_run(t)
  <2>1. ThreadsTyped'
    BY <1>8, GotoTyped, FinishTyped, OpOfStep, StepOfOp DEF exec_run, At, Outcome
  <2> QED BY <1>8, <2>1, LocalStepTyped DEF exec_run
<1> QED
  BY <1>1, <1>2, <1>3, <1>4, <1>5, <1>6, <1>7, <1>8 DEF LockedStep

LEMMA AcceptTyped ==
    ASSUME TypeOK, NEW t \in Threads, NEW op \in Operation, NEW w \in WorldIds,
           NEW request \in Request, NEW s \in StepsOf[op], s # "inspect",
           Accept(t, op, w, request, s)
    PROVE  TypeOK'
<1> DEFINE c == [NoCall EXCEPT !.op = op, !.w = w, !.request = request]
<1>1. c \in Call /\ c.op = op
  BY NoCallTyped DEF Call
<1>2. ThreadsTyped'
  BY <1>1, MoveTyped DEF Accept, Goto
<1> QED
  BY <1>2, LocalStepTyped, TypeSplit DEF Accept

LEMMA TypeReceive == ASSUME TypeOK, NEW t \in Threads, Receive(t) PROVE TypeOK'
<1>1. \A w \in issued : w \in WorldIds
  BY DEF TypeOK
<1>2. Operation = {"create", "list", "get", "start", "stop", "delete", "rename", "exec"}
  BY DEF Operation
<1> QED
  BY <1>1, <1>2, AcceptTyped, ConstantsTyped, StepOfOp DEF Receive

LEMMA TypeEnvironment ==
    ASSUME TypeOK, (\E w \in WorldIds : GuestPowersOff(w) \/ GuestRekeys(w)) \/ Restart
    PROVE  TypeOK'
<1>1. ASSUME NEW w \in WorldIds, GuestPowersOff(w) \/ GuestRekeys(w) PROVE TypeOK'
  <2>1. machine' \in [WorldIds -> Machine]
    BY <1>1, ConstantsTyped DEF GuestPowersOff, GuestRekeys, TypeOK, Machine, Domain, KeyIds
  <2> QED BY <1>1, <2>1
       DEF GuestPowersOff, GuestRekeys, TypeOK, RegistryUnchanged, LocksUnchanged, At
<1>2. CASE Restart
  <2>1. worlds' \in [WorldIds -> Row]
    BY <1>2, InterruptedTyped DEF Restart, TypeOK
  <2>2. crashes' \in 0 .. MaxCrashes
    BY <1>2, ServiceAssumption DEF Restart, TypeOK
  <2>3. ThreadsTyped'
    BY <1>2, NoCallTyped DEF Restart, ThreadsTyped, Steps, At
  <2> QED BY <1>2, <2>1, <2>2, <2>3, TypeSplit DEF Restart, TypeOK, DataTyped
<1> QED
  BY <1>1, <1>2

LEMMA TypeStep == TypeOK /\ [Next]_vars => TypeOK'
<1> SUFFICES ASSUME TypeOK, [Next]_vars PROVE TypeOK'
  OBVIOUS
<1>1. CASE UNCHANGED vars
  BY <1>1 DEF vars, TypeOK, At
<1>2. ASSUME NEW t \in Threads, Receive(t) \/ Handle(t) PROVE TypeOK'
  BY <1>2, TypeReceive, TypeCreate, TypeRead, TypeReconcile, TypeList, TypePower, TypeLocked
  DEF Handle
<1>3. CASE (\E w \in WorldIds : GuestPowersOff(w) \/ GuestRekeys(w)) \/ Restart
  BY <1>3, TypeEnvironment
<1> QED
  BY <1>1, <1>2, <1>3 DEF Next

LEMMA TypeInit == Init => TypeOK
<1> SUFFICES ASSUME Init PROVE TypeOK
  OBVIOUS
<1>1. ThreadsTyped
  BY NoCallTyped DEF Init, ThreadsTyped, Steps, At
<1>2. NoMachine \in Machine
  BY ConstantsTyped DEF NoMachine, Machine, Domain
<1>3. DataTyped
  BY <1>2, ConstantsTyped, ServiceAssumption DEF Init, DataTyped
<1> QED
  BY <1>1, <1>3, TypeSplit

\* Every reachable state is well typed: a handler is always at a step of its
\* own operation, rows carry one of the known statuses, and reconcile_locked
\* makes no more inspections than its retry count allows.
THEOREM TypeCorrect == Spec => []TypeOK
BY TypeInit, TypeStep, PTL DEF Spec

-----------------------------------------------------------------------------
(* Mutual exclusion, from the inductive invariant TypeOK /\ LockInv *)

\* The thread keeps its operation, world and request; the others keep all.
SameWork(t) ==
    /\ \A u \in Threads \ {t} : call'[u] = call[u]
    /\ call'[t].op = call[t].op /\ call'[t].w = call[t].w
    /\ call'[t].request = call[t].request

Sections == WorldSteps \cup CreateSteps \cup {"final_read"}

LEMMA KeepsWork ==
    ASSUME TypeOK, NEW t \in Threads, NEW v,
           \/ UNCHANGED call
           \/ call' = [call EXCEPT ![t].stored = v]
           \/ call' = [call EXCEPT ![t].key = v]
           \/ call' = [call EXCEPT ![t].attempts = v]
           \/ call' = [call EXCEPT ![t].todo = v]
    PROVE  SameWork(t)
<1>1. call \in [Threads -> Call] /\ call[t] \in Call
  BY DEF TypeOK
<1>2. CASE UNCHANGED call BY <1>2 DEF SameWork
<1>3. CASE call' = [call EXCEPT ![t].stored = v] BY <1>1, <1>3 DEF SameWork, Call
<1>4. CASE call' = [call EXCEPT ![t].key = v] BY <1>1, <1>4 DEF SameWork, Call
<1>5. CASE call' = [call EXCEPT ![t].attempts = v] BY <1>1, <1>5 DEF SameWork, Call
<1>6. CASE call' = [call EXCEPT ![t].todo = v] BY <1>1, <1>6 DEF SameWork, Call
<1> QED BY <1>2, <1>3, <1>4, <1>5, <1>6

\* A step within the section of a world.
LEMMA StaysInWorld ==
    ASSUME TypeOK, LockInv, NEW t \in Threads, NEW s, Goto(t, s), SameWork(t),
           LocksUnchanged, InWorldSection(t)
    PROVE  LockInv'
BY DEF TypeOK, LockInv, Goto, SameWork, LocksUnchanged, InWorldSection, InCreateSection, W

\* A step within the section of a name; the insertion gives the thread its world.
LEMMA StaysInCreate ==
    ASSUME TypeOK, LockInv, NEW t \in Threads, NEW s, Goto(t, s),
           \A u \in Threads \ {t} : call'[u] = call[u],
           call'[t].op = call[t].op, call'[t].request = call[t].request,
           LocksUnchanged, InCreateSection(t)
    PROVE  LockInv'
BY DEF TypeOK, LockInv, Goto, LocksUnchanged, InWorldSection, InCreateSection, W

\* A step to a point outside the sections.
LEMMA StaysOutside ==
    ASSUME TypeOK, LockInv, NEW t \in Threads, NEW s, s \notin Sections, Goto(t, s),
           \A u \in Threads \ {t} : call'[u] = call[u], LocksUnchanged
    PROVE  LockInv'
BY DEF TypeOK, LockInv, Goto, LocksUnchanged, InWorldSection, InCreateSection, W, Sections,
       WorldSteps

LEMMA FinishOutside ==
    ASSUME TypeOK, LockInv, NEW t \in Threads, NEW out, Finish(t, out), LocksUnchanged
    PROVE  LockInv'
<1>1. "return" \notin Sections
  BY DEF Sections, WorldSteps, CreateSteps, ReconcilePoints
<1>2. \A u \in Threads \ {t} : call'[u] = call[u]
  BY DEF Finish, TypeOK
<1> QED
  BY <1>1, <1>2, StaysOutside DEF Finish

\* A key that nobody holds opens the section it stands for.
LEMMA Enters ==
    ASSUME TypeOK, LockInv, NEW t \in Threads, NEW s, NEW key, key \notin active,
           Acquire(t, key), Goto(t, s), \A u \in Threads \ {t} : call'[u] = call[u],
           InWorldSection(t)' => key = WorldKey(call'[t].w),
           InCreateSection(t)' => key = CreateKey(call'[t].request.name)
    PROVE  LockInv'
<1>1. /\ \A u \in Threads \ {t} : pc'[u] = pc[u] /\ call'[u] = call[u] /\ guards'[u] = guards[u]
      /\ guards'[t] = guards[t] \cup {key}
  BY DEF TypeOK, Acquire, Goto
<1>2. \A u \in Threads : guards'[u] \subseteq active'
  BY <1>1 DEF LockInv, Acquire
<1>3. \A u, v \in Threads : u # v => guards'[u] \cap guards'[v] = {}
  BY <1>1 DEF LockInv
<1>4. \A u \in Threads : InWorldSection(u)' => WorldKey(W(u))' \in guards'[u]
  BY <1>1 DEF LockInv, InWorldSection, W, WorldKey
<1>5. \A u \in Threads : InCreateSection(u)' => CreateKey(call[u].request.name)' \in guards'[u]
  BY <1>1 DEF LockInv, InCreateSection, CreateKey
<1> QED
  BY <1>2, <1>3, <1>4, <1>5 DEF LockInv

LEMMA Leaves ==
    ASSUME TypeOK, LockInv, NEW t \in Threads, NEW s, s \notin Sections, DropGuards(t),
           Goto(t, s), \A u \in Threads \ {t} : call'[u] = call[u]
    PROVE  LockInv'
<1>1. /\ \A u \in Threads \ {t} : pc'[u] = pc[u] /\ call'[u] = call[u] /\ guards'[u] = guards[u]
      /\ guards'[t] = {} /\ pc'[t] = s
  BY DEF TypeOK, DropGuards, Goto
<1>2. \A u \in Threads : guards'[u] \subseteq active'
  BY <1>1 DEF LockInv, DropGuards
<1>3. \A u, v \in Threads : u # v => guards'[u] \cap guards'[v] = {}
  BY <1>1 DEF LockInv
<1>4. \A u \in Threads : InWorldSection(u)' => WorldKey(W(u))' \in guards'[u]
  BY <1>1 DEF LockInv, InWorldSection, W, WorldKey, Sections
<1>5. \A u \in Threads : InCreateSection(u)' => CreateKey(call[u].request.name)' \in guards'[u]
  BY <1>1 DEF LockInv, InCreateSection, CreateKey, Sections, WorldSteps
<1> QED
  BY <1>2, <1>3, <1>4, <1>5 DEF LockInv

LEMMA LockCreate == ASSUME TypeOK, LockInv, NEW t \in Threads, CreateStep(t) PROVE LockInv'
<1> USE Locals
<1>1. CASE lock_create(t)
  <2>1. CreateKey(call[t].request.name) \notin active
        /\ Acquire(t, CreateKey(call[t].request.name)) /\ Goto(t, "create_lookup") /\ UNCHANGED call
    BY <1>1 DEF lock_create
  <2>2. ~InWorldSection(t)'
    BY <2>1 DEF Goto, TypeOK, InWorldSection, WorldSteps, ReconcilePoints
  <2> QED BY <2>1, <2>2, Enters
<1>2. CASE ~lock_create(t)
  <2>1. pc[t] \in CreateSteps /\ LocksUnchanged
    BY <1>2 DEF CreateStep, create_lookup, create_insert, create_overlay, create_directory,
                create_define, create_boot, create_wait, create_setup, create_running,
                create_failed, CreateSteps, At, LocalStep, MachineStep, RegistryStep
  <2>2. InCreateSection(t)
    BY <2>1, OpOfStep DEF InCreateSection, CreateSteps
  <2>3. CASE \E out : Finish(t, out)
    BY <2>1, <2>3, FinishOutside
  <2>4. CASE ~\E out : Finish(t, out)
    <3>1. /\ \E s : Goto(t, s)
          /\ \/ UNCHANGED call
             \/ \E w : call' = [call EXCEPT ![t].w = w]
             \/ \E k : call' = [call EXCEPT ![t].key = k]
      BY <1>2, <2>4 DEF CreateStep, create_lookup, create_insert, create_overlay,
            create_directory, create_define, create_boot, create_wait, create_setup,
            create_running, create_failed
    <3>2. /\ \A u \in Threads \ {t} : call'[u] = call[u]
          /\ call'[t].op = call[t].op /\ call'[t].request = call[t].request
      BY <3>1 DEF TypeOK, Call
    <3> QED BY <2>1, <2>2, <3>1, <3>2, StaysInCreate
  <2> QED BY <2>3, <2>4
<1> QED BY <1>1, <1>2

LEMMA LockRead ==
    ASSUME TypeOK, LockInv, NEW t \in Threads,
           read(t) \/ get_read(t) \/ try_lock_world(t) \/ final_read(t) \/ Respond(t)
    PROVE  LockInv'
<1> USE Locals
<1>0. "lock" \notin Sections /\ "idle" \notin Sections
  BY DEF Sections, WorldSteps, CreateSteps, ReconcilePoints
<1>1. CASE read(t) \/ get_read(t)
  <2>1. LocksUnchanged
    BY <1>1 DEF read, get_read, LocalStep
  <2>2. \/ \E out : Finish(t, out)
        \/ Goto(t, "lock") /\ \A u \in Threads \ {t} : call'[u] = call[u]
    BY <1>1 DEF read, get_read, TypeOK
  <2> QED BY <1>0, <2>1, <2>2, FinishOutside, StaysOutside
<1>2. CASE try_lock_world(t)
  <2>1. CASE Finish(t, "conflict") /\ LocksUnchanged
    BY <2>1, FinishOutside
  <2>2. CASE /\ WorldKey(W(t)) \notin active
             /\ Acquire(t, WorldKey(W(t)))
             /\ Goto(t, StepUnderLock(call[t]))
             /\ call' = [call EXCEPT ![t].attempts = 0]
    <3>1. SameWork(t)
      BY <2>2, KeepsWork
    <3>2. call[t].op # "create"
      BY <1>2, OpOfStep DEF try_lock_world, At
    <3>3. ~InCreateSection(t)' /\ WorldKey(W(t)) = WorldKey(call'[t].w)
      BY <3>1, <3>2 DEF InCreateSection, SameWork, W
    <3> QED BY <2>2, <3>1, <3>3, Enters DEF SameWork
  <2> QED BY <1>2, <2>1, <2>2 DEF try_lock_world
<1>3. CASE final_read(t)
  BY <1>3, FinishOutside DEF final_read, LocalStep
<1>4. CASE Respond(t)
  <2>1. \A u \in Threads \ {t} : call'[u] = call[u]
    BY <1>4 DEF Respond, TypeOK
  <2> QED BY <1>0, <1>4, <2>1, Leaves DEF Respond
<1> QED BY <1>1, <1>2, <1>3, <1>4

LEMMA LockReconcile ==
    ASSUME TypeOK, LockInv, NEW t \in Threads, ReconcileSteps(t) PROVE LockInv'
<1> USE Locals
<1>1. pc[t] \in ReconcilePoints /\ LocksUnchanged
  BY DEF ReconcileSteps, inspect, reconcile_reserve, reconcile_running, reconcile_stopped,
         reconcile_error, apply_world, ReconcilePoints, At, LocalStep, RegistryStep
<1>2. InWorldSection(t)
  BY <1>1, OpOfStep DEF InWorldSection, WorldSteps, ReconcilePoints
<1>3. CASE \E out : Finish(t, out)
  BY <1>1, <1>3, FinishOutside
<1>4. CASE ~\E out : Finish(t, out)
  <2>1. /\ \E s : Goto(t, s)
        /\ UNCHANGED call \/ (\E k : call' = [call EXCEPT ![t].key = k])
                          \/ (\E n : call' = [call EXCEPT ![t].attempts = n])
    <3>1. pc' = pc => Goto(t, pc[t])
      BY DEF Goto, TypeOK
    <3> QED BY <1>4, <3>1 DEF ReconcileSteps, inspect, retry, reconcile_reserve, reconcile_running,
              reconcile_stopped, reconcile_error, apply_world
  <2>2. SameWork(t)
    BY <2>1, KeepsWork
  <2> QED BY <1>1, <1>2, <2>1, <2>2, StaysInWorld
<1> QED BY <1>3, <1>4

LEMMA LockList == ASSUME TypeOK, LockInv, NEW t \in Threads, ListStep(t) PROVE LockInv'
<1> USE Locals
<1>0. /\ "list_next" \notin Sections /\ "list_reread" \notin Sections /\ "list_usage" \notin Sections
  BY DEF Sections, WorldSteps, CreateSteps, ReconcilePoints
<1>1. CASE list_read(t) \/ list_reread(t)
  <2>1. \A u \in Threads \ {t} : call'[u] = call[u]
    BY <1>1 DEF list_read, list_reread, TypeOK
  <2> QED BY <1>0, <1>1, <2>1, StaysOutside DEF list_read, list_reread, LocalStep
<1>2. CASE list_next(t)
  <2>1. \A u \in Threads \ {t} : call'[u] = call[u]
    BY <1>2 DEF list_next, TypeOK
  <2>2. At(t, "list_next") /\ pc' = pc => Goto(t, "list_next")
    BY DEF At, Goto, TypeOK
  <2>3. CASE LocksUnchanged /\ (Goto(t, "list_reread") \/ Goto(t, "list_next"))
    BY <1>0, <2>1, <2>3, StaysOutside
  <2>4. CASE \E w \in DOMAIN call[t].todo :
               /\ WorldKey(w) \notin active
               /\ Acquire(t, WorldKey(w))
               /\ call'[t].w = w /\ call'[t].op = call[t].op
               /\ \E s : Goto(t, s)
    <3>1. call[t].op = "list"
      <4>1. pc[t] = "list_next"
        BY <1>2 DEF list_next, At
      <4> QED BY <4>1, OpOfStep
    <3>2. ~InCreateSection(t)'
      BY <2>4, <3>1 DEF InCreateSection
    <3> QED BY <2>1, <2>4, <3>2, Enters
  <2>5. CASE \E w \in DOMAIN call[t].todo :
               /\ WorldKey(w) \notin active
               /\ Acquire(t, WorldKey(w))
               /\ \E rest, row : call' = [call EXCEPT ![t].todo = rest, ![t].w = w,
                                                     ![t].stored = row, ![t].attempts = 0]
               /\ \E s : Goto(t, s)
    <3>1. call \in [Threads -> Call] /\ call[t] \in Call
      BY DEF TypeOK
    <3> QED BY <2>4, <2>5, <3>1 DEF Call
  <2> QED BY <1>2, <2>2, <2>3, <2>5 DEF list_next
<1>3. CASE list_unlock(t)
  BY <1>0, <1>3, Leaves DEF list_unlock
<1>4. CASE list_usage(t)
  <2>1. LocksUnchanged
    BY <1>4 DEF list_usage, LocalStep
  <2>2. \/ \E out : Finish(t, out)
        \/ Goto(t, "list_usage") /\ \A u \in Threads \ {t} : call'[u] = call[u]
    BY <1>4 DEF list_usage, Goto, At, TypeOK
  <2> QED BY <1>0, <2>1, <2>2, FinishOutside, StaysOutside
<1> QED BY <1>1, <1>2, <1>3, <1>4 DEF ListStep

LEMMA LockPower == ASSUME TypeOK, LockInv, NEW t \in Threads, PowerStep(t) PROVE LockInv'
<1> USE Locals
<1>1. /\ LocksUnchanged
      /\ pc[t] \in {"start_check", "start_reserve", "start_boot", "start_ready", "start_probe",
                    "start_apply", "stop_check", "stop_shutdown", "stop_record"}
  BY DEF PowerStep, start_check, start_reserve, start_boot, start_ready, start_probe, start_apply,
         stop_check, stop_shutdown, stop_record, apply_world, At, LocalStep, RegistryStep, MachineStep
<1>2. InWorldSection(t)
  BY <1>1, OpOfStep DEF InWorldSection, WorldSteps
<1>3. CASE \E out : Finish(t, out)
  BY <1>1, <1>3, FinishOutside
<1>4. CASE ~\E out : Finish(t, out)
  <2>1. /\ \E s : Goto(t, s)
        /\ UNCHANGED call \/ (\E k : call' = [call EXCEPT ![t].key = k])
                          \/ (\E row : call' = [call EXCEPT ![t].stored = row])
    BY <1>4 DEF PowerStep, start_check, start_reserve, start_boot, start_ready, start_probe,
                start_apply, stop_check, stop_shutdown, stop_record, apply_world
  <2>2. SameWork(t)
    BY <2>1, KeepsWork
  <2> QED BY <1>1, <1>2, <2>1, <2>2, StaysInWorld
<1> QED BY <1>3, <1>4

LEMMA LockLocked == ASSUME TypeOK, LockInv, NEW t \in Threads, LockedStep(t) PROVE LockInv'
<1> USE Locals
<1>1. /\ LocksUnchanged
      /\ pc[t] \in {"delete_mark", "remove_domain", "remove_files", "delete_failed", "delete_row",
                    "rename_write", "exec_check", "exec_run"}
  BY DEF LockedStep, delete_mark, remove_domain, remove_files, delete_failed, delete_row,
         rename_write, exec_check, exec_run, At, LocalStep, RegistryStep, MachineStep
<1>2. InWorldSection(t) \/ InCreateSection(t)
  BY <1>1, OpOfStep DEF InWorldSection, InCreateSection, WorldSteps
<1>3. CASE \E out : Finish(t, out)
  BY <1>1, <1>3, FinishOutside
<1>4. CASE ~\E out : Finish(t, out)
  <2>1. (\E s : Goto(t, s)) /\ UNCHANGED call
    BY <1>4 DEF LockedStep, delete_mark, remove_domain, remove_files, delete_failed, delete_row,
                rename_write, exec_check, exec_run
  <2>2. SameWork(t)
    BY <2>1, KeepsWork
  <2> QED BY <1>1, <1>2, <2>1, <2>2, StaysInWorld, StaysInCreate DEF SameWork
<1> QED BY <1>3, <1>4

LEMMA LockReceive == ASSUME TypeOK, LockInv, NEW t \in Threads, Receive(t) PROVE LockInv'
<1>1. PICK s \in {"create_lock", "list_read", "get_read", "read", "lock"} :
         Goto(t, s) /\ LocksUnchanged /\ \A u \in Threads \ {t} : call'[u] = call[u]
  BY DEF Receive, Accept, LocalStep, TypeOK
<1>2. s \notin Sections
  BY DEF Sections, WorldSteps, CreateSteps, ReconcilePoints
<1> QED BY <1>1, <1>2, StaysOutside

LEMMA LockStep == TypeOK /\ LockInv /\ [Next]_vars => LockInv'
<1> SUFFICES ASSUME TypeOK, LockInv, [Next]_vars PROVE LockInv'
  OBVIOUS
<1>1. CASE UNCHANGED <<active, guards, pc, call>>
  BY <1>1 DEF LockInv, InWorldSection, InCreateSection, W
<1>2. ASSUME NEW t \in Threads, Receive(t) \/ Handle(t) PROVE LockInv'
  BY <1>2, LockReceive, LockCreate, LockRead, LockReconcile, LockList, LockPower, LockLocked
  DEF Handle
<1>3. CASE \E w \in WorldIds : GuestPowersOff(w) \/ GuestRekeys(w)
  BY <1>1, <1>3 DEF GuestPowersOff, GuestRekeys, LocksUnchanged
<1>4. CASE Restart
  BY <1>4 DEF Restart, LockInv, InWorldSection, InCreateSection, WorldSteps, ReconcilePoints,
              CreateSteps
<1> QED
  BY <1>1, <1>2, <1>3, <1>4 DEF Next, vars

LEMMA LockInit == Init => LockInv
BY DEF Init, LockInv, InWorldSection, InCreateSection, WorldSteps, ReconcilePoints, CreateSteps

LEMMA LockExcludes == LockInv => OneOperationPerWorld
BY DEF LockInv, OneOperationPerWorld

\* operations.rs serializes the handlers: for any number of connections, names
\* and worlds, and whatever fails, no two handlers are inside the section of the
\* same world, and no two creates of one name overlap.
THEOREM MutualExclusion == Spec => []OneOperationPerWorld
<1>1. Init => TypeOK /\ LockInv
  BY TypeInit, LockInit
<1>2. TypeOK /\ LockInv /\ [Next]_vars => (TypeOK /\ LockInv)'
  BY TypeStep, LockStep
<1>3. TypeOK /\ LockInv => OneOperationPerWorld
  BY LockExcludes
<1> QED
  BY <1>1, <1>2, <1>3, PTL DEF Spec

-----------------------------------------------------------------------------
(* What the registry operations do to the rows *)

\* The fields of a row that others than its name and its disk depend on.
SameRow(ws, vs, w) ==
    /\ vs[w].status = ws[w].status /\ vs[w].ssh = ws[w].ssh
    /\ vs[w].compute_reserved = ws[w].compute_reserved /\ vs[w].want = ws[w].want

LEMMA RowFields == ASSUME NEW row \in Row
                   PROVE  /\ row.status \in WorldStatus \cup {"absent"} /\ row.ssh \in KeyIds
                          /\ row.compute_reserved \in BOOLEAN /\ row.name \in Names
BY DEF Row

LEMMA NoRowFields == /\ NoRow.status = "absent" /\ NoRow.ssh = NoKey
                     /\ NoRow.compute_reserved = FALSE
BY DEF NoRow

\* One row changes at most.
OnlyRow(ws, vs, w) == \A x \in WorldIds \ {w} : vs[x] = ws[x]

\* The row of a world changes in its status, and keeps its name and its shape.
Becomes(ws, vs, w, status) ==
    /\ OnlyRow(ws, vs, w)
    /\ vs[w].status = status /\ vs[w].name = ws[w].name /\ vs[w].want = ws[w].want

LEMMA Inserts ==
    ASSUME NEW ws \in [WorldIds -> Row], NEW w \in WorldIds, NEW q \in Request
    PROVE  LET vs == insert_world(ws, w, q)
           IN  /\ OnlyRow(ws, vs, w)
               /\ vs[w].status = "provisioning" /\ vs[w].name = q.name
               /\ vs[w].ssh = NoKey /\ vs[w].compute_reserved = TRUE /\ vs[w].want = q.want
BY DEF insert_world, OnlyRow

LEMMA Holds ==
    ASSUME NEW ws \in [WorldIds -> Row], NEW w \in WorldIds
    PROVE  LET vs == hold_resources(ws, w)
           IN  Becomes(ws, vs, w, ws[w].status) /\ vs[w].ssh = ws[w].ssh
               /\ vs[w].compute_reserved = TRUE
BY DEF hold_resources, OnlyRow, Becomes, Row

LEMMA MarksRunning ==
    ASSUME NEW ws \in [WorldIds -> Row], NEW w \in WorldIds, NEW k \in KeyIds
    PROVE  LET vs == mark_host_running(ws, w, k)
           IN  Becomes(ws, vs, w, "running") /\ vs[w].ssh = k
               /\ vs[w].compute_reserved = ws[w].compute_reserved
BY DEF mark_host_running, OnlyRow, Becomes, Row

LEMMA MarksStopped ==
    ASSUME NEW ws \in [WorldIds -> Row], NEW w \in WorldIds, NEW b \in DiskBytes
    PROVE  LET vs == mark_stopped(ws, w, b)
           IN  Becomes(ws, vs, w, "stopped") /\ vs[w].ssh = ws[w].ssh
               /\ vs[w].compute_reserved = FALSE
BY DEF mark_stopped, release_resources, OnlyRow, Becomes, Row

LEMMA MarksError ==
    ASSUME NEW ws \in [WorldIds -> Row], NEW w \in WorldIds
    PROVE  LET vs == mark_error(ws, w)
           IN  Becomes(ws, vs, w, "error") /\ vs[w].ssh = ws[w].ssh
               /\ vs[w].compute_reserved = ws[w].compute_reserved
BY DEF mark_error, OnlyRow, Becomes, Row

LEMMA MarksDestroying ==
    ASSUME NEW ws \in [WorldIds -> Row], NEW w \in WorldIds
    PROVE  LET vs == mark_destroying(ws, w)
           IN  Becomes(ws, vs, w, "destroying") /\ vs[w].ssh = ws[w].ssh
               /\ vs[w].compute_reserved = ws[w].compute_reserved
BY DEF mark_destroying, OnlyRow, Becomes, Row

LEMMA Renames ==
    ASSUME NEW ws \in [WorldIds -> Row], NEW w \in WorldIds, NEW n \in Names
    PROVE  LET vs == rename(ws, w, n)
           IN  OnlyRow(ws, vs, w) /\ SameRow(ws, vs, w) /\ vs[w].name = n
BY DEF rename, OnlyRow, SameRow, Row

LEMMA Deletes ==
    ASSUME NEW ws \in [WorldIds -> Row], NEW w \in WorldIds
    PROVE  OnlyRow(ws, delete(ws, w), w) /\ delete(ws, w)[w] = NoRow
BY DEF delete, OnlyRow

LEMMA Interrupts ==
    ASSUME NEW ws \in [WorldIds -> Row], NEW w \in WorldIds
    PROVE  LET vs == reconcile_interrupted(ws)
           IN  /\ vs[w].status = IF ws[w].status \in {"provisioning", "destroying"}
                                 THEN "error" ELSE ws[w].status
               /\ vs[w].name = ws[w].name /\ vs[w].ssh = ws[w].ssh
               /\ vs[w].compute_reserved = ws[w].compute_reserved /\ vs[w].want = ws[w].want
               /\ ws[w].status \notin {"provisioning", "destroying"} => vs[w] = ws[w]
BY DEF reconcile_interrupted, Row

-----------------------------------------------------------------------------
(* What the steps of a thread do to the registry, by their effect *)

Moves(t) == Receive(t) \/ Handle(t)

\* The step that a thread takes next is the one its pc names.
LEMMA Dispatch ==
    ASSUME NEW t, Moves(t)
    PROVE  /\ pc[t] = "idle" => Receive(t)
           /\ pc[t] = "return" => Respond(t)
           /\ pc[t] = "create_lock" => lock_create(t)
           /\ pc[t] = "lock" => try_lock_world(t)
           /\ pc[t] = "create_lookup" => create_lookup(t)
           /\ pc[t] = "create_insert" => create_insert(t)
           /\ pc[t] = "create_overlay" => create_overlay(t)
           /\ pc[t] = "create_directory" => create_directory(t)
           /\ pc[t] = "create_define" => create_define(t)
           /\ pc[t] = "create_boot" => create_boot(t)
           /\ pc[t] = "create_wait" => create_wait(t)
           /\ pc[t] = "create_setup" => create_setup(t)
           /\ pc[t] = "create_running" => create_running(t)
           /\ pc[t] = "create_failed" => create_failed(t)
           /\ pc[t] = "read" => read(t)
           /\ pc[t] = "get_read" => get_read(t)
           /\ pc[t] = "inspect" => inspect(t)
           /\ pc[t] = "reconcile_reserve" => reconcile_reserve(t)
           /\ pc[t] = "reconcile_running" => reconcile_running(t)
           /\ pc[t] = "reconcile_stopped" => reconcile_stopped(t)
           /\ pc[t] = "reconcile_error" => reconcile_error(t)
           /\ pc[t] = "list_read" => list_read(t)
           /\ pc[t] = "list_next" => list_next(t)
           /\ pc[t] = "list_unlock" => list_unlock(t)
           /\ pc[t] = "list_reread" => list_reread(t)
           /\ pc[t] = "list_usage" => list_usage(t)
           /\ pc[t] = "start_check" => start_check(t)
           /\ pc[t] = "start_reserve" => start_reserve(t)
           /\ pc[t] = "start_boot" => start_boot(t)
           /\ pc[t] = "start_ready" => start_ready(t)
           /\ pc[t] = "start_probe" => start_probe(t)
           /\ pc[t] = "start_apply" => start_apply(t)
           /\ pc[t] = "stop_check" => stop_check(t)
           /\ pc[t] = "stop_shutdown" => stop_shutdown(t)
           /\ pc[t] = "stop_record" => stop_record(t)
           /\ pc[t] = "delete_mark" => delete_mark(t)
           /\ pc[t] = "remove_domain" => remove_domain(t)
           /\ pc[t] = "remove_files" => remove_files(t)
           /\ pc[t] = "delete_failed" => delete_failed(t)
           /\ pc[t] = "delete_row" => delete_row(t)
           /\ pc[t] = "rename_write" => rename_write(t)
           /\ pc[t] = "exec_check" => exec_check(t)
           /\ pc[t] = "exec_run" => exec_run(t)
           /\ pc[t] = "final_read" => final_read(t)
BY DEF Moves, Receive, Accept, Handle, CreateStep, lock_create, create_lookup, create_insert,
     create_overlay, create_directory, create_define, create_boot, create_wait, create_setup,
     create_running, create_failed, read, get_read, try_lock_world, ReconcileSteps, inspect,
     reconcile_reserve, reconcile_running, reconcile_stopped, reconcile_error, ListStep,
     list_read, list_next, list_unlock, list_reread, list_usage, PowerStep, start_check,
     start_reserve, start_boot, start_ready, start_probe, start_apply, stop_check, stop_shutdown,
     stop_record, LockedStep, delete_mark, remove_domain, remove_files, delete_failed, delete_row,
     rename_write, exec_check, exec_run, final_read, Respond, At

\* The row of the thread's world keeps its name, its shape and its identity.
KeepsIdentity(t) ==
    /\ Stored(worlds, W(t)) /\ UNCHANGED issued
    /\ OnlyRow(worlds, worlds', W(t))
    /\ worlds'[W(t)].name = worlds[W(t)].name /\ worlds'[W(t)].want = worlds[W(t)].want
    /\ worlds'[W(t)].ssh = worlds[W(t)].ssh

Inserted(t) ==
    /\ At(t, "create_insert") /\ Goto(t, "create_overlay")
    /\ \E w \in WorldIds \ issued :
          /\ issued' = issued \cup {w}
          /\ OnlyRow(worlds, worlds', w)
          /\ worlds'[w].status = "provisioning" /\ worlds'[w].ssh = NoKey
          /\ worlds'[w].compute_reserved = TRUE /\ worlds'[w].want \in Shapes
          /\ ensure_capacity(worlds, worlds'[w].want)
          /\ ~NameTaken(worlds, worlds'[w].name)
          /\ call' = [call EXCEPT ![t].w = w]

Reserves(t) ==
    /\ pc[t] \in {"reconcile_reserve", "start_reserve"} /\ KeepsIdentity(t)
    /\ worlds'[W(t)].status = worlds[W(t)].status /\ worlds'[W(t)].compute_reserved = TRUE
    /\ At(t, "start_reserve") => reserve_fits(worlds, W(t))

Errs(t) ==
    /\ pc[t] \in {"reconcile_running", "start_apply", "create_failed", "reconcile_error",
                  "delete_failed"}
    /\ KeepsIdentity(t)
    /\ worlds'[W(t)].status = "error"
    /\ worlds'[W(t)].compute_reserved = worlds[W(t)].compute_reserved

Stops(t) ==
    /\ pc[t] \in {"reconcile_stopped", "start_probe", "stop_record"} /\ KeepsIdentity(t)
    /\ worlds'[W(t)].status = "stopped" /\ worlds'[W(t)].compute_reserved = FALSE

Dooms(t) ==
    /\ At(t, "delete_mark") /\ Goto(t, "remove_domain") /\ UNCHANGED call
    /\ KeepsIdentity(t)
    /\ worlds'[W(t)].status = "destroying"
    /\ worlds'[W(t)].compute_reserved = worlds[W(t)].compute_reserved

\* The identity of the guest is written: the first one by the creation, the
\* stored one by the others.
Runs(t) ==
    /\ Stored(worlds, W(t)) /\ UNCHANGED issued
    /\ OnlyRow(worlds, worlds', W(t))
    /\ worlds'[W(t)].status = "running" /\ worlds'[W(t)].name = worlds[W(t)].name
    /\ worlds'[W(t)].want = worlds[W(t)].want
    /\ worlds'[W(t)].compute_reserved = worlds[W(t)].compute_reserved
    /\ worlds'[W(t)].ssh = call[t].key
    /\ \/ At(t, "create_running")
       \/ /\ pc[t] \in {"reconcile_running", "start_apply"}
          /\ call[t].stored.ssh # NoKey /\ call[t].stored.ssh = call[t].key

Renamed(t) ==
    /\ At(t, "rename_write") /\ UNCHANGED issued
    /\ Stored(worlds, W(t))
    /\ OnlyRow(worlds, worlds', W(t)) /\ SameRow(worlds, worlds', W(t))
    /\ ~\E x \in StoredIds(worlds) \ {W(t)} : worlds[x].name = worlds'[W(t)].name

Deleted(t) ==
    /\ At(t, "delete_row") /\ UNCHANGED issued
    /\ Stored(worlds, W(t)) /\ OnlyRow(worlds, worlds', W(t)) /\ worlds'[W(t)] = NoRow

RowEffect(t) ==
    \/ RegistryUnchanged
    \/ Inserted(t) \/ Reserves(t) \/ Errs(t) \/ Stops(t) \/ Dooms(t) \/ Runs(t) \/ Renamed(t)
    \/ Deleted(t)

LEMMA EffectReconcile ==
    ASSUME TypeOK, NEW t \in Threads, ReconcileSteps(t) PROVE RowEffect(t)
<1> USE Locals DEF RegistryStep
<1>0. worlds \in [WorldIds -> Row]
  BY DEF TypeOK
<1>1. CASE inspect(t)
  BY <1>1 DEF inspect, LocalStep, RowEffect
<1>2. CASE reconcile_reserve(t)
  <2>1. CASE worlds' = hold_resources(worlds, W(t)) /\ Stored(worlds, W(t))
    <3>1. Reserves(t)
      BY <1>0, <1>2, <2>1, Holds DEF reconcile_reserve, Reserves, KeepsIdentity, Becomes, At
    <3> QED BY <3>1 DEF RowEffect
  <2> QED BY <1>2, <2>1 DEF reconcile_reserve, RowEffect, RegistryUnchanged
<1>3. CASE reconcile_running(t)
  <2>1. CASE worlds' = mark_error(worlds, W(t)) /\ Stored(worlds, W(t))
    <3>1. Errs(t)
      BY <1>0, <1>3, <2>1, MarksError DEF reconcile_running, apply_world, Errs, KeepsIdentity, Becomes, At
    <3> QED BY <3>1 DEF RowEffect
  <2>2. CASE /\ worlds' = mark_host_running(worlds, W(t), call[t].key) /\ Stored(worlds, W(t))
             /\ call[t].stored.ssh # NoKey /\ call[t].stored.ssh = call[t].key
    <3>1. Runs(t)
      BY <1>0, <1>3, <2>2, MarksRunning DEF reconcile_running, apply_world, Runs, Becomes, At
    <3> QED BY <3>1 DEF RowEffect
  <2> QED BY <1>3, <2>1, <2>2 DEF reconcile_running, apply_world
<1>4. CASE reconcile_stopped(t)
  <2>1. CASE record_stopped(t, {W(t)})
    <3>0. PICK bytes \in DiskBytes : worlds' = mark_stopped(worlds, W(t), bytes) /\ Stored(worlds, W(t))
      BY <2>1 DEF record_stopped
    <3>1. Stops(t)
      BY <1>0, <1>4, <3>0, MarksStopped DEF reconcile_stopped, Stops, KeepsIdentity, Becomes, At
    <3> QED BY <3>1 DEF RowEffect
  <2> QED BY <1>4, <2>1 DEF reconcile_stopped, RowEffect, RegistryUnchanged
<1>5. CASE reconcile_error(t)
  <2>1. CASE worlds' = mark_error(worlds, W(t)) /\ Stored(worlds, W(t))
    <3>1. Errs(t)
      BY <1>0, <1>5, <2>1, MarksError DEF reconcile_error, Errs, KeepsIdentity, Becomes, At
    <3> QED BY <3>1 DEF RowEffect
  <2> QED BY <1>5, <2>1 DEF reconcile_error, RowEffect, RegistryUnchanged
<1> QED BY <1>1, <1>2, <1>3, <1>4, <1>5 DEF ReconcileSteps

LEMMA EffectPower == ASSUME TypeOK, NEW t \in Threads, PowerStep(t) PROVE RowEffect(t)
<1> USE Locals DEF RegistryStep
<1>0. worlds \in [WorldIds -> Row]
  BY DEF TypeOK
<1>1. CASE start_check(t) \/ start_boot(t) \/ start_ready(t) \/ stop_check(t) \/ stop_shutdown(t)
  BY <1>1 DEF start_check, start_boot, start_ready, stop_check, stop_shutdown, LocalStep, MachineStep,
              RowEffect
<1>2. CASE start_reserve(t)
  <2>1. CASE /\ worlds' = hold_resources(worlds, W(t)) /\ Stored(worlds, W(t))
             /\ reserve_fits(worlds, W(t))
    <3>1. Reserves(t)
      BY <1>0, <1>2, <2>1, Holds DEF start_reserve, Reserves, KeepsIdentity, Becomes, At
    <3> QED BY <3>1 DEF RowEffect
  <2> QED BY <1>2, <2>1 DEF start_reserve, RowEffect, RegistryUnchanged
<1>3. CASE start_apply(t)
  <2>1. CASE worlds' = mark_error(worlds, W(t)) /\ Stored(worlds, W(t))
    <3>1. Errs(t)
      BY <1>0, <1>3, <2>1, MarksError DEF start_apply, apply_world, Errs, KeepsIdentity, Becomes, At
    <3> QED BY <3>1 DEF RowEffect
  <2>2. CASE /\ worlds' = mark_host_running(worlds, W(t), call[t].key) /\ Stored(worlds, W(t))
             /\ call[t].stored.ssh # NoKey /\ call[t].stored.ssh = call[t].key
    <3>1. Runs(t)
      BY <1>0, <1>3, <2>2, MarksRunning DEF start_apply, apply_world, Runs, Becomes, At
    <3> QED BY <3>1 DEF RowEffect
  <2> QED BY <1>3, <2>1, <2>2 DEF start_apply, apply_world
<1>4. CASE start_probe(t) \/ stop_record(t)
  <2>1. CASE \E g : record_stopped(t, g)
    <3>0. PICK bytes \in DiskBytes : worlds' = mark_stopped(worlds, W(t), bytes) /\ Stored(worlds, W(t))
      BY <2>1 DEF record_stopped
    <3>1. Stops(t)
      BY <1>0, <1>4, <3>0, MarksStopped DEF start_probe, stop_record, Stops, KeepsIdentity, Becomes, At
    <3> QED BY <3>1 DEF RowEffect
  <2> QED BY <1>4, <2>1 DEF start_probe, stop_record, RowEffect, RegistryUnchanged
<1> QED BY <1>1, <1>2, <1>3, <1>4 DEF PowerStep

LEMMA EffectLocked == ASSUME TypeOK, NEW t \in Threads, LockedStep(t) PROVE RowEffect(t)
<1> USE Locals DEF RegistryStep
<1>0. worlds \in [WorldIds -> Row]
  BY DEF TypeOK
<1>1. CASE remove_domain(t) \/ remove_files(t) \/ exec_check(t) \/ exec_run(t)
  BY <1>1 DEF remove_domain, remove_files, exec_check, exec_run, LocalStep, MachineStep, RowEffect
<1>2. CASE delete_mark(t)
  <2>1. CASE /\ worlds' = mark_destroying(worlds, W(t)) /\ Stored(worlds, W(t))
             /\ Goto(t, "remove_domain") /\ UNCHANGED call
    <3>1. Dooms(t)
      BY <1>0, <1>2, <2>1, MarksDestroying DEF delete_mark, Dooms, KeepsIdentity, Becomes
    <3> QED BY <3>1 DEF RowEffect
  <2> QED BY <1>2, <2>1 DEF delete_mark, RowEffect, RegistryUnchanged
<1>3. CASE delete_failed(t)
  <2>1. Errs(t)
    BY <1>0, <1>3, MarksError DEF delete_failed, Errs, KeepsIdentity, Becomes, At
  <2> QED BY <2>1 DEF RowEffect
<1>4. CASE delete_row(t)
  <2>1. Deleted(t)
    BY <1>0, <1>4, Deletes DEF delete_row, Deleted
  <2> QED BY <2>1 DEF RowEffect
<1>5. CASE rename_write(t)
  <2> DEFINE n == call[t].request.name
  <2>1. CASE /\ Stored(worlds, W(t)) /\ worlds' = rename(worlds, W(t), n)
             /\ ~\E x \in StoredIds(worlds) \ {W(t)} : worlds[x].name = n
    <3>1. n \in Names
      BY RequestTyped
    <3>2. Renamed(t)
      BY <1>0, <1>5, <2>1, <3>1, Renames DEF rename_write, Renamed
    <3> QED BY <3>2 DEF RowEffect
  <2> QED BY <1>5, <2>1 DEF rename_write, RowEffect, RegistryUnchanged
<1> QED BY <1>1, <1>2, <1>3, <1>4, <1>5 DEF LockedStep

LEMMA EffectCreate == ASSUME TypeOK, NEW t \in Threads, CreateStep(t) PROVE RowEffect(t)
<1> USE Locals DEF RegistryStep
<1>0. worlds \in [WorldIds -> Row]
  BY DEF TypeOK
<1>1. CASE RegistryUnchanged
  BY <1>1 DEF RowEffect
<1>2. CASE create_insert(t) /\ ~RegistryUnchanged
  <2>1. PICK w \in WorldIds \ issued :
          /\ ~NameTaken(worlds, call[t].request.name)
          /\ ensure_capacity(worlds, call[t].request.want)
          /\ issued' = issued \cup {w}
          /\ worlds' = insert_world(worlds, w, call[t].request)
          /\ call' = [call EXCEPT ![t].w = w]
          /\ Goto(t, "create_overlay") /\ At(t, "create_insert")
    BY <1>2 DEF create_insert
  <2>2. call[t].request.want \in Shapes
    BY DEF Request
  <2>3. Inserted(t)
    BY <1>0, <2>1, <2>2, Inserts DEF Inserted
  <2> QED BY <2>3 DEF RowEffect
<1>3. CASE create_running(t)
  <2>1. CASE worlds' = mark_host_running(worlds, W(t), call[t].key) /\ Stored(worlds, W(t))
    <3>1. Runs(t)
      BY <1>0, <1>3, <2>1, MarksRunning DEF create_running, Runs, Becomes
    <3> QED BY <3>1 DEF RowEffect
  <2> QED BY <1>3, <2>1 DEF create_running, RowEffect, RegistryUnchanged
<1>4. CASE create_failed(t)
  <2>1. CASE worlds' = mark_error(worlds, W(t)) /\ Stored(worlds, W(t))
    <3>1. Errs(t)
      BY <1>0, <1>4, <2>1, MarksError DEF create_failed, Errs, KeepsIdentity, Becomes, At
    <3> QED BY <3>1 DEF RowEffect
  <2> QED BY <1>4, <2>1 DEF create_failed, RowEffect, RegistryUnchanged
<1> QED BY <1>1, <1>2, <1>3, <1>4
    DEF CreateStep, lock_create, create_lookup, create_overlay, create_directory, create_define,
        create_boot, create_wait, create_setup, LocalStep, MachineStep

\* Every step of a thread has one of these effects on the registry.
LEMMA Effects == ASSUME TypeOK, NEW t \in Threads, Moves(t) PROVE RowEffect(t)
<1>1. CASE RegistryUnchanged
  BY <1>1 DEF RowEffect
<1>2. CASE ~RegistryUnchanged
  <2>1. CreateStep(t) \/ ReconcileSteps(t) \/ PowerStep(t) \/ LockedStep(t)
    BY <1>2 DEF Moves, Receive, Accept, Handle, read, get_read, try_lock_world, ListStep, list_read,
       list_next, list_unlock, list_reread, list_usage, final_read, Respond, LocalStep
  <2> QED BY <2>1, EffectCreate, EffectReconcile, EffectPower, EffectLocked
<1> QED BY <1>1, <1>2

\* A thread moves alone.
LEMMA OthersKept ==
    ASSUME TypeOK, NEW t \in Threads, Moves(t)
    PROVE  \A u \in Threads \ {t} : pc'[u] = pc[u] /\ call'[u] = call[u]
<1>1. \/ UNCHANGED pc
      \/ \E s : Goto(t, s)
  BY DEF Moves, Receive, Accept, Handle, CreateStep, lock_create, create_lookup, create_insert,
     create_overlay, create_directory, create_define, create_boot, create_wait, create_setup,
     create_running, create_failed, read, get_read, try_lock_world, ReconcileSteps, inspect, retry,
     reconcile_reserve, reconcile_running, apply_world, reconcile_stopped, reconcile_error, ListStep,
     list_read, list_next, list_unlock, list_reread, list_usage, PowerStep, start_check,
     start_reserve, start_boot, start_ready, start_probe, start_apply, stop_check, stop_shutdown,
     stop_record, LockedStep, delete_mark, remove_domain, remove_files, delete_failed, delete_row,
     rename_write, exec_check, exec_run, final_read, Respond, Finish
<1>2. \/ UNCHANGED call
      \/ \E c : call' = [call EXCEPT ![t] = c]
  BY DEF Moves, Receive, Accept, Handle, CreateStep, lock_create, create_lookup, create_insert,
     create_overlay, create_directory, create_define, create_boot, create_wait, create_setup,
     create_running, create_failed, read, get_read, try_lock_world, ReconcileSteps, inspect, retry,
     reconcile_reserve, reconcile_running, apply_world, reconcile_stopped, reconcile_error, ListStep,
     list_read, list_next, list_unlock, list_reread, list_usage, PowerStep, start_check,
     start_reserve, start_boot, start_ready, start_probe, start_apply, stop_check, stop_shutdown,
     stop_record, LockedStep, delete_mark, remove_domain, remove_files, delete_failed, delete_row,
     rename_write, exec_check, exec_run, final_read, Respond, Finish
<1> QED BY <1>1, <1>2 DEF Goto, TypeOK

-----------------------------------------------------------------------------
(* Ids and names *)

\* Only issued ids are in the table, an id that is not has the empty row, and
\* the names in the table differ.
IdsInv ==
    /\ \A w \in WorldIds : ~Stored(worlds, w) => worlds[w] = NoRow
    /\ \A w \in WorldIds \ issued : ~Stored(worlds, w)
    /\ NamesUnique

LEMMA IdsInit == Init => IdsInv
BY NoRowFields DEF Init, IdsInv, NamesUnique, Stored, StoredIds

LEMMA IdsMove == ASSUME TypeOK, IdsInv, NEW t \in Threads, Moves(t) PROVE IdsInv'
<1> USE Locals, NoRowFields DEF Stored, StoredIds
<1>1. CASE RegistryUnchanged
  BY <1>1 DEF RegistryUnchanged, IdsInv, NamesUnique
<1>2. CASE Inserted(t)
  BY <1>2 DEF Inserted, OnlyRow, IdsInv, NamesUnique, NameTaken
<1>3. CASE Reserves(t) \/ Errs(t) \/ Stops(t) \/ Dooms(t) \/ Runs(t)
  <2>1. /\ UNCHANGED issued /\ OnlyRow(worlds, worlds', W(t))
        /\ worlds[W(t)].status # "absent" /\ worlds'[W(t)].status # "absent"
        /\ worlds'[W(t)].name = worlds[W(t)].name
    BY <1>3 DEF Reserves, Errs, Stops, Dooms, Runs, KeepsIdentity
  <2> QED BY <2>1 DEF OnlyRow, IdsInv, NamesUnique
<1>4. CASE Renamed(t)
  <2>1. worlds[W(t)].status # "absent" /\ worlds'[W(t)].status # "absent"
    BY <1>4 DEF Renamed, SameRow
  <2> QED BY <1>4, <2>1 DEF Renamed, OnlyRow, IdsInv, NamesUnique
<1>5. CASE Deleted(t)
  BY <1>5 DEF Deleted, OnlyRow, IdsInv, NamesUnique
<1> QED BY <1>1, <1>2, <1>3, <1>4, <1>5, Effects DEF RowEffect

LEMMA IdsStep == TypeOK /\ IdsInv /\ [Next]_vars => IdsInv'
<1> SUFFICES ASSUME TypeOK, IdsInv, [Next]_vars PROVE IdsInv'
  OBVIOUS
<1>1. CASE RegistryUnchanged
  BY <1>1 DEF RegistryUnchanged, IdsInv, NamesUnique, Stored, StoredIds
<1>2. CASE \E t \in Threads : Moves(t)
  BY <1>2, IdsMove
<1>3. CASE Restart
  BY <1>3, Interrupts, NoRowFields
  DEF Restart, IdsInv, NamesUnique, Stored, StoredIds, TypeOK
<1> QED BY <1>1, <1>2, <1>3
    DEF Next, Moves, vars, GuestPowersOff, GuestRekeys, RegistryUnchanged

\* The check of a name and the write that takes it are one transaction, so two
\* worlds never have one name, for any number of creates and renames that race.
THEOREM UniqueNames == Spec => []NamesUnique
<1>1. Init => TypeOK /\ IdsInv
  BY TypeInit, IdsInit
<1>2. TypeOK /\ IdsInv /\ [Next]_vars => (TypeOK /\ IdsInv)'
  BY TypeStep, IdsStep
<1>3. IdsInv => NamesUnique
  BY DEF IdsInv
<1> QED BY <1>1, <1>2, <1>3, PTL DEF Spec

-----------------------------------------------------------------------------
(* Operations in flight *)

\* The steps of create between the insertion of the row and its settlement.
ProvisionSteps == {"create_overlay", "create_directory", "create_define", "create_boot",
                   "create_wait", "create_setup", "create_running", "create_failed",
                   "remove_domain", "remove_files"}
Provisions(t) == call[t].op = "create" /\ pc[t] \in ProvisionSteps

Destroys(t) == call[t].op = "delete"
               /\ pc[t] \in {"remove_domain", "remove_files", "delete_failed", "delete_row"}

OwnedInv ==
    \A w \in WorldIds :
        /\ worlds[w].status = "provisioning" => \E t \in Threads : Provisions(t) /\ W(t) = w
        /\ worlds[w].status = "destroying" => \E t \in Threads : Destroys(t) /\ W(t) = w

\* A creation goes on until it settles the status of its row.
LEMMA ProvisionGoesOn ==
    ASSUME TypeOK, NEW t \in Threads, Provisions(t), Moves(t)
    PROVE  \/ /\ Provisions(t)' /\ call'[t].w = call[t].w
              /\ RegistryUnchanged /\ UNCHANGED inactive
              /\ call'[t].stored = call[t].stored /\ call'[t].todo = call[t].todo
           \/ /\ pc[t] \in {"create_running", "create_failed"} /\ pc'[t] \notin ProvisionSteps
              /\ worlds'[W(t)].status \in {"running", "error", "absent"}
<1> USE Locals
<1>0. call \in [Threads -> Call] /\ pc \in [Threads -> Steps] /\ worlds \in [WorldIds -> Row]
  BY DEF TypeOK
<1>1. CASE create_running(t)
  <2>1. pc[t] = "create_running" /\ pc'[t] \in {"final_read", "return"}
    BY <1>0, <1>1 DEF create_running, At, Goto, Finish
  <2>2. worlds'[W(t)].status \in {"running", "absent"}
    BY <1>0, <1>1, MarksRunning DEF create_running, Becomes, Stored
  <2> QED BY <2>1, <2>2 DEF ProvisionSteps
<1>2. CASE create_failed(t)
  <2>1. pc[t] = "create_failed" /\ pc'[t] = "return"
    BY <1>0, <1>2 DEF create_failed, At, Goto, Finish
  <2>2. worlds'[W(t)].status \in {"error", "absent"}
    BY <1>0, <1>2, MarksError DEF create_failed, Becomes, Stored
  <2> QED BY <2>1, <2>2 DEF ProvisionSteps
<1>3. CASE create_overlay(t) \/ create_directory(t) \/ create_define(t) \/ create_boot(t)
           \/ create_wait(t) \/ (create_setup(t) /\ UNCHANGED call)
           \/ remove_domain(t) \/ remove_files(t)
  <2>1. UNCHANGED call /\ RegistryUnchanged /\ UNCHANGED inactive
    BY <1>3 DEF create_overlay, create_directory, create_define, create_boot, create_wait,
                create_setup, remove_domain, remove_files, MachineStep
  <2>2. call[t].op = "create"
    BY DEF Provisions
  <2>3. AfterCleanup(call[t].op, TRUE) = "create_failed" /\ AfterCleanup(call[t].op, FALSE) = "create_failed"
    BY <2>2 DEF AfterCleanup
  <2>4. \E s \in ProvisionSteps : Goto(t, s)
    <3>1. CASE remove_files(t)
      <4>1. PICK files, disk \in BOOLEAN : Goto(t, AfterCleanup(call[t].op, ~files /\ ~disk))
        BY <3>1 DEF remove_files
      <4>2. AfterCleanup(call[t].op, ~files /\ ~disk) = "create_failed"
        BY <2>2 DEF AfterCleanup
      <4> QED BY <4>1, <4>2 DEF ProvisionSteps
    <3>2. CASE ~remove_files(t)
      BY <1>3, <2>3, <3>2 DEF create_overlay, create_directory, create_define, create_boot, create_wait,
                create_setup, remove_domain, ProvisionSteps
    <3> QED BY <3>1, <3>2
  <2> QED BY <1>0, <2>1, <2>2, <2>4 DEF Goto, Provisions
<1>4. CASE create_setup(t) /\ ~UNCHANGED call
  <2>1. call' = [call EXCEPT ![t].key = 1] /\ Goto(t, "create_running") /\ RegistryUnchanged
        /\ UNCHANGED inactive
    BY <1>4 DEF create_setup, MachineStep
  <2>2. /\ call'[t].op = call[t].op /\ call'[t].w = call[t].w
        /\ call'[t].stored = call[t].stored /\ call'[t].todo = call[t].todo
    BY <1>0, <2>1 DEF Call
  <2> QED BY <1>0, <2>1, <2>2 DEF Goto, Provisions, ProvisionSteps
<1> QED
  BY <1>1, <1>2, <1>3, <1>4, Dispatch DEF Provisions, ProvisionSteps

\* So does a removal.
LEMMA RemovalGoesOn ==
    ASSUME TypeOK, NEW t \in Threads, Destroys(t), Moves(t)
    PROVE  \/ Destroys(t)' /\ call'[t] = call[t] /\ RegistryUnchanged /\ UNCHANGED inactive
           \/ /\ pc[t] \in {"delete_failed", "delete_row"} /\ pc'[t] = "return"
              /\ worlds'[W(t)].status \in {"error", "absent"}
<1> USE Locals
<1>0. call \in [Threads -> Call] /\ pc \in [Threads -> Steps] /\ worlds \in [WorldIds -> Row]
      /\ call[t].op = "delete"
  BY DEF TypeOK, Destroys
<1>1. CASE delete_failed(t)
  BY <1>0, <1>1, MarksError DEF delete_failed, At, Finish, Goto, Becomes
<1>2. CASE delete_row(t)
  BY <1>0, <1>2, Deletes, NoRowFields DEF delete_row, At, Finish, Goto
<1>3. CASE remove_domain(t) \/ remove_files(t)
  <2>1. UNCHANGED call /\ RegistryUnchanged /\ UNCHANGED inactive
    BY <1>3 DEF remove_domain, remove_files, MachineStep
  <2>2. \A done \in BOOLEAN : AfterCleanup(call[t].op, done) \in {"delete_row", "delete_failed"}
    BY <1>0 DEF AfterCleanup
  <2>3. \E s \in {"remove_files", "delete_row", "delete_failed"} : Goto(t, s)
    <3>1. CASE remove_files(t)
      <4>1. PICK files, disk \in BOOLEAN : Goto(t, AfterCleanup(call[t].op, ~files /\ ~disk))
        BY <3>1 DEF remove_files
      <4> QED BY <2>2, <4>1
    <3>2. CASE remove_domain(t)
      BY <2>2, <3>2 DEF remove_domain
    <3> QED BY <1>3, <3>1, <3>2
  <2> QED BY <1>0, <2>1, <2>3 DEF Goto, Destroys
<1> QED
  BY <1>1, <1>2, <1>3, Dispatch DEF Destroys

LEMMA OwnedMove == ASSUME TypeOK, OwnedInv, NEW t \in Threads, Moves(t) PROVE OwnedInv'
<1> SUFFICES ASSUME NEW w \in WorldIds
             PROVE  /\ worlds'[w].status = "provisioning"
                          => \E u \in Threads : Provisions(u)' /\ call'[u].w = w
                    /\ worlds'[w].status = "destroying"
                          => \E u \in Threads : Destroys(u)' /\ call'[u].w = w
  BY DEF OwnedInv, W
<1> USE Locals
<1>0. call \in [Threads -> Call] /\ pc \in [Threads -> Steps]
  BY DEF TypeOK
<1>1. ASSUME NEW u \in Threads, u # t
      PROVE  /\ Provisions(u) => Provisions(u)' /\ call'[u].w = call[u].w
             /\ Destroys(u) => Destroys(u)' /\ call'[u].w = call[u].w
  BY <1>1, OthersKept DEF Provisions, Destroys
\* A status that is not new has its owner still, or the owner has settled it.
<1>2. ASSUME worlds'[w].status = worlds[w].status, worlds[w].status = "provisioning"
      PROVE  \E u \in Threads : Provisions(u)' /\ call'[u].w = w
  BY <1>1, <1>2, ProvisionGoesOn DEF OwnedInv, W
<1>3. ASSUME worlds'[w].status = worlds[w].status, worlds[w].status = "destroying"
      PROVE  \E u \in Threads : Destroys(u)' /\ call'[u].w = w
  BY <1>1, <1>3, RemovalGoesOn DEF OwnedInv, W
<1>4. CASE Inserted(t)
  <2>1. PICK x \in WorldIds \ issued :
          /\ OnlyRow(worlds, worlds', x) /\ worlds'[x].status = "provisioning"
          /\ call' = [call EXCEPT ![t].w = x]
          /\ Goto(t, "create_overlay") /\ At(t, "create_insert")
    BY <1>4 DEF Inserted
  <2>2. call[t].op = "create"
    BY <2>1, OpOfStep DEF At, CreateSteps
  <2>3. call'[t].w = x /\ call'[t].op = "create" /\ pc'[t] = "create_overlay"
    BY <1>0, <2>1, <2>2 DEF Goto, Call
  <2>4. Provisions(t)'
    BY <2>3 DEF Provisions, ProvisionSteps
  <2> QED BY <1>2, <1>3, <2>1, <2>3, <2>4 DEF OnlyRow
<1>5. CASE Dooms(t)
  <2>1. call[t].op = "delete"
    BY <1>5, OpOfStep DEF Dooms, At
  <2>2. Destroys(t)' /\ call'[t].w = W(t)
    BY <1>0, <1>5, <2>1 DEF Dooms, Goto, Destroys, W
  <2> QED BY <1>2, <1>3, <1>5, <2>2 DEF Dooms, KeepsIdentity, OnlyRow
<1>6. CASE ~Inserted(t) /\ ~Dooms(t)
  <2>1. \/ worlds'[w].status = worlds[w].status
        \/ worlds'[w].status \notin {"provisioning", "destroying"}
    BY <1>6, Effects, NoRowFields DEF RowEffect, RegistryUnchanged, Reserves, Errs, Stops, Runs,
       Renamed, Deleted, KeepsIdentity, OnlyRow, SameRow
  <2> QED BY <1>2, <1>3, <2>1
<1> QED BY <1>4, <1>5, <1>6

LEMMA OwnedStep == TypeOK /\ OwnedInv /\ [Next]_vars => OwnedInv'
<1> SUFFICES ASSUME TypeOK, OwnedInv, [Next]_vars PROVE OwnedInv'
  OBVIOUS
<1>1. CASE UNCHANGED <<worlds, pc, call>>
  BY <1>1 DEF OwnedInv, Provisions, Destroys, W
<1>2. CASE \E t \in Threads : Moves(t)
  BY <1>2, OwnedMove
<1>3. CASE Restart
  <2>1. \A w \in WorldIds : worlds'[w].status \notin {"provisioning", "destroying"}
    BY <1>3, Interrupts DEF Restart, TypeOK
  <2> QED BY <2>1 DEF OwnedInv
<1> QED BY <1>1, <1>2, <1>3
    DEF Next, Moves, vars, GuestPowersOff, GuestRekeys, RegistryUnchanged

LEMMA OwnedInit == Init => OwnedInv
BY NoRowFields DEF Init, OwnedInv

LEMMA OwnedIsOwned == TypeOK /\ IdsInv /\ OwnedInv => InFlightOwned
<1> SUFFICES ASSUME TypeOK, IdsInv, OwnedInv, NEW w \in WorldIds
             PROVE  /\ worlds[w].status = "provisioning"
                          => \E t \in Threads : Creating(t, w) /\ ~At(t, "return")
                    /\ worlds[w].status = "destroying" =>
                          \E t \in Threads : /\ call[t].op = "delete" /\ W(t) = w
                                             /\ pc[t] \in {"remove_domain", "remove_files",
                                                           "delete_failed", "delete_row"}
  BY DEF InFlightOwned
<1>1. worlds[w].status = "provisioning" => w \in issued
  BY DEF IdsInv, Stored
<1> QED BY <1>1 DEF OwnedInv, Provisions, ProvisionSteps, Destroys, Creating, At

\* No path through the handlers, whatever fails in it, leaves a world in flight
\* without the thread that will settle it.
THEOREM InFlightHasOwner == Spec => []InFlightOwned
<1>1. Init => TypeOK /\ IdsInv /\ OwnedInv
  BY TypeInit, IdsInit, OwnedInit
<1>2. TypeOK /\ IdsInv /\ OwnedInv /\ [Next]_vars => (TypeOK /\ IdsInv /\ OwnedInv)'
  BY TypeStep, IdsStep, OwnedStep
<1> QED BY <1>1, <1>2, OwnedIsOwned, PTL DEF Spec

-----------------------------------------------------------------------------
(* What a handler knows of a row it has read *)

\* The local stored: kept, cleared, or filled from the table or the snapshot.
Learns(t) ==
    /\ \/ call'[t].stored = call[t].stored /\ (call'[t].w = call[t].w \/ Inserted(t))
       \/ call'[t].stored = Seen(NoRow)
       \/ /\ call'[t].stored = Seen(worlds[call'[t].w])
          /\ RegistryUnchanged /\ Stored(worlds, call'[t].w) /\ call[t].op # "create"
       \/ /\ call'[t].w \in DOMAIN call[t].todo /\ call[t].op = "list"
          /\ call'[t].stored = call[t].todo[call'[t].w]
    /\ \A w \in DOMAIN call'[t].todo :
          \/ w \in DOMAIN call[t].todo /\ call'[t].todo[w] = call[t].todo[w]
          \/ call'[t].todo[w] = Seen(worlds[w]) /\ RegistryUnchanged /\ w \in StoredIds(worlds)

\* A handler keeps its operation; only an idle thread takes a new one.
LEMMA LearnsOf ==
    ASSUME TypeOK, NEW t \in Threads, Moves(t)
    PROVE  /\ Learns(t)
           /\ \/ call'[t].op = call[t].op
              \/ pc[t] \in {"idle", "return"} /\ call'[t].stored = Seen(NoRow)
<1> USE Locals
<1>0. call \in [Threads -> Call] /\ pc \in [Threads -> Steps]
  BY DEF TypeOK
<1> DEFINE c == call[t]
<1>1. CASE UNCHANGED call
  BY <1>1 DEF Learns
<1>2. CASE \E out : Finish(t, out)
  <2>1. PICK out : Finish(t, out)
    BY <1>2
  <2>2. call'[t] = [NoCall EXCEPT !.op = c.op, !.w = c.w, !.out = out]
    BY <1>0, <2>1 DEF Finish
  <2>3. call'[t].stored = Seen(NoRow) /\ DOMAIN call'[t].todo = {} /\ call'[t].op = c.op
    BY <2>2, NoCallTyped DEF NoCall, Call
  <2> QED BY <2>3 DEF Learns
<1>3. CASE \E n : call' = [call EXCEPT ![t].attempts = n] \/ call' = [call EXCEPT ![t].key = n]
  <2>1. /\ call'[t].stored = c.stored /\ call'[t].w = c.w /\ call'[t].todo = c.todo
        /\ call'[t].op = c.op
    BY <1>0, <1>3 DEF Call
  <2> QED BY <2>1 DEF Learns
<1>4. CASE Inserted(t) /\ \E w : call' = [call EXCEPT ![t].w = w]
  <2>1. call'[t].stored = c.stored /\ call'[t].todo = c.todo /\ call'[t].op = c.op
    BY <1>0, <1>4 DEF Call
  <2> QED BY <1>4, <2>1 DEF Learns
<1>5. CASE (read(t) \/ start_check(t) \/ stop_check(t)) /\ ~\E out : Finish(t, out)
  <2>1. /\ RegistryUnchanged /\ Stored(worlds, W(t))
        /\ call' = [call EXCEPT ![t].stored = Seen(worlds[W(t)])]
        /\ pc[t] \in {"read", "start_check", "stop_check"}
    BY <1>5 DEF read, start_check, stop_check, LocalStep, Stored, At
  <2>2. /\ call'[t].stored = Seen(worlds[W(t)]) /\ call'[t].w = W(t) /\ call'[t].todo = c.todo
        /\ call'[t].op = c.op
    BY <1>0, <2>1 DEF Call, W
  <2>3. c.op # "create"
    BY <2>1, OpOfStep
  <2> QED BY <2>1, <2>2, <2>3 DEF Learns
<1>6. CASE get_read(t) /\ ~\E out : Finish(t, out)
  <2>1. PICK w \in StoredIds(worlds) :
           call' = [call EXCEPT ![t].w = w, ![t].stored = Seen(worlds[w])] /\ RegistryUnchanged
    BY <1>6 DEF get_read, LocalStep
  <2>0. c.op # "create"
    BY <1>6, OpOfStep DEF get_read, At
  <2>2. /\ call'[t].stored = Seen(worlds[w]) /\ call'[t].w = w /\ call'[t].todo = c.todo
        /\ call'[t].op = c.op
    BY <1>0, <2>1 DEF Call
  <2> QED BY <2>0, <2>1, <2>2 DEF Learns, StoredIds
<1>7. CASE list_read(t) \/ list_reread(t)
  <2>1. call' = [call EXCEPT ![t].todo = list_owned(worlds)] /\ RegistryUnchanged
    BY <1>7 DEF list_read, list_reread, LocalStep
  <2>2. /\ call'[t].stored = c.stored /\ call'[t].w = W(t) /\ call'[t].todo = list_owned(worlds)
        /\ call'[t].op = c.op
    BY <1>0, <2>1 DEF Call, W
  <2> QED BY <2>1, <2>2 DEF Learns, list_owned, W
<1>8. CASE (list_next(t) \/ list_usage(t)) /\ ~UNCHANGED call /\ ~\E out : Finish(t, out)
  <2> DEFINE Rest(w) == [x \in DOMAIN c.todo \ {w} |-> c.todo[x]]
  <2>0. c.op = "list"
    <3>1. pc[t] \in {"list_next", "list_usage"}
      BY <1>8 DEF list_next, list_usage, At
    <3> QED BY <3>1, OpOfStep
  <2>1. PICK w \in DOMAIN c.todo :
          \/ call' = [call EXCEPT ![t].todo = Rest(w)]
          \/ call' = [call EXCEPT ![t].todo = Rest(w), ![t].w = w,
                                  ![t].stored = c.todo[w], ![t].attempts = 0]
    BY <1>8 DEF list_next, list_usage
  <2>2. CASE call' = [call EXCEPT ![t].todo = Rest(w)]
    <3>1. call'[t].stored = c.stored /\ call'[t].w = c.w /\ call'[t].todo = Rest(w) /\ call'[t].op = c.op
      BY <1>0, <2>2 DEF Call
    <3> QED BY <3>1 DEF Learns
  <2>3. CASE call' = [call EXCEPT ![t].todo = Rest(w), ![t].w = w,
                                  ![t].stored = c.todo[w], ![t].attempts = 0]
    <3>1. call'[t].stored = c.todo[w] /\ call'[t].w = w /\ call'[t].todo = Rest(w) /\ call'[t].op = c.op
      BY <1>0, <2>3 DEF Call
    <3> QED BY <2>0, <3>1 DEF Learns
  <2> QED BY <2>1, <2>2, <2>3
<1>9. CASE Respond(t) \/ Receive(t)
  <2>1. Respond(t) => call'[t] = NoCall
    BY <1>0 DEF Respond
  <2>2. ASSUME Receive(t) PROVE call'[t].stored = NoCall.stored /\ call'[t].todo = NoCall.todo
    <3>1. PICK op, w, q, step : Accept(t, op, w, q, step)
      BY <2>2 DEF Receive
    <3>2. call'[t] = [NoCall EXCEPT !.op = op, !.w = w, !.request = q]
      BY <1>0, <3>1 DEF Accept
    <3> QED BY <3>2, NoCallTyped DEF Call
  <2>3. NoCall.stored = Seen(NoRow) /\ DOMAIN NoCall.todo = {}
    BY DEF NoCall
  <2>4. pc[t] \in {"idle", "return"}
    BY <1>9 DEF Respond, Receive, Accept, At
  <2> QED BY <1>9, <2>1, <2>2, <2>3, <2>4 DEF Learns
<1>10. CASE create_insert(t)
  <2>1. CASE RegistryUnchanged
    BY <1>2, <1>10, <2>1 DEF create_insert, RegistryUnchanged, TypeOK
  <2>2. CASE ~RegistryUnchanged
    <3>1. Inserted(t)
      BY <1>10, <2>2, EffectCreate DEF RowEffect, CreateStep, create_insert, Reserves, Errs, Stops, Dooms,
         Runs, Renamed, Deleted, At
    <3> QED BY <1>4, <1>10, <2>2, <3>1 DEF Inserted
  <2> QED BY <2>1, <2>2
<1> QED
  BY <1>1, <1>2, <1>3, <1>5, <1>6, <1>7, <1>8, <1>9, <1>10
  DEF Moves, Handle, CreateStep, lock_create, create_lookup,
     create_overlay, create_directory, create_define, create_boot, create_wait, create_setup,
     create_running, create_failed, try_lock_world, ReconcileSteps, inspect, retry,
     reconcile_reserve, reconcile_running, apply_world, reconcile_stopped, reconcile_error, ListStep,
     list_unlock, PowerStep,
     start_reserve, start_boot, start_ready, start_probe, start_apply, stop_shutdown,
     stop_record, LockedStep, delete_mark, remove_domain, remove_files, delete_failed, delete_row,
     rename_write, exec_check, exec_run, final_read

\* A thread comes to provision a world by inserting its row only.
LEMMA ProvisionStarts ==
    ASSUME TypeOK, NEW t \in Threads, Moves(t), Provisions(t)'
    PROVE  Provisions(t) \/ Inserted(t)
<1> USE Locals
<1>0. call \in [Threads -> Call] /\ pc \in [Threads -> Steps]
  BY DEF TypeOK
<1> SUFFICES ASSUME ~Provisions(t) PROVE Inserted(t)
  OBVIOUS
<1>1. pc'[t] \in ProvisionSteps /\ call'[t].op = "create"
  BY DEF Provisions
<1>2. ~Receive(t) /\ ~Respond(t)
  BY <1>0, <1>1 DEF Receive, Accept, Respond, Goto, ProvisionSteps
<1>3. ~\E out : Finish(t, out)
  BY <1>0, <1>1 DEF Finish, Goto, ProvisionSteps
<1>4. pc[t] \notin {"idle", "return"}
  BY <1>2, Dispatch
<1>5. call[t].op = "create"
  BY <1>1, <1>4, LearnsOf
<1>6. pc[t] \in {"create_lock", "create_lookup", "create_insert", "final_read"}
  <2>1. pc[t] \in StepsOf["create"]
    BY <1>4, <1>5
  <2>2. StepsOf["create"] = CreateSteps \cup {"create_lock", "remove_domain", "remove_files", "final_read"}
    BY DEF StepsOf
  <2> QED BY <1>5, <2>1, <2>2 DEF Provisions, ProvisionSteps, CreateSteps
<1>7. create_insert(t)
  <2>1. lock_create(t) \/ create_lookup(t) \/ create_insert(t) \/ final_read(t)
    BY <1>2, <1>6, Dispatch
  <2>2. ~lock_create(t) /\ ~create_lookup(t) /\ ~final_read(t)
    BY <1>0, <1>1, <1>3 DEF lock_create, create_lookup, final_read, Goto, ProvisionSteps
  <2> QED BY <2>1, <2>2
<1>8. ~RegistryUnchanged
  BY <1>3, <1>7 DEF create_insert, RegistryUnchanged, TypeOK
<1> QED BY <1>7, <1>8, EffectCreate DEF RowEffect, CreateStep, create_insert, Reserves, Errs, Stops,
       Dooms, Runs, Renamed, Deleted, At

-----------------------------------------------------------------------------
(* The SSH identity of a world *)

\* A key read from the row of w is the one its row has for as long as it exists.
Known(w, k) == k # NoKey => w \in issued /\ (Stored(worlds, w) => worlds[w].ssh = k)

\* A world that is being provisioned has no identity yet and one thread, and
\* what a handler has read of an identity, however long ago, is still true.
IdentityInv ==
    /\ \A t \in Threads : Provisions(t) => W(t) \in issued /\ worlds[W(t)].ssh = NoKey
    /\ \A t, u \in Threads : t # u /\ Provisions(t) /\ Provisions(u) => W(t) # W(u)
    /\ \A t \in Threads : Known(W(t), call[t].stored.ssh)
    /\ \A t \in Threads : call[t].op = "create" => call[t].stored = Seen(NoRow)
    /\ \A t \in Threads : \A w \in DOMAIN call[t].todo : Known(w, call[t].todo[w].ssh)

\* What a step of t guarantees: ids stay issued, a row that is gone never comes
\* back, and an identity is written once, by the thread that provisions.
IdentityKept(t) ==
    /\ issued \subseteq issued'
    /\ \A w \in issued : Stored(worlds', w) => Stored(worlds, w)
    /\ \A w \in WorldIds :
          worlds[w].ssh # NoKey /\ Stored(worlds', w) => worlds'[w].ssh = worlds[w].ssh
    /\ \A w \in WorldIds :
          worlds[w].ssh = NoKey /\ worlds'[w].ssh # NoKey => Provisions(t) /\ W(t) = w

LEMMA KeepsIdentities ==
    ASSUME TypeOK, IdsInv, IdentityInv, NEW t \in Threads, Moves(t)
    PROVE  IdentityKept(t)
<1> USE Locals DEF Stored
<1>0. issued \subseteq WorldIds
  BY DEF TypeOK
<1>1. CASE RegistryUnchanged
  BY <1>1 DEF RegistryUnchanged, IdentityKept
<1>2. CASE Inserted(t)
  BY <1>0, <1>2, NoRowFields DEF Inserted, OnlyRow, IdsInv, IdentityKept
<1>3. CASE Reserves(t) \/ Errs(t) \/ Stops(t) \/ Dooms(t) \/ Renamed(t)
  <2>1. /\ UNCHANGED issued /\ OnlyRow(worlds, worlds', W(t))
        /\ worlds[W(t)].status # "absent" /\ worlds'[W(t)].ssh = worlds[W(t)].ssh
    BY <1>3 DEF Reserves, Errs, Stops, Dooms, Renamed, KeepsIdentity, SameRow
  <2> QED BY <1>0, <2>1 DEF OnlyRow, IdentityKept
<1>4. CASE Runs(t)
  <2>1. /\ UNCHANGED issued /\ OnlyRow(worlds, worlds', W(t))
        /\ worlds[W(t)].status # "absent" /\ worlds'[W(t)].ssh = call[t].key
    BY <1>4 DEF Runs
  <2>2. CASE At(t, "create_running")
    <3>1. Provisions(t)
      BY <2>2, OpOfStep DEF At, Provisions, ProvisionSteps, CreateSteps
    <3>2. worlds[W(t)].ssh = NoKey
      BY <3>1 DEF IdentityInv
    <3> QED BY <1>0, <2>1, <3>1, <3>2 DEF OnlyRow, IdentityKept
  <2>3. CASE call[t].stored.ssh # NoKey /\ call[t].stored.ssh = call[t].key
    <3>1. worlds[W(t)].ssh = call[t].key
      BY <2>1, <2>3 DEF IdentityInv, Known
    <3> QED BY <1>0, <2>1, <3>1 DEF OnlyRow, IdentityKept
  <2> QED BY <1>4, <2>2, <2>3 DEF Runs
<1>5. CASE Deleted(t)
  BY <1>0, <1>5, NoRowFields DEF Deleted, OnlyRow, IdentityKept
<1> QED BY <1>1, <1>2, <1>3, <1>4, <1>5, Effects DEF RowEffect

KnownNext(w, k) == k # NoKey => w \in issued' /\ (Stored(worlds', w) => worlds'[w].ssh = k)

LEMMA KnownStays ==
    ASSUME TypeOK, NEW t, IdentityKept(t)
    PROVE  \A w \in WorldIds, k \in KeyIds : Known(w, k) => KnownNext(w, k)
BY DEF Known, KnownNext, IdentityKept, Stored

\* What is read from the table is known.
LEMMA KnownSeen ==
    ASSUME TypeOK, IdsInv, NEW w \in WorldIds, Stored(worlds, w)
    PROVE  Known(w, Seen(worlds[w]).ssh)
BY DEF Known, Seen, IdsInv

LEMMA UnknownSeen == Seen(NoRow).ssh = NoKey /\ Seen(NoRow).status = "absent"
BY NoRowFields DEF Seen

LEMMA IdentityMove ==
    ASSUME TypeOK, IdsInv, IdentityInv, NEW t \in Threads, Moves(t)
    PROVE  IdentityInv'
<1> USE Locals
<1>0. call \in [Threads -> Call] /\ pc \in [Threads -> Steps] /\ worlds \in [WorldIds -> Row]
  BY DEF TypeOK
<1>a. IdentityKept(t)
  BY KeepsIdentities
<1>b. TypeOK'
  BY TypeStep DEF Next, Moves
<1>c. IdsInv'
  BY IdsMove
<1>d. \A u \in Threads : /\ call'[u].w \in WorldIds /\ call'[u].stored.ssh \in KeyIds
                         /\ \A w \in DOMAIN call'[u].todo :
                               w \in WorldIds /\ call'[u].todo[w].ssh \in KeyIds
  BY <1>b, SnapshotTyped DEF TypeOK, Call, SeenRow
<1>e. \A u \in Threads \ {t} : pc'[u] = pc[u] /\ call'[u] = call[u]
  BY OthersKept
<1>f. \A u \in Threads \ {t} : Provisions(u)' => Provisions(u)
  BY <1>e DEF Provisions
\* The thread either goes on provisioning its world or inserts a new one.
<1>g. ASSUME Provisions(t)'
      PROVE  \/ Provisions(t) /\ call'[t].w = W(t)
             \/ call'[t].w \notin issued /\ call'[t].w \in issued' /\ worlds'[call'[t].w].ssh = NoKey
  <2>1. CASE Provisions(t)
    BY <1>g, <2>1, ProvisionGoesOn DEF W, Provisions
  <2>2. CASE Inserted(t)
    <3>1. PICK w \in WorldIds \ issued : /\ issued' = issued \cup {w} /\ worlds'[w].ssh = NoKey
                                         /\ call' = [call EXCEPT ![t].w = w]
      BY <2>2 DEF Inserted
    <3>2. call'[t].w = w
      BY <1>0, <3>1 DEF Call
    <3> QED BY <3>1, <3>2
  <2> QED BY <1>g, <2>1, <2>2, ProvisionStarts
<1>1. ASSUME NEW u \in Threads, Provisions(u)'
      PROVE  call'[u].w \in issued' /\ worlds'[call'[u].w].ssh = NoKey
  <2>1. CASE u = t /\ ~(Provisions(t) /\ call'[t].w = W(t))
    BY <1>1, <1>g, <2>1
  <2>2. CASE (u # t \/ Provisions(t)) /\ call'[u].w = W(u)
    <3>1. Provisions(u) /\ W(u) \in issued /\ worlds[W(u)].ssh = NoKey /\ W(u) \in WorldIds
      BY <1>1, <1>f, <2>2 DEF IdentityInv
    <3>2. CASE u # t
      <4>1. ~(Provisions(t) /\ W(t) = W(u))
        BY <3>1, <3>2 DEF IdentityInv
      <4>2. worlds'[W(u)].ssh = NoKey
        BY <1>a, <3>1, <4>1 DEF IdentityKept
      <4> QED BY <1>a, <2>2, <3>1, <4>2 DEF IdentityKept
    <3>3. CASE u = t
      <4>1. RegistryUnchanged
        BY <1>1, <3>1, <3>3, ProvisionGoesOn DEF Provisions
      <4> QED BY <2>2, <3>1, <4>1 DEF RegistryUnchanged
    <3> QED BY <3>2, <3>3
  <2> QED BY <2>1, <2>2, <1>e DEF W
<1>2. ASSUME NEW u \in Threads, NEW v \in Threads, u # v, Provisions(u)', Provisions(v)'
      PROVE  call'[u].w # call'[v].w
  <2>1. ASSUME NEW x \in Threads, x # t, Provisions(x)'
        PROVE  call'[x].w \in issued /\ Provisions(x) /\ call'[x].w = W(x)
    BY <1>e, <1>f, <2>1 DEF IdentityInv, W
  <2> QED BY <1>2, <1>g, <2>1 DEF IdentityInv
<1>3. ASSUME NEW u \in Threads PROVE KnownNext(call'[u].w, call'[u].stored.ssh)
  <2>1. CASE u # t
    BY <1>a, <1>d, <1>e, <2>1, KnownStays DEF IdentityInv, W
  <2>2. CASE u = t
    <3>0. Learns(t)
      BY LearnsOf
    <3>1. CASE call'[t].stored = call[t].stored /\ call'[t].w = call[t].w
      BY <1>a, <1>d, <2>2, <3>1, KnownStays DEF IdentityInv, W
    <3>2. CASE Inserted(t) /\ call'[t].stored = call[t].stored
      <4>1. call[t].op = "create"
        BY <3>2, OpOfStep DEF Inserted, At, CreateSteps
      <4>2. call'[t].stored.ssh = NoKey
        BY <3>2, <4>1, UnknownSeen DEF IdentityInv
      <4> QED BY <2>2, <4>2 DEF KnownNext
    <3>3. CASE call'[t].stored = Seen(NoRow)
      BY <2>2, <3>3, UnknownSeen DEF KnownNext
    <3>4. CASE /\ call'[t].stored = Seen(worlds[call'[t].w])
               /\ RegistryUnchanged /\ Stored(worlds, call'[t].w)
      BY <1>a, <1>d, <2>2, <3>4, KnownSeen, KnownStays
    <3>5. CASE /\ call'[t].w \in DOMAIN call[t].todo
               /\ call'[t].stored = call[t].todo[call'[t].w]
      BY <1>a, <1>d, <2>2, <3>5, KnownStays DEF IdentityInv
    <3> QED BY <3>0, <3>1, <3>2, <3>3, <3>4, <3>5 DEF Learns
  <2> QED BY <2>1, <2>2
<1>4. ASSUME NEW u \in Threads, call'[u].op = "create" PROVE call'[u].stored = Seen(NoRow)
  <2>1. CASE u # t
    BY <1>4, <1>e, <2>1 DEF IdentityInv
  <2>2. CASE u = t /\ call'[t].stored = Seen(NoRow)
    BY <2>2
  <2>3. CASE u = t /\ call[t].op = "create"
    BY <2>2, <2>3, LearnsOf DEF IdentityInv, Learns
  <2> QED BY <1>4, <2>1, <2>2, <2>3, LearnsOf
<1>5. ASSUME NEW u \in Threads, NEW w \in DOMAIN call'[u].todo
      PROVE  KnownNext(w, call'[u].todo[w].ssh)
  <2>0. w \in WorldIds
    BY <1>d
  <2>1. CASE u # t
    BY <1>a, <1>d, <1>e, <2>0, <2>1, KnownStays DEF IdentityInv
  <2>2. CASE u = t
    <3>0. Learns(t)
      BY LearnsOf
    <3>1. CASE w \in DOMAIN call[t].todo /\ call'[t].todo[w] = call[t].todo[w]
      BY <1>a, <1>d, <2>0, <2>2, <3>1, KnownStays DEF IdentityInv
    <3>2. CASE call'[t].todo[w] = Seen(worlds[w]) /\ w \in StoredIds(worlds)
      BY <1>a, <1>d, <2>0, <2>2, <3>2, KnownSeen, KnownStays DEF StoredIds
    <3> QED BY <1>5, <2>2, <3>0, <3>1, <3>2 DEF Learns
  <2> QED BY <2>1, <2>2
<1> QED BY <1>1, <1>2, <1>3, <1>4, <1>5 DEF IdentityInv, W, Known, KnownNext

LEMMA IdentityStep == TypeOK /\ IdsInv /\ IdentityInv /\ [Next]_vars => IdentityInv'
<1> SUFFICES ASSUME TypeOK, IdsInv, IdentityInv, [Next]_vars PROVE IdentityInv'
  OBVIOUS
<1>1. CASE UNCHANGED <<worlds, issued, pc, call>>
  BY <1>1 DEF IdentityInv, Known, Provisions, W, Stored
<1>2. CASE \E t \in Threads : Moves(t)
  BY <1>2, IdentityMove
<1>3. CASE Restart
  <2>1. \A t \in Threads : pc'[t] = "idle" /\ call'[t] = NoCall
    BY <1>3 DEF Restart
  <2>2. NoCall.stored = Seen(NoRow) /\ DOMAIN NoCall.todo = {}
    BY DEF NoCall
  <2> QED BY <2>1, <2>2, UnknownSeen DEF IdentityInv, Known, Provisions, ProvisionSteps, W
<1> QED BY <1>1, <1>2, <1>3
    DEF Next, Moves, vars, GuestPowersOff, GuestRekeys, RegistryUnchanged

LEMMA IdentityInit == Init => IdentityInv
<1> SUFFICES ASSUME Init PROVE IdentityInv
  OBVIOUS
<1>1. \A t \in Threads : pc[t] = "idle" /\ call[t] = NoCall
  BY DEF Init
<1>2. NoCall.stored = Seen(NoRow) /\ DOMAIN NoCall.todo = {}
  BY DEF NoCall
<1> QED BY <1>1, <1>2, UnknownSeen DEF IdentityInv, Known, Provisions, ProvisionSteps, W

LEMMA IdentityHolds == Spec => [](TypeOK /\ IdsInv /\ IdentityInv)
<1>1. Init => TypeOK /\ IdsInv /\ IdentityInv
  BY TypeInit, IdsInit, IdentityInit
<1>2. TypeOK /\ IdsInv /\ IdentityInv /\ [Next]_vars => (TypeOK /\ IdsInv /\ IdentityInv)'
  BY TypeStep, IdsStep, IdentityStep
<1> QED BY <1>1, <1>2, PTL DEF Spec

\* However stale the row that a reconciliation works on, and whatever the guest
\* presents, the identity a world was created with is never overwritten.
THEOREM IdentityPinned == Spec => PinnedIdentity
<1> DEFINE Pins == \A w \in WorldIds : worlds[w].ssh # NoKey /\ Stored(worlds', w)
                                          => worlds'[w].ssh = worlds[w].ssh
<1>1. TypeOK /\ IdsInv /\ IdentityInv /\ [Next]_vars => [Pins]_vars
  <2> SUFFICES ASSUME TypeOK, IdsInv, IdentityInv, Next PROVE Pins
    OBVIOUS
  <2>1. CASE RegistryUnchanged
    BY <2>1 DEF RegistryUnchanged
  <2>2. CASE \E t \in Threads : Moves(t)
    BY <2>2, KeepsIdentities DEF IdentityKept
  <2>3. CASE Restart
    BY <2>3, Interrupts DEF Restart, TypeOK
  <2> QED BY <2>1, <2>2, <2>3 DEF Next, Moves, GuestPowersOff, GuestRekeys, RegistryUnchanged
<1> QED BY <1>1, IdentityHolds, PTL DEF Spec, PinnedIdentity

-----------------------------------------------------------------------------
(* If no client removes a world while it is being created, one handler at a *)
(* time works on a world.                                                   *)

\* A world that was issued and that no thread provisions: this stays so.
Quiet(w) == w \in issued /\ \A u \in Threads : ~(Provisions(u) /\ W(u) = w)

\* The statuses that a row has after it was provisioned.
Past == {"running", "stopped", "error", "destroying"}

\* The steps of an operation that has found its world settled.
Undisturbed == ReconcilePoints \cup
               {"start_reserve", "start_boot", "start_ready", "start_probe", "start_apply",
                "stop_shutdown", "stop_record"}

\* A handler that provisions finds its row as it left it, and a row in flight is
\* never what another handler has read and goes on to work on.
QuietInv ==
    /\ \A t \in Threads : Provisions(t) => worlds[W(t)].status = "provisioning"
    /\ \A t \in Threads : call[t].stored.status \in Past => Quiet(W(t))
    /\ \A t \in Threads : \A w \in DOMAIN call[t].todo : call[t].todo[w].status \in Past => Quiet(w)
    /\ \A t \in Threads : call[t].op = "delete" => Quiet(W(t))
    /\ \A t \in Threads : pc[t] \in Undisturbed => call[t].stored.status \in Past
    /\ \A t \in Threads : Destroys(t) => worlds[W(t)].status = "destroying"
    /\ \A t \in Threads : pc[t] \in Undisturbed \ ReconcilePoints => Stored(worlds, W(t))

\* The invariants that the results below rest on.
BaseInv == TypeOK /\ LockInv /\ IdsInv /\ IdentityInv

\* A handler that may change the status, the machine or the gateway's view of
\* its world.
Exclusive(t) ==
    Provisions(t) \/ Destroys(t) \/ pc[t] \in Undisturbed \cup {"delete_mark"}

LEMMA ExclusiveLocked ==
    ASSUME TypeOK, NEW t \in Threads, Exclusive(t), ~Provisions(t)
    PROVE  InWorldSection(t)
<1>1. CASE Destroys(t)
  BY <1>1 DEF Destroys, InWorldSection, WorldSteps
<1>2. CASE pc[t] \in Undisturbed \cup {"delete_mark"}
  <2>1. call[t].op # "create"
    <3>1. pc[t] \in StepsOf[call[t].op] /\ call[t].op \in Operation
      BY <1>2, Locals DEF Undisturbed, ReconcilePoints
    <3> QED BY <1>2, <3>1, OpOfStep DEF Undisturbed
  <2> QED BY <1>2, <2>1 DEF Undisturbed, InWorldSection, WorldSteps
<1> QED BY <1>1, <1>2 DEF Exclusive

LEMMA ExclusiveQuiet ==
    ASSUME TypeOK, IdentityInv, QuietInv, NEW t \in Threads, Exclusive(t)
    PROVE  W(t) \in issued /\ (~Provisions(t) => Quiet(W(t)))
<1>1. CASE Provisions(t)
  BY <1>1 DEF IdentityInv
<1>2. CASE Destroys(t) \/ pc[t] = "delete_mark"
  <2>1. call[t].op = "delete"
    BY <1>2, Locals, OpOfStep DEF Destroys
  <2> QED BY <2>1 DEF QuietInv, Quiet
<1>3. CASE pc[t] \in Undisturbed
  BY <1>3 DEF QuietInv, Quiet
<1> QED BY <1>1, <1>2, <1>3 DEF Exclusive

\* Two such handlers are never at work on one world.
LEMMA Alone ==
    ASSUME BaseInv, QuietInv, NEW t \in Threads, NEW u \in Threads, t # u, Exclusive(t), Exclusive(u)
    PROVE  W(t) # W(u)
<1> USE DEF BaseInv
<1>1. CASE Provisions(t) /\ Provisions(u)
  BY <1>1 DEF IdentityInv
<1>2. CASE Provisions(t) /\ ~Provisions(u)
  BY <1>2, ExclusiveQuiet DEF Quiet
<1>3. CASE ~Provisions(t) /\ Provisions(u)
  BY <1>3, ExclusiveQuiet DEF Quiet
<1>4. CASE ~Provisions(t) /\ ~Provisions(u)
  <2>1. WorldKey(W(t)) \in guards[t] /\ WorldKey(W(u)) \in guards[u]
    BY <1>4, ExclusiveLocked DEF LockInv
  <2> QED BY <2>1 DEF LockInv
<1> QED BY <1>1, <1>2, <1>3, <1>4

-----------------------------------------------------------------------------
(* What the steps of a thread do to the machines and to the gateway's view *)

OnlyMachine(w) == \A x \in WorldIds \ {w} : machine'[x] = machine[x]

\* The machine of the thread's world changes while its row stays: it is built,
\* booted, halted or taken apart.
Builds(t) ==
    Provisions(t) /\ RegistryUnchanged /\ UNCHANGED inactive /\ OnlyMachine(W(t))

Boots(t) ==
    /\ At(t, "start_boot") /\ RegistryUnchanged /\ UNCHANGED inactive /\ OnlyMachine(W(t))

Halts(t) ==
    /\ At(t, "stop_shutdown") /\ RegistryUnchanged /\ UNCHANGED inactive /\ OnlyMachine(W(t))
    /\ machine'[W(t)].domain # "on"

Dismantles(t) ==
    /\ Destroys(t) /\ RegistryUnchanged /\ UNCHANGED inactive /\ OnlyMachine(W(t))
    /\ machine'[W(t)].domain \in {machine[W(t)].domain, "off", "none"}
    /\ At(t, "remove_files") => machine'[W(t)].domain = machine[W(t)].domain

LEMMA MachineEffect ==
    ASSUME TypeOK, NEW t \in Threads, Moves(t), machine' # machine
    PROVE  Builds(t) \/ Boots(t) \/ Halts(t) \/ Dismantles(t)
<1> USE Locals DEF OnlyMachine
<1>0. machine \in [WorldIds -> Machine]
  BY DEF TypeOK
<1>1. CASE create_overlay(t) \/ create_directory(t) \/ create_define(t) \/ create_boot(t)
           \/ create_wait(t) \/ create_setup(t)
  <2>1. RegistryUnchanged /\ UNCHANGED inactive
    BY <1>1 DEF create_overlay, create_directory, create_define, create_boot, create_wait, create_setup,
                MachineStep
  <2>2. OnlyMachine(W(t))
    BY <1>0, <1>1 DEF create_overlay, create_directory, create_define, create_boot, create_wait,
       create_setup, HostUnchanged
  <2>3. pc[t] \in {"create_overlay", "create_directory", "create_define", "create_boot", "create_wait",
                   "create_setup"}
    BY <1>1 DEF create_overlay, create_directory, create_define, create_boot, create_wait, create_setup, At
  <2>4. Provisions(t)
    BY <2>3, OpOfStep DEF Provisions, ProvisionSteps, CreateSteps
  <2> QED BY <2>1, <2>2, <2>4 DEF Builds
<1>2. CASE start_boot(t)
  BY <1>0, <1>2 DEF start_boot, Boots, MachineStep, HostUnchanged
<1>3. CASE stop_shutdown(t)
  <2>1. machine' = [machine EXCEPT ![W(t)].domain = "off"]
    BY <1>3 DEF stop_shutdown, HostUnchanged
  <2>2. machine'[W(t)].domain = "off"
    BY <1>0, <2>1 DEF Machine
  <2> QED BY <1>0, <1>3, <2>1, <2>2 DEF stop_shutdown, Halts, MachineStep
<1>4. CASE remove_domain(t) \/ remove_files(t)
  <2>1. RegistryUnchanged /\ UNCHANGED inactive /\ pc[t] \in {"remove_domain", "remove_files"}
    BY <1>4 DEF remove_domain, remove_files, MachineStep, At
  <2>2. OnlyMachine(W(t))
    BY <1>0, <1>4 DEF remove_domain, remove_files, HostUnchanged
  <2>3. CASE call[t].op = "create"
    BY <2>1, <2>2, <2>3 DEF Builds, Provisions, ProvisionSteps
  <2>4. CASE call[t].op = "delete"
    <3>1. Destroys(t)
      BY <2>1, <2>4 DEF Destroys
    <3>2. /\ machine'[W(t)].domain \in {machine[W(t)].domain, "off", "none"}
          /\ At(t, "remove_files") => machine'[W(t)].domain = machine[W(t)].domain
      <4>1. CASE remove_files(t)
        BY <1>0, <4>1 DEF remove_files, Machine
      <4>2. CASE remove_domain(t)
        BY <1>0, <4>2 DEF remove_domain, Machine, HostUnchanged, At
      <4> QED BY <1>4, <4>1, <4>2
    <3> QED BY <2>1, <2>2, <3>1, <3>2 DEF Dismantles
  <2> QED BY <2>1, <2>3, <2>4, OpOfStep
<1> QED
  BY <1>1, <1>2, <1>3, <1>4 DEF HostUnchanged, LocalStep, RegistryStep, Moves, Receive, Accept, Handle,
     CreateStep, lock_create, create_lookup, create_insert,
     create_running, create_failed, read, get_read, try_lock_world, ReconcileSteps, inspect,
     reconcile_reserve, reconcile_running, apply_world, reconcile_stopped, reconcile_error, ListStep,
     list_read, list_next, list_unlock, list_reread, list_usage, PowerStep, start_check,
     start_reserve, start_ready, start_probe, start_apply, stop_check,
     stop_record, LockedStep, delete_mark, delete_failed, delete_row,
     rename_write, exec_check, exec_run, final_read, Respond

\* The gateway is told with the change of a status, by every step that changes
\* one to running or from it, the creation aside.
GatewayTold(t) ==
    \/ UNCHANGED inactive /\ pc[t] \notin {"reconcile_running", "start_apply"}
    \/ /\ inactive' = inactive \ {W(t)} /\ pc[t] \in {"reconcile_running", "start_apply"}
    \/ /\ inactive' = inactive \cup {W(t)} /\ UNCHANGED issued
       /\ pc[t] \in {"reconcile_running", "start_apply", "reconcile_stopped", "stop_record",
                     "reconcile_error", "delete_mark"}
       /\ worlds'[W(t)].status \in {"error", "stopped", "destroying"}

LEMMA TellsGateway == ASSUME TypeOK, NEW t \in Threads, Moves(t) PROVE GatewayTold(t)
<1> USE Locals DEF RegistryStep
<1>0. worlds \in [WorldIds -> Row]
  BY DEF TypeOK
<1>1. CASE reconcile_running(t) \/ start_apply(t)
  BY <1>0, <1>1, MarksError DEF reconcile_running, start_apply, apply_world, At, GatewayTold, Becomes
<1>2. CASE reconcile_stopped(t) \/ stop_record(t)
  <2>1. ASSUME record_stopped(t, {W(t)}) PROVE worlds'[W(t)].status = "stopped"
    <3>1. PICK bytes \in DiskBytes : worlds' = mark_stopped(worlds, W(t), bytes)
      BY <2>1 DEF record_stopped
    <3> QED BY <1>0, <3>1, MarksStopped DEF Becomes
  <2> QED BY <1>2, <2>1 DEF reconcile_stopped, stop_record, record_stopped, At, GatewayTold
<1>3. CASE reconcile_error(t)
  BY <1>0, <1>3, MarksError DEF reconcile_error, At, GatewayTold, Becomes
<1>4. CASE delete_mark(t)
  BY <1>0, <1>4, MarksDestroying DEF delete_mark, At, GatewayTold, Becomes
<1>5. CASE ~(reconcile_running(t) \/ start_apply(t) \/ reconcile_stopped(t) \/ stop_record(t)
             \/ reconcile_error(t) \/ delete_mark(t))
  <2>1. UNCHANGED inactive
    BY <1>5 DEF LocalStep, MachineStep, Moves, Receive, Accept, Handle,
     CreateStep, lock_create, create_lookup, create_insert, create_overlay, create_directory,
     create_define, create_boot, create_wait, create_setup,
     create_running, create_failed, read, get_read, try_lock_world, ReconcileSteps, inspect,
     reconcile_reserve, ListStep,
     list_read, list_next, list_unlock, list_reread, list_usage, PowerStep, start_check,
     start_reserve, start_boot, start_ready, start_probe, record_stopped, stop_check, stop_shutdown,
     LockedStep, remove_domain, remove_files, delete_failed, delete_row,
     rename_write, exec_check, exec_run, final_read, Respond
  <2>2. pc[t] \notin {"reconcile_running", "start_apply"}
    BY <1>5, Dispatch
  <2> QED BY <2>1, <2>2 DEF GatewayTold
<1> QED BY <1>1, <1>2, <1>3, <1>4, <1>5

\* A thread leaves the worlds alone that it does not work on exclusively.
LEMMA Touches ==
    ASSUME TypeOK, NEW t \in Threads, Moves(t), NEW w \in WorldIds, w \in issued,
           ~(Exclusive(t) /\ W(t) = w)
    PROVE  /\ SameRow(worlds, worlds', w) /\ machine'[w] = machine[w]
           /\ w \in inactive' <=> w \in inactive
<1> USE Locals DEF Undisturbed, ReconcilePoints
<1>1. SameRow(worlds, worlds', w)
  <2>1. CASE RegistryUnchanged \/ Inserted(t) \/ Renamed(t)
    BY <2>1 DEF RegistryUnchanged, Inserted, Renamed, OnlyRow, SameRow
  <2>2. CASE Reserves(t) \/ Errs(t) \/ Stops(t) \/ Dooms(t) \/ Runs(t) \/ Deleted(t)
    <3>1. OnlyRow(worlds, worlds', W(t))
      BY <2>2 DEF Reserves, Errs, Stops, Dooms, Runs, Deleted, KeepsIdentity
    <3>2. pc[t] \in {"reconcile_reserve", "start_reserve", "reconcile_running", "start_apply",
                     "reconcile_error", "reconcile_stopped", "start_probe", "stop_record", "delete_mark",
                     "create_failed", "create_running", "delete_failed", "delete_row"}
      BY <2>2 DEF Reserves, Errs, Stops, Dooms, Runs, Deleted, At
    <3>3. Exclusive(t)
      <4>1. CASE pc[t] \in {"create_failed", "create_running"}
        BY <4>1, OpOfStep DEF Exclusive, Provisions, ProvisionSteps, CreateSteps
      <4>2. CASE pc[t] \in {"delete_failed", "delete_row"}
        BY <4>2, OpOfStep DEF Exclusive, Destroys
      <4> QED BY <3>2, <4>1, <4>2 DEF Exclusive
    <3> QED BY <3>1, <3>3 DEF OnlyRow, SameRow
  <2> QED BY <2>1, <2>2, Effects DEF RowEffect
<1>2. machine'[w] = machine[w]
  <2>1. CASE machine' = machine
    BY <2>1
  <2>2. CASE Builds(t) \/ Boots(t) \/ Halts(t) \/ Dismantles(t)
    <3>1. OnlyMachine(W(t)) /\ Exclusive(t)
      BY <2>2 DEF Builds, Boots, Halts, Dismantles, Exclusive, At
    <3> QED BY <3>1 DEF OnlyMachine
  <2> QED BY <2>1, <2>2, MachineEffect
<1>3. w \in inactive' <=> w \in inactive
  BY TellsGateway DEF GatewayTold, Exclusive
<1> QED BY <1>1, <1>2, <1>3

-----------------------------------------------------------------------------
(* How a thread comes to the steps that work on a settled world *)

LEMMA AfterReconcileLeaves ==
    ASSUME NEW op \in {"list", "get", "start", "stop"}
    PROVE  AfterReconcile(op) \in {"list_unlock", "final_read", "start_check", "stop_check"}
BY DEF AfterReconcile

\* Every other step leads elsewhere.
LEMMA ArrivesBy ==
    ASSUME TypeOK, NEW t \in Threads, Moves(t), pc'[t] \in Undisturbed
    PROVE  /\ \/ try_lock_world(t) \/ inspect(t) \/ reconcile_reserve(t) \/ list_next(t)
              \/ start_check(t) \/ start_reserve(t) \/ start_boot(t) \/ start_ready(t)
              \/ stop_check(t) \/ stop_shutdown(t)
           /\ ~\E out : Finish(t, out)
<1> USE Locals DEF Undisturbed, ReconcilePoints
<1>0. call \in [Threads -> Call] /\ pc \in [Threads -> Steps]
  BY DEF TypeOK
<1>1. ~\E out : Finish(t, out)
  BY <1>0 DEF Finish, Goto
<1>2. ~(Receive(t) \/ Respond(t) \/ final_read(t) \/ read(t) \/ get_read(t))
  BY <1>0, <1>1 DEF Receive, Accept, Respond, final_read, read, get_read, Goto
<1>3. ~CreateStep(t)
  BY <1>0, <1>1 DEF CreateStep, lock_create, create_lookup, create_insert, create_overlay,
     create_directory, create_define, create_boot, create_wait, create_setup, create_running,
     create_failed, Goto
<1>4. ~(reconcile_running(t) \/ reconcile_stopped(t) \/ reconcile_error(t))
  <2>1. SUFFICES ASSUME pc[t] \in {"reconcile_running", "reconcile_stopped", "reconcile_error"},
                        Goto(t, AfterReconcile(call[t].op))
                 PROVE  FALSE
    BY <1>1 DEF reconcile_running, apply_world, reconcile_stopped, reconcile_error, At
  <2>2. call[t].op \in {"list", "get", "start", "stop"}
    BY <2>1, OpOfStep
  <2> QED BY <1>0, <2>1, <2>2, AfterReconcileLeaves DEF Goto
<1>5. ~(list_read(t) \/ list_unlock(t) \/ list_reread(t) \/ list_usage(t))
  BY <1>0, <1>1 DEF list_read, list_unlock, list_reread, list_usage, Goto, At
<1>6. ~(start_probe(t) \/ start_apply(t) \/ stop_record(t))
  BY <1>0, <1>1 DEF start_probe, start_apply, stop_record, apply_world, Goto
<1>7. ~(delete_mark(t) \/ delete_failed(t) \/ delete_row(t) \/ rename_write(t) \/ exec_check(t)
        \/ exec_run(t))
  BY <1>0, <1>1 DEF delete_mark, delete_failed, delete_row, rename_write, exec_check, exec_run, Goto
<1>8. ~(remove_domain(t) \/ remove_files(t))
  BY <1>0 DEF remove_domain, remove_files, AfterCleanup, Goto
<1> QED
  BY <1>1, <1>2, <1>3, <1>4, <1>5, <1>6, <1>7, <1>8
  DEF Moves, Handle, ReconcileSteps, ListStep, PowerStep, LockedStep

LEMMA Arrives ==
    ASSUME TypeOK, NEW t \in Threads, Moves(t), pc'[t] \in Undisturbed
    PROVE  \/ /\ pc[t] \in Undisturbed /\ call'[t].w = W(t) /\ call'[t].stored = call[t].stored
              /\ RegistryUnchanged \/ Reserves(t)
              /\ pc'[t] \notin ReconcilePoints => pc[t] \notin ReconcilePoints
           \/ pc'[t] = "inspect" /\ call'[t].stored.status \in Reconciled
           \/ /\ pc'[t] \in {"start_reserve", "stop_shutdown"}
              /\ worlds[W(t)].status \in {"stopped", "running"} /\ RegistryUnchanged
              /\ call'[t].w = W(t) /\ call'[t].stored = Seen(worlds[W(t)])
<1> USE Locals
<1>0. call \in [Threads -> Call] /\ pc \in [Threads -> Steps] /\ worlds \in [WorldIds -> Row]
  BY DEF TypeOK
<1>1. ~\E out : Finish(t, out)
  BY ArrivesBy
<1>2. CASE try_lock_world(t)
  <2>1. /\ pc[t] = "lock" /\ pc'[t] = StepUnderLock(call[t])
        /\ call' = [call EXCEPT ![t].attempts = 0]
    BY <1>0, <1>1, <1>2 DEF try_lock_world, At, Goto
  <2>2. call'[t].stored = call[t].stored
    BY <1>0, <2>1 DEF Call
  <2>3. call[t].op \in {"get", "start", "stop", "rename", "delete", "exec"}
    BY <2>1, OpOfStep
  <2>4. pc'[t] = ReconcileStep(call[t].op, call[t].stored) /\ call[t].op \in {"get", "start", "stop"}
    BY <2>1, <2>3 DEF StepUnderLock, Undisturbed, ReconcilePoints
  <2>5. call[t].stored.status \in Reconciled /\ pc'[t] = "inspect"
    BY <2>4, AfterReconcileLeaves DEF ReconcileStep, Undisturbed, ReconcilePoints
  <2> QED BY <2>2, <2>5
<1>3. CASE list_next(t)
  <2>1. pc[t] = "list_next"
    BY <1>3 DEF list_next, At
  <2> DEFINE Rest(w) == [x \in DOMAIN call[t].todo \ {w} |-> call[t].todo[x]]
  <2>2. PICK w \in DOMAIN call[t].todo :
           /\ call' = [call EXCEPT ![t].todo = Rest(w), ![t].w = w,
                                   ![t].stored = call[t].todo[w], ![t].attempts = 0]
           /\ pc'[t] = ReconcileStep("list", call[t].todo[w])
    BY <1>0, <1>3, <2>1 DEF list_next, Goto, Undisturbed, ReconcilePoints
  <2>3. call'[t].stored = call[t].todo[w]
    BY <1>0, <2>2 DEF Call
  <2>4. call[t].todo[w].status \in Reconciled /\ pc'[t] = "inspect"
    BY <2>2, AfterReconcileLeaves DEF ReconcileStep, Undisturbed, ReconcilePoints
  <2> QED BY <2>3, <2>4
<1>4. CASE start_check(t) \/ stop_check(t)
  <2>1. /\ call' = [call EXCEPT ![t].stored = Seen(worlds[W(t)])] /\ RegistryUnchanged
        /\ worlds[W(t)].status \in {"stopped", "running"}
        /\ pc'[t] \in {"start_reserve", "stop_shutdown"}
    BY <1>0, <1>1, <1>4 DEF start_check, stop_check, Goto, LocalStep
  <2>2. call'[t].w = W(t) /\ call'[t].stored = Seen(worlds[W(t)])
    BY <1>0, <2>1 DEF Call, W
  <2> QED BY <2>1, <2>2
<1>5. CASE inspect(t)
  <2>1. /\ pc[t] = "inspect" /\ RegistryUnchanged
        /\ \/ UNCHANGED call
           \/ \E n : call' = [call EXCEPT ![t].attempts = n] \/ call' = [call EXCEPT ![t].key = n]
    BY <1>5 DEF inspect, retry, LocalStep, At
  <2>2. call'[t].w = W(t) /\ call'[t].stored = call[t].stored
    BY <1>0, <2>1 DEF Call, W
  <2>3. pc'[t] \in ReconcilePoints
    BY <1>0, <1>5 DEF inspect, retry, Goto, ReconcilePoints, At
  <2> QED BY <2>1, <2>2, <2>3 DEF Undisturbed, ReconcilePoints
<1>6. CASE reconcile_reserve(t)
  <2>1. UNCHANGED call /\ pc[t] = "reconcile_reserve" /\ pc'[t] = "reconcile_running"
    BY <1>0, <1>1, <1>6 DEF reconcile_reserve, At, Goto
  <2>2. RegistryUnchanged \/ Reserves(t)
    BY <1>6, <2>1, EffectReconcile DEF ReconcileSteps, RowEffect, Inserted, Errs, Stops, Dooms, Runs, Renamed,
       Deleted, At
  <2> QED BY <2>1, <2>2 DEF W, Undisturbed, ReconcilePoints
<1>7. CASE start_reserve(t) \/ start_boot(t) \/ stop_shutdown(t)
  <2>1. UNCHANGED call /\ pc[t] \in {"start_reserve", "start_boot", "stop_shutdown"}
    BY <1>1, <1>7 DEF start_reserve, start_boot, stop_shutdown, At
  <2>2. RegistryUnchanged \/ Reserves(t)
    BY <1>7, <2>1, EffectPower DEF PowerStep, RowEffect, Inserted, Errs, Stops, Dooms, Runs, Renamed,
       Deleted, At
  <2> QED BY <2>1, <2>2 DEF W, Undisturbed, ReconcilePoints
<1>8. CASE start_ready(t)
  <2>1. /\ pc[t] = "start_ready" /\ RegistryUnchanged
        /\ UNCHANGED call \/ \E n : call' = [call EXCEPT ![t].key = n]
    BY <1>8 DEF start_ready, LocalStep, At
  <2>2. call'[t].w = W(t) /\ call'[t].stored = call[t].stored
    BY <1>0, <2>1 DEF Call, W
  <2> QED BY <2>1, <2>2 DEF Undisturbed, ReconcilePoints
<1> QED BY <1>2, <1>3, <1>4, <1>5, <1>6, <1>7, <1>8, ArrivesBy

\* A removal keeps its world, and begins with the request of a client.
LEMMA RemovalOf ==
    ASSUME TypeOK, NEW t \in Threads, Moves(t), call'[t].op = "delete"
    PROVE  \/ call[t].op = "delete" /\ call'[t].w = W(t)
           \/ call'[t].w \in issued /\ MayRemove(call'[t].w)
<1> USE Locals
<1>0. call \in [Threads -> Call] /\ pc \in [Threads -> Steps]
  BY DEF TypeOK
<1>1. CASE Respond(t)
  <2>1. call'[t].op = "list"
    BY <1>0, <1>1 DEF Respond, NoCall
  <2> QED BY <2>1
<1>2. CASE Receive(t)
  <2>1. ASSUME NEW op, NEW w, NEW q, NEW step, Accept(t, op, w, q, step)
        PROVE  call'[t].op = op /\ call'[t].w = w
    <3>1. call'[t] = [NoCall EXCEPT !.op = op, !.w = w, !.request = q]
      BY <1>0, <2>1 DEF Accept
    <3> QED BY <3>1, NoCallTyped DEF Call
  <2>2. PICK w \in issued : MayRemove(w) /\ Accept(t, "delete", w, AnyRequest, "lock")
    BY <1>2, <2>1 DEF Receive
  <2>3. call'[t].w = w
    BY <2>1, <2>2
  <2> QED BY <2>2, <2>3
<1>3. CASE ~Receive(t) /\ ~Respond(t)
  <2>1. pc[t] \notin {"idle", "return"}
    BY <1>3, Dispatch
  <2>2. call[t].op = "delete" /\ pc[t] \in StepsOf["delete"]
    BY <2>1, LearnsOf
  <2>3. pc[t] \in {"lock", "delete_mark", "remove_domain", "remove_files", "delete_failed", "delete_row"}
    BY <2>2 DEF StepsOf
  <2>4. try_lock_world(t) \/ delete_mark(t) \/ remove_domain(t) \/ remove_files(t)
        \/ delete_failed(t) \/ delete_row(t)
    BY <1>3, <2>3, Dispatch
  <2>5. \/ UNCHANGED call \/ call' = [call EXCEPT ![t].attempts = 0] \/ \E out : Finish(t, out)
    BY <2>4 DEF try_lock_world, delete_mark, remove_domain, remove_files, delete_failed, delete_row
  <2>6. ASSUME NEW out, Finish(t, out) PROVE call'[t].w = W(t)
    <3>1. call'[t] = [NoCall EXCEPT !.op = call[t].op, !.w = call[t].w, !.out = out]
      BY <1>0, <2>6 DEF Finish
    <3> QED BY <3>1, NoCallTyped DEF Call, W
  <2>7. call'[t].w = W(t)
    BY <1>0, <2>5, <2>6 DEF Call, W
  <2> QED BY <2>2, <2>7
<1> QED BY <1>1, <1>2, <1>3

\* A removal reaches the machine by marking the row, and then stays at work.
LEMMA RemovalStarts ==
    ASSUME TypeOK, NEW t \in Threads, Moves(t), Destroys(t)'
    PROVE  Destroys(t) \/ Dooms(t)
<1> USE Locals
<1>0. call \in [Threads -> Call] /\ pc \in [Threads -> Steps] /\ worlds \in [WorldIds -> Row]
  BY DEF TypeOK
<1> SUFFICES ASSUME ~Destroys(t) PROVE Dooms(t)
  OBVIOUS
<1>1. /\ pc'[t] \in {"remove_domain", "remove_files", "delete_failed", "delete_row"}
      /\ call'[t].op = "delete"
  BY DEF Destroys
<1>2. ~Receive(t) /\ ~Respond(t) /\ ~\E out : Finish(t, out)
  BY <1>0, <1>1 DEF Receive, Accept, Respond, Finish, Goto
<1>3. CASE call[t].op = "delete"
  <2>1. pc[t] \notin {"remove_domain", "remove_files", "delete_failed", "delete_row"}
    BY <1>3 DEF Destroys
  <2>2. pc[t] \in StepsOf["delete"]
    <3>1. pc[t] \notin {"idle", "return"}
      BY <1>2, Dispatch
    <3> QED BY <1>3, <3>1
  <2>3. pc[t] \in {"lock", "delete_mark"}
    BY <2>1, <2>2 DEF StepsOf
  <2>4. try_lock_world(t) \/ delete_mark(t)
    BY <1>2, <2>3, Dispatch
  <2>5. ~try_lock_world(t)
    BY <1>0, <1>1, <1>2, <1>3 DEF try_lock_world, StepUnderLock, Goto
  <2> QED BY <1>0, <1>2, <2>4, <2>5, MarksDestroying
          DEF delete_mark, Dooms, KeepsIdentity, Becomes, RegistryStep
<1>4. CASE call[t].op # "delete"
  BY <1>2, <1>4, <1>1, RemovalOf, LearnsOf, Dispatch
<1> QED BY <1>3, <1>4

QuietNext(w) == w \in issued' /\ \A u \in Threads : ~(Provisions(u)' /\ call'[u].w = w)

\* A world stays quiet: its id is not issued a second time.
LEMMA QuietStays ==
    ASSUME TypeOK, IdsInv, IdentityInv, NEW t \in Threads, Moves(t)
    PROVE  \A w \in WorldIds : Quiet(w) => QuietNext(w)
<1> SUFFICES ASSUME NEW w \in WorldIds, Quiet(w) PROVE QuietNext(w)
  OBVIOUS
<1>0. call \in [Threads -> Call]
  BY DEF TypeOK
<1>1. w \in issued' /\ w \in issued
  BY KeepsIdentities DEF IdentityKept, Quiet
<1>2. ASSUME NEW u \in Threads, Provisions(u)', call'[u].w = w PROVE FALSE
  <2>1. CASE u # t
    <3>1. Provisions(u) /\ W(u) = w
      BY <1>2, <2>1, OthersKept DEF Provisions, W
    <3> QED BY <3>1 DEF Quiet
  <2>2. CASE u = t /\ Provisions(t)
    <3>1. W(t) = w
      BY <1>2, <2>2, ProvisionGoesOn DEF Provisions, W
    <3> QED BY <2>2, <3>1 DEF Quiet
  <2>3. CASE u = t /\ Inserted(t)
    <3>1. PICK x \in WorldIds \ issued : call' = [call EXCEPT ![t].w = x]
      BY <2>3 DEF Inserted
    <3>2. call'[t].w = x
      BY <1>0, <3>1 DEF Call
    <3> QED BY <1>1, <1>2, <2>3, <3>1, <3>2
  <2> QED BY <1>2, <2>1, <2>2, <2>3, ProvisionStarts
<1> QED BY <1>1, <1>2 DEF QuietNext

\* A row that is read settled is the row of a quiet world.
LEMMA QuietSeen ==
    ASSUME TypeOK, IdsInv, QuietInv, NEW w \in WorldIds, Seen(worlds[w]).status \in Past
    PROVE  Quiet(w)
<1>1. worlds[w].status \in Past
  BY DEF Seen
<1>2. w \in issued
  BY <1>1 DEF IdsInv, Stored, Past
<1> QED BY <1>1, <1>2 DEF QuietInv, Quiet, Past

LEMMA QuietMove ==
    ASSUME RemoveWhileCreating = FALSE, BaseInv, QuietInv, NEW t \in Threads, Moves(t)
    PROVE  QuietInv'
<1> USE Locals DEF BaseInv
<1>0. /\ call \in [Threads -> Call] /\ pc \in [Threads -> Steps] /\ worlds \in [WorldIds -> Row]
      /\ issued \subseteq WorldIds
  BY DEF TypeOK
<1>b. TypeOK'
  BY TypeStep DEF Next, Moves
<1>d. \A u \in Threads : /\ call'[u].w \in WorldIds
                         /\ \A w \in DOMAIN call'[u].todo : w \in WorldIds
  BY <1>b, SnapshotTyped DEF TypeOK, Call
<1>e. \A u \in Threads \ {t} : pc'[u] = pc[u] /\ call'[u] = call[u]
  BY OthersKept
<1>q. \A w \in WorldIds : Quiet(w) => QuietNext(w)
  BY QuietStays
\* What another thread relies on does not change.
<1>r. ASSUME NEW u \in Threads, u # t, Exclusive(u)
      PROVE  worlds'[W(u)].status = worlds[W(u)].status /\ call'[u].w = W(u)
  <2>1. W(u) \in issued /\ ~(Exclusive(t) /\ W(t) = W(u))
    BY <1>r, ExclusiveQuiet, Alone
  <2> QED BY <1>e, <1>r, <2>1, Touches DEF SameRow, W
<1>1. ASSUME NEW u \in Threads, Provisions(u)'
      PROVE  worlds'[call'[u].w].status = "provisioning"
  <2>1. CASE u # t
    <3>1. Provisions(u)
      BY <1>1, <1>e, <2>1 DEF Provisions
    <3> QED BY <1>r, <2>1, <3>1 DEF QuietInv, Exclusive
  <2>2. CASE u = t /\ Provisions(t)
    BY <1>1, <2>2, ProvisionGoesOn DEF QuietInv, RegistryUnchanged, W, Provisions
  <2>3. CASE u = t /\ Inserted(t)
    <3>1. PICK x \in WorldIds \ issued : /\ call' = [call EXCEPT ![t].w = x]
                                         /\ worlds'[x].status = "provisioning"
      BY <2>3 DEF Inserted
    <3>2. call'[t].w = x
      BY <1>0, <3>1 DEF Call
    <3> QED BY <2>3, <3>1, <3>2
  <2> QED BY <1>1, <2>1, <2>2, <2>3, ProvisionStarts
<1>2. ASSUME NEW u \in Threads, call'[u].stored.status \in Past PROVE QuietNext(call'[u].w)
  <2>1. CASE u # t
    BY <1>2, <1>e, <1>q, <2>1 DEF QuietInv, W
  <2>2. CASE u = t
    <3>1. CASE call'[t].stored = call[t].stored /\ call'[t].w = call[t].w
      BY <1>2, <1>q, <2>2, <3>1 DEF QuietInv, W
    <3>2. CASE call'[t].stored = Seen(NoRow)
      BY <1>2, <2>2, <3>2, UnknownSeen DEF Past
    <3>3. CASE call'[t].stored = Seen(worlds[call'[t].w])
      BY <1>2, <1>d, <1>q, <2>2, <3>3, QuietSeen
    <3>4. CASE call'[t].w \in DOMAIN call[t].todo /\ call'[t].stored = call[t].todo[call'[t].w]
      BY <1>2, <1>d, <1>q, <2>2, <3>4 DEF QuietInv
    <3>5. CASE Inserted(t) /\ call'[t].stored = call[t].stored
      <4>1. call[t].stored = Seen(NoRow)
        BY <3>5, OpOfStep DEF Inserted, At, CreateSteps, IdentityInv
      <4> QED BY <1>2, <2>2, <3>5, <4>1, UnknownSeen DEF Past
    <3> QED BY <3>1, <3>2, <3>3, <3>4, <3>5, LearnsOf DEF Learns
  <2> QED BY <2>1, <2>2
<1>3. ASSUME NEW u \in Threads, NEW w \in DOMAIN call'[u].todo, call'[u].todo[w].status \in Past
      PROVE  QuietNext(w)
  <2>0. w \in WorldIds
    BY <1>d
  <2>1. CASE u # t
    BY <1>3, <1>e, <1>q, <2>0, <2>1 DEF QuietInv
  <2>2. CASE u = t
    BY <1>3, <1>q, <2>0, <2>2, LearnsOf, QuietSeen DEF Learns, QuietInv
  <2> QED BY <2>1, <2>2
<1>4. ASSUME NEW u \in Threads, call'[u].op = "delete" PROVE QuietNext(call'[u].w)
  <2>1. CASE u # t
    BY <1>4, <1>e, <1>q, <2>1 DEF QuietInv, W
  <2>2. CASE u = t /\ call[t].op = "delete" /\ call'[t].w = W(t)
    BY <1>q, <2>2 DEF QuietInv
  <2>3. CASE u = t /\ call'[t].w \in issued /\ MayRemove(call'[t].w)
    <3>1. ASSUME NEW v \in Threads, Provisions(v), W(v) = call'[t].w PROVE Creating(v, call'[t].w)
      BY <2>3, <3>1 DEF Creating, Provisions, ProvisionSteps, At
    <3>2. Quiet(call'[t].w)
      BY <2>3, <3>1 DEF MayRemove, Quiet
    <3> QED BY <1>d, <1>q, <2>3, <3>2
  <2> QED BY <1>4, <2>1, <2>2, <2>3, RemovalOf
<1>5. ASSUME NEW u \in Threads, pc'[u] \in Undisturbed
      PROVE  /\ call'[u].stored.status \in Past
             /\ pc'[u] \notin ReconcilePoints => Stored(worlds', call'[u].w)
  <2>1. CASE u # t
    <3>1. Exclusive(u) /\ pc[u] \in Undisturbed /\ pc'[u] = pc[u] /\ call'[u] = call[u]
      BY <1>5, <1>e, <2>1 DEF Exclusive
    <3> QED BY <1>r, <2>1, <3>1 DEF QuietInv, Stored
  <2>2. CASE u = t
    <3>1. CASE /\ pc[t] \in Undisturbed /\ call'[t].w = W(t) /\ call'[t].stored = call[t].stored
               /\ RegistryUnchanged \/ Reserves(t)
               /\ pc'[t] \notin ReconcilePoints => pc[t] \notin ReconcilePoints
      <4>1. worlds'[W(t)].status = worlds[W(t)].status
        BY <3>1 DEF RegistryUnchanged, Reserves
      <4> QED BY <2>2, <3>1, <4>1 DEF QuietInv, Stored
    <3>2. CASE pc'[t] = "inspect" /\ call'[t].stored.status \in Reconciled
      BY <2>2, <3>2 DEF Reconciled, Past, ReconcilePoints
    <3>3. CASE /\ worlds[W(t)].status \in {"stopped", "running"} /\ RegistryUnchanged
               /\ call'[t].w = W(t) /\ call'[t].stored = Seen(worlds[W(t)])
      BY <2>2, <3>3 DEF RegistryUnchanged, Stored, Seen, Past
    <3> QED BY <1>5, <2>2, <3>1, <3>2, <3>3, Arrives
  <2> QED BY <2>1, <2>2
<1>6. ASSUME NEW u \in Threads, Destroys(u)' PROVE worlds'[call'[u].w].status = "destroying"
  <2>1. CASE u # t
    <3>1. Destroys(u) /\ Exclusive(u)
      BY <1>6, <1>e, <2>1 DEF Destroys, Exclusive
    <3> QED BY <1>r, <2>1, <3>1 DEF QuietInv
  <2>2. CASE u = t /\ Destroys(t)
    BY <1>6, <2>2, RemovalGoesOn DEF QuietInv, RegistryUnchanged, W, Destroys
  <2>3. CASE u = t /\ Dooms(t)
    BY <2>3 DEF Dooms, W
  <2> QED BY <1>6, <2>1, <2>2, <2>3, RemovalStarts
<1> QED BY <1>1, <1>2, <1>3, <1>4, <1>5, <1>6 DEF QuietInv, QuietNext, Quiet, W, Provisions, Destroys

LEMMA QuietStep ==
    ASSUME RemoveWhileCreating = FALSE
    PROVE  BaseInv /\ QuietInv /\ [Next]_vars => QuietInv'
<1> SUFFICES ASSUME BaseInv, QuietInv, [Next]_vars PROVE QuietInv'
  OBVIOUS
<1>1. CASE UNCHANGED <<worlds, issued, pc, call>>
  BY <1>1 DEF QuietInv, Quiet, Provisions, Destroys, W, Stored
<1>2. CASE \E t \in Threads : Moves(t)
  BY <1>2, QuietMove
<1>3. CASE Restart
  <2>1. \A t \in Threads : pc'[t] = "idle" /\ call'[t] = NoCall
    BY <1>3 DEF Restart
  <2>2. NoCall.stored = Seen(NoRow) /\ DOMAIN NoCall.todo = {} /\ NoCall.op = "list"
    BY DEF NoCall
  <2> QED BY <2>1, <2>2, UnknownSeen
          DEF QuietInv, Past, Provisions, ProvisionSteps, Destroys, Undisturbed, ReconcilePoints, W
<1> QED BY <1>1, <1>2, <1>3
    DEF Next, Moves, vars, GuestPowersOff, GuestRekeys, RegistryUnchanged

LEMMA QuietInit == Init => QuietInv
<1> SUFFICES ASSUME Init PROVE QuietInv
  OBVIOUS
<1>1. \A t \in Threads : pc[t] = "idle" /\ call[t] = NoCall
  BY DEF Init
<1>2. NoCall.stored = Seen(NoRow) /\ DOMAIN NoCall.todo = {} /\ NoCall.op = "list"
  BY DEF NoCall
<1> QED BY <1>1, <1>2, UnknownSeen
        DEF QuietInv, Past, Provisions, ProvisionSteps, Destroys, Undisturbed, ReconcilePoints, W

LEMMA BaseHolds == Init => BaseInv
BY TypeInit, LockInit, IdsInit, IdentityInit DEF BaseInv

LEMMA BaseStep == BaseInv /\ [Next]_vars => BaseInv'
BY TypeStep, LockStep, IdsStep, IdentityStep DEF BaseInv

\* A step that changes the status of its world leaves the point it was at.
LEMMA ChangesLeave ==
    ASSUME TypeOK, NEW t \in Threads, Moves(t), Exclusive(t), pc'[t] = pc[t]
    PROVE  worlds'[W(t)].status = worlds[W(t)].status
<1> USE Locals
<1>0. call \in [Threads -> Call] /\ pc \in [Threads -> Steps]
  BY DEF TypeOK
<1>1. CASE RegistryUnchanged
  BY <1>1 DEF RegistryUnchanged
<1>2. CASE Inserted(t)
  BY <1>0, <1>2 DEF Inserted, Goto, At
<1>3. CASE Reserves(t) \/ Renamed(t)
  BY <1>3 DEF Reserves, Renamed, SameRow
<1>4. CASE pc[t] \in {"reconcile_running", "reconcile_stopped", "reconcile_error"}
  <2>1. reconcile_running(t) \/ reconcile_stopped(t) \/ reconcile_error(t)
    BY <1>4, Dispatch
  <2>2. Goto(t, AfterReconcile(call[t].op)) \/ \E out : Finish(t, out)
    BY <2>1 DEF reconcile_running, apply_world, reconcile_stopped, reconcile_error
  <2>3. call[t].op \in {"list", "get", "start", "stop"}
    BY <1>4, OpOfStep DEF ReconcilePoints
  <2> QED BY <1>0, <1>4, <2>2, <2>3, AfterReconcileLeaves DEF Goto, Finish
<1>5. CASE pc[t] \in {"start_apply", "start_probe", "stop_record", "create_failed", "create_running",
                      "delete_failed", "delete_row", "delete_mark"}
  <2>1. \/ start_apply(t) \/ start_probe(t) \/ stop_record(t) \/ create_failed(t)
        \/ create_running(t) \/ delete_failed(t) \/ delete_row(t) \/ delete_mark(t)
    BY <1>5, Dispatch
  <2>2. Goto(t, "final_read") \/ Goto(t, "remove_domain") \/ \E out : Finish(t, out)
    BY <2>1 DEF start_apply, apply_world, start_probe, stop_record, create_failed,
       create_running, delete_failed, delete_row, delete_mark
  <2> QED BY <1>0, <1>5, <2>2 DEF Finish, Goto
<1> QED BY <1>1, <1>2, <1>3, <1>4, <1>5, Effects DEF RowEffect, Errs, Stops, Dooms, Runs, Deleted, At

\* While a handler inspects, starts, stops or removes a world, no other handler
\* settles its status: neither a creation, which does not hold the key of the
\* world, nor an operation whose row was read before the key was taken.
THEOREM HolderChangesStatus ==
    ASSUME RemoveWhileCreating = FALSE PROVE Spec => StatusChangedByHolder
<1> DEFINE Kept(t) ==
             /\ InWorldSection(t) /\ pc[t] \notin {"list_unlock", "rename_write", "exec_check",
                                                   "exec_run", "delete_mark", "start_check", "stop_check"}
             /\ pc'[t] = pc[t]
             => worlds'[W(t)].status = worlds[W(t)].status
           Inv == BaseInv /\ QuietInv
<1>1. Inv /\ Next => \A t \in Threads : Kept(t)
  <2> SUFFICES ASSUME Inv, Next, NEW t \in Threads, InWorldSection(t), pc'[t] = pc[t],
                      pc[t] \notin {"list_unlock", "rename_write", "exec_check", "exec_run",
                                    "delete_mark", "start_check", "stop_check"}
               PROVE  worlds'[W(t)].status = worlds[W(t)].status
    OBVIOUS
  <2> USE DEF BaseInv
  <2>1. CASE RegistryUnchanged
    BY <2>1 DEF RegistryUnchanged
  <2>2. ASSUME NEW u \in Threads, Moves(u) PROVE worlds'[W(t)].status = worlds[W(t)].status
    <3>1. Exclusive(t)
      <4>1. CASE pc[t] \in {"delete_failed", "delete_row", "remove_domain", "remove_files"}
        BY <4>1, Locals, OpOfStep DEF InWorldSection, Exclusive, Destroys
      <4> QED BY <4>1 DEF InWorldSection, WorldSteps, Exclusive, Undisturbed
    <3>2. CASE u = t
      BY <2>2, <3>1, <3>2, ChangesLeave
    <3>3. CASE u # t
      <4>1. W(t) \in issued /\ ~(Exclusive(u) /\ W(u) = W(t)) /\ W(t) \in WorldIds
        BY <3>1, <3>3, ExclusiveQuiet, Alone, Locals
      <4> QED BY <2>2, <4>1, Touches DEF SameRow
    <3> QED BY <3>2, <3>3
  <2>3. CASE Restart
    BY <2>3 DEF Restart, InWorldSection, WorldSteps, ReconcilePoints
  <2> QED BY <2>1, <2>2, <2>3 DEF Next, Moves, GuestPowersOff, GuestRekeys, RegistryUnchanged
<1>2. Init => Inv
  BY BaseHolds, QuietInit
<1>3. Inv /\ [Next]_vars => Inv'
  BY BaseStep, QuietStep
<1>4. Inv /\ [Next]_vars => [\A t \in Threads : Kept(t)]_vars
  BY <1>1
<1> QED BY <1>2, <1>3, <1>4, PTL DEF Spec, StatusChangedByHolder

-----------------------------------------------------------------------------
(* The registry and the machines *)

\* A world that is provisioned, runs or is on holds its resources, and there is
\* no machine without a row.
WorldSound(w) ==
    /\ worlds[w].status \in {"provisioning", "running"} => worlds[w].compute_reserved = TRUE
    /\ Stored(worlds, w) /\ machine[w].domain = "on" => worlds[w].compute_reserved = TRUE
    /\ ~Stored(worlds, w) => machine[w] = NoMachine

\* A start has its resources, what is going to be recorded stopped is off, and
\* a removal has taken the machine apart as far as its step says.
ThreadSound(t) ==
    /\ pc[t] \in {"reconcile_running", "start_boot", "start_ready", "start_apply"}
          => worlds[W(t)].compute_reserved = TRUE
    /\ pc[t] \in {"reconcile_stopped", "stop_record"} => machine[W(t)].domain # "on"
    /\ Destroys(t) /\ pc[t] = "remove_files" => machine[W(t)].domain = "none"
    /\ Destroys(t) /\ pc[t] = "delete_row" => machine[W(t)] = NoMachine

MachineInv == (\A w \in WorldIds : WorldSound(w)) /\ (\A t \in Threads : ThreadSound(t))

\* What a thread has just done when it comes to one of these steps.
LEMMA Follows ==
    ASSUME TypeOK, NEW t \in Threads, Moves(t)
    PROVE  /\ pc'[t] \in {"reconcile_running", "start_boot"} => Reserves(t) /\ call'[t].w = W(t)
           /\ pc'[t] \in {"start_ready", "start_apply"} =>
                 /\ pc[t] \in {"start_boot", "start_ready"}
                 /\ RegistryUnchanged /\ call'[t].w = W(t)
           /\ pc'[t] \in {"reconcile_stopped", "stop_record"} =>
                 machine'[W(t)].domain = "off" /\ call'[t].w = W(t)
<1> USE Locals
<1>0. /\ call \in [Threads -> Call] /\ pc \in [Threads -> Steps]
      /\ machine \in [WorldIds -> Machine] /\ worlds \in [WorldIds -> Row]
  BY DEF TypeOK
<1> SUFFICES ASSUME pc'[t] \in {"reconcile_running", "start_boot", "start_ready", "start_apply",
                                "reconcile_stopped", "stop_record"}
             PROVE  /\ pc'[t] \in {"reconcile_running", "start_boot"} => Reserves(t) /\ call'[t].w = W(t)
                    /\ pc'[t] \in {"start_ready", "start_apply"} =>
                          /\ pc[t] \in {"start_boot", "start_ready"}
                          /\ RegistryUnchanged /\ call'[t].w = W(t)
                    /\ pc'[t] \in {"reconcile_stopped", "stop_record"} =>
                          machine'[W(t)].domain = "off" /\ call'[t].w = W(t)
  OBVIOUS
<1>a. pc'[t] \in Undisturbed
  BY DEF Undisturbed, ReconcilePoints
<1>b. ~\E out : Finish(t, out)
  BY <1>a, ArrivesBy
<1>c. pc[t] \in Undisturbed /\ call'[t].w = W(t) /\ (RegistryUnchanged \/ Reserves(t))
  BY <1>a, Arrives
<1>1. CASE inspect(t)
  <2>1. \/ pc'[t] = "reconcile_stopped" /\ UNCHANGED machine /\ Inspection(machine[W(t)]) = "stopped"
        \/ pc'[t] \in {"inspect", "reconcile_reserve", "reconcile_error"}
    BY <1>0, <1>1 DEF inspect, retry, Goto, At, LocalStep, HostUnchanged
  <2>2. Inspection(machine[W(t)]) = "stopped" => machine[W(t)].domain = "off"
    BY DEF Inspection
  <2> QED BY <1>c, <2>1, <2>2
<1>2. CASE reconcile_reserve(t) \/ start_reserve(t)
  <2>1. /\ pc'[t] \in {"reconcile_running", "start_boot"} /\ Stored(worlds, W(t)) /\ UNCHANGED issued
        /\ worlds' = hold_resources(worlds, W(t)) /\ pc[t] \in {"reconcile_reserve", "start_reserve"}
        /\ pc[t] = "start_reserve" => reserve_fits(worlds, W(t))
    BY <1>0, <1>2, <1>b DEF reconcile_reserve, start_reserve, Goto, At, RegistryStep
  <2>2. Reserves(t)
    BY <1>0, <2>1, Holds DEF Reserves, KeepsIdentity, Becomes, At
  <2> QED BY <1>c, <2>1, <2>2
<1>3. CASE start_boot(t) \/ start_ready(t)
  <2>1. /\ pc'[t] \in {"start_ready", "start_apply", "start_probe"} /\ RegistryUnchanged
        /\ pc[t] \in {"start_boot", "start_ready"}
    BY <1>0, <1>3 DEF start_boot, start_ready, Goto, At, LocalStep, MachineStep
  <2> QED BY <1>c, <2>1
<1>4. CASE stop_shutdown(t)
  <2>1. pc'[t] = "stop_record" /\ machine' = [machine EXCEPT ![W(t)].domain = "off"]
    BY <1>0, <1>4, <1>b DEF stop_shutdown, Goto
  <2>2. machine'[W(t)].domain = "off"
    BY <1>0, <2>1 DEF Machine
  <2> QED BY <1>c, <2>1, <2>2
<1> QED BY <1>1, <1>2, <1>3, <1>4, <1>a, <1>c, ArrivesBy
        DEF try_lock_world, list_next, start_check, stop_check, At, Undisturbed, ReconcilePoints

LEMMA RemovalFollows ==
    ASSUME TypeOK, NEW t \in Threads, Moves(t), Destroys(t), Destroys(t)'
    PROVE  /\ pc'[t] = "remove_files" => machine'[W(t)].domain = "none"
           /\ pc'[t] = "delete_row" =>
                 /\ pc[t] = "remove_files"
                 /\ machine[W(t)].domain = "none" => machine'[W(t)] = NoMachine
<1> USE Locals
<1>0. /\ call \in [Threads -> Call] /\ pc \in [Threads -> Steps] /\ machine \in [WorldIds -> Machine]
      /\ call[t].op = "delete"
  BY DEF TypeOK, Destroys
<1>1. CASE remove_domain(t)
  <2>1. \/ pc'[t] = "remove_files" /\ machine' = [machine EXCEPT ![W(t)].domain = "none"]
        \/ pc'[t] = "delete_failed"
    BY <1>0, <1>1 DEF remove_domain, Goto, AfterCleanup
  <2> QED BY <1>0, <2>1 DEF Machine
<1>2. CASE remove_files(t)
  <2>1. PICK files, disk \in BOOLEAN :
          /\ machine' = [machine EXCEPT ![W(t)].files = files, ![W(t)].disk = disk,
                                        ![W(t)].key = IF disk THEN @ ELSE NoKey]
          /\ Goto(t, AfterCleanup(call[t].op, ~files /\ ~disk))
    BY <1>2 DEF remove_files
  <2>2. pc[t] = "remove_files"
    BY <1>2 DEF remove_files, At
  <2>3. CASE files \/ disk
    <3>1. Goto(t, "delete_failed")
      BY <1>0, <2>1, <2>3 DEF AfterCleanup
    <3> QED BY <1>0, <3>1 DEF Goto
  <2>4. CASE ~files /\ ~disk
    <3>0. Goto(t, "delete_row")
      BY <1>0, <2>1, <2>4 DEF AfterCleanup
    <3>1. pc'[t] = "delete_row"
      BY <1>0, <3>0 DEF Goto
    <3>2. /\ machine'[W(t)].files = FALSE /\ machine'[W(t)].disk = FALSE /\ machine'[W(t)].key = NoKey
          /\ machine'[W(t)].domain = machine[W(t)].domain
      BY <1>0, <2>1, <2>4 DEF Machine
    <3>3. machine'[W(t)] \in Machine
      BY TypeStep DEF TypeOK, Next, Moves
    <3>4. machine[W(t)].domain = "none" => machine'[W(t)] = NoMachine
      BY <3>2, <3>3 DEF Machine, NoMachine
    <3> QED BY <2>2, <3>1, <3>4
  <2> QED BY <2>3, <2>4
<1>3. CASE delete_failed(t) \/ delete_row(t)
  BY <1>0, <1>3 DEF delete_failed, delete_row, Finish, Goto, Destroys
<1> QED BY <1>1, <1>2, <1>3, Dispatch DEF Destroys

\* A world whose id is not issued yet is left alone, or inserted.
LEMMA Unissued ==
    ASSUME BaseInv, QuietInv, NEW t \in Threads, Moves(t), NEW w \in WorldIds, w \notin issued
    PROVE  /\ machine'[w] = machine[w]
           /\ \/ worlds'[w] = worlds[w]
              \/ worlds'[w].status = "provisioning" /\ worlds'[w].compute_reserved = TRUE
<1> USE Locals DEF BaseInv
<1>1. ~Stored(worlds, w)
  BY DEF IdsInv
<1>2. \/ worlds'[w] = worlds[w]
      \/ worlds'[w].status = "provisioning" /\ worlds'[w].compute_reserved = TRUE
  BY <1>1, Effects DEF RowEffect, RegistryUnchanged, Inserted, Reserves, Errs, Stops, Dooms, Runs,
     Renamed, Deleted, KeepsIdentity, OnlyRow
<1>3. machine'[w] = machine[w]
  <2>1. CASE machine' = machine
    BY <2>1
  <2>2. CASE Builds(t) \/ Boots(t) \/ Halts(t) \/ Dismantles(t)
    <3>1. OnlyMachine(W(t)) /\ Exclusive(t)
      BY <2>2 DEF Builds, Boots, Halts, Dismantles, Exclusive, At, Undisturbed
    <3>2. W(t) # w
      BY <3>1, ExclusiveQuiet
    <3> QED BY <3>1, <3>2 DEF OnlyMachine
  <2> QED BY <2>1, <2>2, MachineEffect
<1> QED BY <1>2, <1>3

\* The world that a thread works on stays sound.
LEMMA OwnWorldSound ==
    ASSUME BaseInv, QuietInv, MachineInv, NEW t \in Threads, Moves(t), Exclusive(t)
    PROVE  /\ worlds'[W(t)].status \in {"provisioning", "running"}
                 => worlds'[W(t)].compute_reserved = TRUE
           /\ Stored(worlds', W(t)) /\ machine'[W(t)].domain = "on"
                 => worlds'[W(t)].compute_reserved = TRUE
           /\ ~Stored(worlds', W(t)) => machine'[W(t)] = NoMachine
<1> USE Locals DEF BaseInv, Stored
<1>0. WorldSound(W(t)) /\ ThreadSound(t)
  BY DEF MachineInv
<1>1. CASE machine' = machine /\ RegistryUnchanged
  BY <1>0, <1>1 DEF RegistryUnchanged, WorldSound
<1>2. CASE machine' = machine /\ ~RegistryUnchanged
  <2>1. CASE Reserves(t) \/ Errs(t) \/ Dooms(t)
    BY <1>0, <1>2, <2>1 DEF Reserves, Errs, Dooms, KeepsIdentity, WorldSound
  <2>2. CASE Stops(t)
    <3>1. machine[W(t)].domain # "on"
      <4>1. CASE pc[t] \in {"reconcile_stopped", "stop_record"}
        BY <1>0, <4>1 DEF ThreadSound
      <4>2. CASE pc[t] = "start_probe"
        <5>1. Inspection(machine[W(t)]) = "stopped"
          BY <1>2, <4>2, Dispatch DEF start_probe, RegistryUnchanged, RegistryStep
        <5> QED BY <5>1 DEF Inspection
      <4> QED BY <2>2, <4>1, <4>2 DEF Stops
    <3> QED BY <1>2, <2>2, <3>1 DEF Stops
  <2>3. CASE Runs(t)
    <3>1. worlds[W(t)].compute_reserved = TRUE
      <4>1. CASE At(t, "create_running")
        <5>1. Provisions(t)
          BY <4>1, OpOfStep DEF At, Provisions, ProvisionSteps, CreateSteps
        <5> QED BY <1>0, <5>1 DEF QuietInv, WorldSound
      <4>2. CASE pc[t] \in {"reconcile_running", "start_apply"}
        BY <1>0, <4>2 DEF ThreadSound
      <4> QED BY <2>3, <4>1, <4>2 DEF Runs
    <3> QED BY <2>3, <3>1 DEF Runs
  <2>4. CASE Deleted(t)
    <3>1. Destroys(t) /\ pc[t] = "delete_row"
      BY <2>4, OpOfStep DEF Deleted, At, Destroys
    <3> QED BY <1>0, <1>2, <2>4, <3>1, NoRowFields DEF Deleted, ThreadSound
  <2>5. CASE Inserted(t) \/ Renamed(t)
    BY <2>5 DEF Inserted, Renamed, At, Exclusive, Provisions, ProvisionSteps, Destroys, Undisturbed,
       ReconcilePoints
  <2> QED BY <1>2, <2>1, <2>2, <2>3, <2>4, <2>5, Effects DEF RowEffect
<1>3. CASE Builds(t)
  BY <1>0, <1>3 DEF Builds, RegistryUnchanged, QuietInv, WorldSound
<1>4. CASE Boots(t)
  BY <1>0, <1>4 DEF Boots, At, RegistryUnchanged, QuietInv, ThreadSound, Undisturbed, ReconcilePoints
<1>5. CASE Halts(t)
  BY <1>0, <1>5 DEF Halts, At, RegistryUnchanged, QuietInv, WorldSound, Undisturbed, ReconcilePoints
<1>6. CASE Dismantles(t)
  BY <1>0, <1>6 DEF Dismantles, RegistryUnchanged, QuietInv, WorldSound
<1> QED BY <1>1, <1>2, <1>3, <1>4, <1>5, <1>6, MachineEffect

LEMMA MachineMove ==
    ASSUME BaseInv, QuietInv, MachineInv, NEW t \in Threads, Moves(t)
    PROVE  MachineInv'
<1> USE Locals DEF BaseInv
<1>0. call \in [Threads -> Call] /\ pc \in [Threads -> Steps]
  BY DEF TypeOK
<1>e. \A u \in Threads \ {t} : pc'[u] = pc[u] /\ call'[u] = call[u]
  BY OthersKept
<1>1. ASSUME NEW w \in WorldIds PROVE WorldSound(w)'
  <2>0. WorldSound(w)
    BY DEF MachineInv
  <2>1. CASE w \in issued /\ ~(Exclusive(t) /\ W(t) = w)
    BY <2>0, <2>1, Touches DEF SameRow, WorldSound, Stored
  <2>2. CASE w \notin issued
    <3>1. ~Stored(worlds, w)
      BY <2>2 DEF IdsInv
    <3> QED BY <2>0, <2>2, <3>1, Unissued DEF WorldSound, Stored
  <2>3. CASE Exclusive(t) /\ W(t) = w
    BY <2>3, OwnWorldSound DEF WorldSound
  <2> QED BY <2>1, <2>2, <2>3
<1>2. ASSUME NEW u \in Threads PROVE ThreadSound(u)'
  <2>1. CASE u # t
    <3>0. ThreadSound(u)
      BY DEF MachineInv
    <3>1. pc'[u] = pc[u] /\ call'[u] = call[u] /\ call'[u].w = W(u)
      BY <1>e, <2>1 DEF W
    <3>2. CASE Exclusive(u)
      <4>1. W(u) \in issued /\ ~(Exclusive(t) /\ W(t) = W(u))
        BY <2>1, <3>2, ExclusiveQuiet, Alone
      <4>2. worlds'[W(u)].compute_reserved = worlds[W(u)].compute_reserved
            /\ machine'[W(u)] = machine[W(u)]
        BY <4>1, Touches DEF SameRow
      <4> QED BY <3>0, <3>1, <4>2 DEF ThreadSound, Destroys, W
    <3>3. CASE ~Exclusive(u)
      BY <3>1, <3>3 DEF ThreadSound, Destroys, Exclusive, Undisturbed, ReconcilePoints
    <3> QED BY <3>2, <3>3
  <2>2. CASE u = t
    <3>0. ThreadSound(t)
      BY DEF MachineInv
    <3>1. pc'[t] \in {"reconcile_running", "start_boot", "start_ready", "start_apply"}
             => worlds'[call'[t].w].compute_reserved = TRUE
      BY <3>0, Follows DEF ThreadSound, Reserves, RegistryUnchanged
    <3>2. pc'[t] \in {"reconcile_stopped", "stop_record"} => machine'[call'[t].w].domain # "on"
      BY Follows
    <3>3. ASSUME Destroys(t)', pc'[t] \in {"remove_files", "delete_row"}
          PROVE  /\ pc'[t] = "remove_files" => machine'[call'[t].w].domain = "none"
                 /\ pc'[t] = "delete_row" => machine'[call'[t].w] = NoMachine
      <4>1. ~Dooms(t)
        BY <1>0, <3>3 DEF Dooms, Goto
      <4>2. Destroys(t)
        BY <3>3, <4>1, RemovalStarts
      <4>3. call'[t].w = W(t)
        BY <3>3, <4>2, RemovalGoesOn DEF W
      <4> QED BY <3>0, <3>3, <4>2, <4>3, RemovalFollows DEF ThreadSound
    <3> QED BY <2>2, <3>1, <3>2, <3>3 DEF ThreadSound, W, Destroys
  <2> QED BY <2>1, <2>2
<1> QED BY <1>1, <1>2 DEF MachineInv

LEMMA MachineStepKeeps == BaseInv /\ QuietInv /\ MachineInv /\ [Next]_vars => MachineInv'
<1> SUFFICES ASSUME BaseInv, QuietInv, MachineInv, [Next]_vars PROVE MachineInv'
  OBVIOUS
<1>0. machine \in [WorldIds -> Machine] /\ worlds \in [WorldIds -> Row]
  BY DEF BaseInv, TypeOK
<1>1. CASE UNCHANGED <<worlds, machine, pc, call>>
  BY <1>1 DEF MachineInv, WorldSound, ThreadSound, Destroys, W, Stored
<1>2. CASE \E t \in Threads : Moves(t)
  BY <1>2, MachineMove
<1>3. CASE \E w \in WorldIds : GuestPowersOff(w) \/ GuestRekeys(w)
  <2>1. PICK w \in WorldIds : GuestPowersOff(w) \/ GuestRekeys(w)
    BY <1>3
  <2>2. /\ machine[w].domain = "on" /\ OnlyMachine(w) /\ UNCHANGED <<worlds, pc, call>>
        /\ machine'[w].domain \in {"on", "off"}
    BY <1>0, <2>1 DEF GuestPowersOff, GuestRekeys, OnlyMachine, Machine, RegistryUnchanged
  <2>3. machine[w] # NoMachine
    BY <2>2 DEF NoMachine
  <2>4. \A x \in WorldIds : WorldSound(x)'
    BY <2>2, <2>3 DEF MachineInv, WorldSound, OnlyMachine, Stored
  <2>5. ASSUME NEW t \in Threads PROVE ThreadSound(t)'
    <3>1. ThreadSound(t) /\ W(t) \in WorldIds
      BY Locals DEF MachineInv, BaseInv
    <3> QED BY <2>2, <2>3, <3>1 DEF ThreadSound, Destroys, W, OnlyMachine
  <2> QED BY <2>4, <2>5 DEF MachineInv
<1>4. CASE Restart
  <2>1. \A w \in WorldIds : WorldSound(w)'
    BY <1>0, <1>4, Interrupts DEF Restart, MachineInv, WorldSound, Stored
  <2>2. \A t \in Threads : ThreadSound(t)'
    BY <1>4 DEF Restart, ThreadSound, Destroys
  <2> QED BY <2>1, <2>2 DEF MachineInv
<1> QED BY <1>1, <1>2, <1>3, <1>4 DEF Next, Moves, vars

LEMMA MachineInit == Init => MachineInv
BY NoRowFields DEF Init, MachineInv, WorldSound, ThreadSound, Destroys, Stored, NoMachine

-----------------------------------------------------------------------------
(* The gateway's view of the running worlds *)

ObserveInv ==
    /\ \A w \in WorldIds : worlds[w].status = "running" => w \notin inactive
    /\ inactive \subseteq issued
    /\ \A t \in Threads : Provisions(t) => W(t) \notin inactive

LEMMA ObserveMove ==
    ASSUME BaseInv, QuietInv, ObserveInv, NEW t \in Threads, Moves(t)
    PROVE  ObserveInv'
<1> USE Locals DEF BaseInv
<1>0. call \in [Threads -> Call] /\ pc \in [Threads -> Steps] /\ inactive \subseteq WorldIds
  BY DEF TypeOK
<1>a. issued \subseteq issued'
  BY KeepsIdentities DEF IdentityKept
<1>g. GatewayTold(t)
  BY TellsGateway
<1>x. Exclusive(t) \/ UNCHANGED inactive
  BY <1>g DEF GatewayTold, Exclusive, Undisturbed, ReconcilePoints
<1>y. Exclusive(t) => W(t) \in issued
  BY ExclusiveQuiet
<1>1. inactive' \subseteq issued'
  BY <1>a, <1>g, <1>x, <1>y DEF GatewayTold, ObserveInv
<1>2. ASSUME NEW w \in WorldIds, worlds'[w].status = "running" PROVE w \notin inactive'
  <2>1. CASE w \in issued /\ ~(Exclusive(t) /\ W(t) = w)
    BY <1>2, <2>1, Touches DEF SameRow, ObserveInv
  <2>2. CASE w \notin issued
    <3>1. ~Stored(worlds, w)
      BY <2>2 DEF IdsInv
    <3> QED BY <1>2, <2>2, <3>1, Unissued DEF Stored
  <2>3. CASE Exclusive(t) /\ W(t) = w
    <3>1. CASE UNCHANGED inactive /\ pc[t] \notin {"reconcile_running", "start_apply"}
      <4>1. worlds[W(t)].status = "running" \/ (Runs(t) /\ At(t, "create_running")) \/ Inserted(t)
        BY <1>2, <2>3, <3>1, Effects, NoRowFields
        DEF RowEffect, RegistryUnchanged, Reserves, Errs, Stops, Dooms, Runs, Renamed, Deleted,
            KeepsIdentity, SameRow
      <4>2. ASSUME At(t, "create_running") PROVE Provisions(t)
        BY <4>2, OpOfStep DEF At, Provisions, ProvisionSteps, CreateSteps
      <4>3. ~Inserted(t)
        BY <2>3 DEF Inserted, At, Exclusive, Provisions, ProvisionSteps, Destroys, Undisturbed,
           ReconcilePoints
      <4> QED BY <2>3, <3>1, <4>1, <4>2, <4>3 DEF ObserveInv
    <3>2. CASE ~(UNCHANGED inactive /\ pc[t] \notin {"reconcile_running", "start_apply"})
      BY <1>2, <1>g, <2>3, <3>2 DEF GatewayTold
    <3> QED BY <3>1, <3>2
  <2> QED BY <2>1, <2>2, <2>3
<1>3. ASSUME NEW u \in Threads, Provisions(u)' PROVE call'[u].w \notin inactive'
  <2>1. CASE u # t
    <3>1. Provisions(u) /\ call'[u].w = W(u)
      BY <1>3, <2>1, OthersKept DEF Provisions, W
    <3>2. W(u) \in issued /\ ~(Exclusive(t) /\ W(t) = W(u))
      BY <2>1, <3>1, ExclusiveQuiet, Alone DEF Exclusive
    <3> QED BY <3>1, <3>2, Touches DEF ObserveInv
  <2>2. CASE u = t /\ Provisions(t)
    BY <1>3, <2>2, ProvisionGoesOn DEF ObserveInv, W, Provisions
  <2>3. CASE u = t /\ Inserted(t)
    <3>1. PICK x \in WorldIds \ issued : call' = [call EXCEPT ![t].w = x]
      BY <2>3 DEF Inserted
    <3>2. call'[t].w = x
      BY <1>0, <3>1 DEF Call
    <3>3. UNCHANGED inactive
      BY <1>g, <2>3 DEF GatewayTold, Inserted, At
    <3> QED BY <2>3, <3>1, <3>2, <3>3 DEF ObserveInv
  <2> QED BY <1>3, <2>1, <2>2, <2>3, ProvisionStarts
<1> QED BY <1>1, <1>2, <1>3 DEF ObserveInv, W

LEMMA ObserveStep == BaseInv /\ QuietInv /\ ObserveInv /\ [Next]_vars => ObserveInv'
<1> SUFFICES ASSUME BaseInv, QuietInv, ObserveInv, [Next]_vars PROVE ObserveInv'
  OBVIOUS
<1>1. CASE UNCHANGED <<worlds, issued, inactive, pc, call>>
  BY <1>1 DEF ObserveInv, Provisions, W
<1>2. CASE \E t \in Threads : Moves(t)
  BY <1>2, ObserveMove
<1>3. CASE Restart
  BY <1>3 DEF Restart, ObserveInv
<1> QED BY <1>1, <1>2, <1>3
    DEF Next, Moves, vars, GuestPowersOff, GuestRekeys, RegistryUnchanged

LEMMA ObserveInit == Init => ObserveInv
BY DEF Init, ObserveInv

-----------------------------------------------------------------------------
(* The results *)

SafeInv == BaseInv /\ QuietInv /\ MachineInv /\ ObserveInv

LEMMA SafeHolds == ASSUME RemoveWhileCreating = FALSE PROVE Spec => []SafeInv
<1>1. Init => SafeInv
  BY BaseHolds, QuietInit, MachineInit, ObserveInit DEF SafeInv
<1>2. SafeInv /\ [Next]_vars => SafeInv'
  BY BaseStep, QuietStep, MachineStepKeeps, ObserveStep DEF SafeInv
<1> QED BY <1>1, <1>2, PTL DEF Spec

\* Whatever fails or crashes between the boot of a machine and the write of its
\* row, a world that is recorded running or whose machine is on has its
\* processors and memory accounted for.
THEOREM RunningAccounted == ASSUME RemoveWhileCreating = FALSE PROVE Spec => []Accounted
<1>1. SafeInv => Accounted
  BY DEF SafeInv, MachineInv, WorldSound, Accounted, StoredIds
<1> QED BY <1>1, SafeHolds, PTL

\* A removal takes the whole machine apart before it deletes the row, and no
\* creation, start or restart leaves a machine that no row leads to.
THEOREM RemovalComplete == ASSUME RemoveWhileCreating = FALSE PROVE Spec => []NothingLeftBehind
<1>1. SafeInv => NothingLeftBehind
  BY DEF SafeInv, MachineInv, WorldSound, NothingLeftBehind
<1> QED BY <1>1, SafeHolds, PTL

\* A world that is recorded running is one whose pane observations the gateway
\* accepts: every deactivation is undone with the status that it goes with.
THEOREM RunningObserved == ASSUME RemoveWhileCreating = FALSE PROVE Spec => []RunningObservable
<1>1. SafeInv => RunningObservable
  BY DEF SafeInv, ObserveInv, RunningObservable, StoredIds
<1> QED BY <1>1, SafeHolds, PTL

=============================================================================
