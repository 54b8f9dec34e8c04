---------------------------- MODULE WorldService ----------------------------
(***************************************************************************)
(* The world lifecycle of the wts daemon: crates/products/wt/server/src    *)
(* (service.rs, service/lifecycle.rs, service/exec.rs, operations.rs) over *)
(* the registry of module Capacity and the libvirt machines of             *)
(* crates/shared/libvirt-kvm.                                              *)
(*                                                                         *)
(* Every accepted control connection is a thread that runs one handler.    *)
(* A handler is cut at each call that leaves the thread: a lock operation, *)
(* a registry transaction, a machine call.  Between two such calls other   *)
(* threads, guests and a crash of the daemon may intervene.  Each step     *)
(* below is named after the code between two such points; pc names the     *)
(* step a thread takes next.                                               *)
(*                                                                         *)
(* Only delete removes a row, and it holds the key of the world.  A handler *)
(* that has seen the row since it took that key therefore finds it again;  *)
(* its steps have no branch for a row that is gone, and would block.       *)
(***************************************************************************)
EXTENDS Capacity

CONSTANTS
    Threads,            \* control connections served at the same time
    INSPECTION_RETRIES, \* further inspections of a running or stopped world
    DiskBytes,          \* the allocated sizes an overlay may have
    Offered,            \* the operations that clients request
    Faults,             \* the calls to the host or the guest that may fail
    RemoveWhileCreating,\* may a client remove a world still being created?
    MaxCrashes          \* bound: daemon crashes in one behaviour

ASSUME ServiceAssumption ==
    /\ INSPECTION_RETRIES \in Nat
    /\ DiskBytes \subseteq Nat
    /\ Faults \subseteq {"provision", "remove", "inspect", "start", "stop", "usage"}
    /\ RemoveWhileCreating \in BOOLEAN
    /\ MaxCrashes \in Nat
    /\ WorldIds # {} /\ Names # {} /\ Shapes # {}

VARIABLES
    worlds,     \* the worlds table: WorldIds -> Row
    issued,     \* the world ids that WorldId::new has returned
    machine,    \* libvirt domain, machine directory, overlay and guest identity
    active,     \* Operations: the set of operation keys in use
    guards,     \* the operation guards each thread owns
    inactive,   \* the gateway's set of deactivated worlds
    pc,         \* the step each thread takes next
    call,       \* the locals of each thread's handler
    crashes     \* crashes so far

vars == <<worlds, issued, machine, active, guards, inactive, pc, call, crashes>>

Domain == {"none", "off", "on"}
Machine == [domain : Domain, files : BOOLEAN, disk : BOOLEAN, key : KeyIds]
NoMachine == [domain |-> "none", files |-> FALSE, disk |-> FALSE, key |-> NoKey]

CreateKey(n) == <<"create", n>>
WorldKey(w) == <<"world", w>>
OperationKey == {CreateKey(n) : n \in Names} \cup {WorldKey(w) : w \in WorldIds}

\* The operations of the service, and the world that stands for "no world".
Operation == {"create", "list", "get", "start", "stop", "delete", "rename", "exec"}
AnyWorld == CHOOSE w \in WorldIds : TRUE
AnyRequest == CHOOSE q \in Request : TRUE

\* out is the outcome of the handler: "ok" or the code of the ApiError.
Outcome == {"ok", "conflict", "not_found", "backend", "capacity",
            "invalid_request", "internal"}

\* What a handler uses of a row it has read.
Seen(row) == [status |-> row.status, ssh |-> row.ssh]
SeenRow == [status : WorldStatus \cup {"absent"}, ssh : KeyIds]

\* The rows of one read of the whole table, as a function of their ids.
Snapshot == UNION {[ids -> SeenRow] : ids \in SUBSET WorldIds}
list_owned(ws) == [w \in StoredIds(ws) |-> Seen(ws[w])]

\* The locals of a handler; todo is the snapshot a list request works through.
Call == [op : Operation, w : WorldIds, request : Request, stored : SeenRow,
         todo : Snapshot, attempts : 0 .. INSPECTION_RETRIES, key : KeyIds, out : Outcome]

NoCall == [op |-> "list", w |-> AnyWorld, request |-> AnyRequest,
           stored |-> Seen(NoRow), todo |-> [w \in {} |-> Seen(NoRow)],
           attempts |-> 0, key |-> NoKey, out |-> "ok"]

Init ==
    /\ worlds = [w \in WorldIds |-> NoRow]
    /\ issued = {}
    /\ machine = [w \in WorldIds |-> NoMachine]
    /\ active = {}
    /\ guards = [t \in Threads |-> {}]
    /\ inactive = {}
    /\ pc = [t \in Threads |-> "idle"]
    /\ call = [t \in Threads |-> NoCall]
    /\ crashes = 0

-----------------------------------------------------------------------------
(* Control flow of one thread *)

W(t) == call[t].w

At(t, step) == pc[t] = step
Goto(t, step) == pc' = [pc EXCEPT ![t] = step]

\* The handler's result is out; the response is written after its guards drop.
Finish(t, out) ==
    /\ Goto(t, "return")
    /\ call' = [call EXCEPT ![t] = [NoCall EXCEPT !.op = call[t].op, !.w = call[t].w,
                                                  !.out = out]]

\* A thread that holds no guard takes one.
Acquire(t, key) ==
    /\ active' = active \cup {key}
    /\ guards' = [guards EXCEPT ![t] = @ \cup {key}]

\* Drop of OperationGuard: the key leaves the set and waiters are notified.
DropGuards(t) ==
    /\ active' = active \ guards[t]
    /\ guards' = [guards EXCEPT ![t] = {}]

LocksUnchanged == UNCHANGED <<active, guards>>
HostUnchanged == UNCHANGED machine
RegistryUnchanged == UNCHANGED <<worlds, issued>>

\* A handler step that only decides: it changes nothing but the thread.
LocalStep == RegistryUnchanged /\ HostUnchanged /\ LocksUnchanged
             /\ UNCHANGED <<inactive, crashes>>

\* A step that writes the registry (and tells the gateway), or touches a machine.
RegistryStep == HostUnchanged /\ LocksUnchanged /\ UNCHANGED <<issued, crashes>>
MachineStep == RegistryUnchanged /\ LocksUnchanged /\ UNCHANGED <<inactive, crashes>>

Fails(kind) == kind \in Faults

Respond(t) ==
    /\ At(t, "return")
    /\ DropGuards(t)
    /\ Goto(t, "idle")
    /\ call' = [call EXCEPT ![t] = NoCall]
    /\ RegistryUnchanged /\ HostUnchanged /\ UNCHANGED <<inactive, crashes>>

\* The threads that are creating world w: they hold the create key of its
\* name, never the world key.
Creating(t, w) == call[t].op = "create" /\ ~At(t, "idle") /\ w \in issued /\ W(t) = w
                  /\ pc[t] \notin {"create_lock", "create_lookup", "create_insert"}

\* Bound: a create is accepted while a world id is left for it.
IdsLeft ==
    LET unserved == {u \in Threads : pc[u] \in {"create_lock", "create_lookup", "create_insert"}}
    IN  Cardinality(issued) + Cardinality(unserved) < Cardinality(WorldIds)

Accept(t, op, w, request, step) ==
    /\ At(t, "idle")
    /\ op \in Offered
    /\ Goto(t, step)
    /\ call' = [call EXCEPT ![t] = [NoCall EXCEPT !.op = op, !.w = w, !.request = request]]
    /\ LocalStep

MayRemove(w) == RemoveWhileCreating \/ \A u \in Threads : ~Creating(u, w)

\* A client sends a request.  It addresses worlds by ids the server has issued.
Receive(t) ==
    \/ \E request \in Request : IdsLeft /\ Accept(t, "create", AnyWorld, request, "create_lock")
    \/ Accept(t, "list", AnyWorld, AnyRequest, "list_read")
    \/ \E request \in Request : Accept(t, "get", AnyWorld, request, "get_read")
    \/ \E w \in issued, op \in {"start", "stop"} : Accept(t, op, w, AnyRequest, "read")
    \/ \E w \in issued, request \in Request : Accept(t, "rename", w, request, "read")
    \/ \E w \in issued : Accept(t, "exec", w, AnyRequest, "lock")
    \/ \E w \in issued :
           MayRemove(w) /\ Accept(t, "delete", w, AnyRequest, "lock")

-----------------------------------------------------------------------------
(* create *)

\* lock_create waits on the condition variable while the key is in use.
lock_create(t) ==
    /\ At(t, "create_lock")
    /\ CreateKey(call[t].request.name) \notin active
    /\ Acquire(t, CreateKey(call[t].request.name))
    /\ Goto(t, "create_lookup")
    /\ RegistryUnchanged /\ HostUnchanged /\ UNCHANGED <<inactive, call, crashes>>

retryable_create(row) == row.status \in {"provisioning", "running"}

create_lookup(t) ==
    LET request == call[t].request
        named == {w \in StoredIds(worlds) : worlds[w].name = request.name}
    IN  /\ At(t, "create_lookup")
        /\ \/ \E w \in named :
                 Finish(t, IF retryable_create(worlds[w]) /\ worlds[w].fingerprint = request
                           THEN "ok" ELSE "conflict")
           \/ /\ named = {}
              /\ \E r \in Resource : request.want[r] > Limit[r]
              /\ Finish(t, "invalid_request")
           \/ /\ named = {}
              /\ \A r \in Resource : request.want[r] <= Limit[r]
              /\ Goto(t, "create_insert")
              /\ UNCHANGED call
        /\ LocalStep

\* insert_with_capacity_limit: admission and insertion are one transaction.
create_insert(t) ==
    LET request == call[t].request
    IN  /\ At(t, "create_insert")
        /\ \/ /\ ~ensure_capacity(worlds, request.want)
              /\ Finish(t, "capacity")
              /\ RegistryUnchanged
           \/ /\ ensure_capacity(worlds, request.want)
              /\ NameTaken(worlds, request.name)
              /\ Finish(t, "conflict")
              /\ RegistryUnchanged
           \/ /\ ensure_capacity(worlds, request.want)
              /\ ~NameTaken(worlds, request.name)
              /\ \E w \in WorldIds \ issued :
                     /\ issued' = issued \cup {w}
                     /\ worlds' = insert_world(worlds, w, request)
                     /\ call' = [call EXCEPT ![t].w = w]
              /\ Goto(t, "create_overlay")
        /\ HostUnchanged /\ LocksUnchanged /\ UNCHANGED <<inactive, crashes>>

\* Worker::provision up to the overlay: the image identity is verified, a key
\* is generated, qemu-img creates the overlay.
create_overlay(t) ==
    /\ At(t, "create_overlay")
    /\ \/ /\ machine' = [machine EXCEPT ![W(t)].disk = TRUE]
          /\ Goto(t, "create_directory")
       \/ Fails("provision") /\ Goto(t, "create_failed") /\ HostUnchanged
       \/ Fails("provision") /\ Goto(t, "remove_domain") /\ HostUnchanged
    /\ UNCHANGED call /\ MachineStep

\* create_dir fails when the directory exists.
create_directory(t) ==
    /\ At(t, "create_directory")
    /\ \/ /\ ~machine[W(t)].files
          /\ machine' = [machine EXCEPT ![W(t)].files = TRUE]
          /\ Goto(t, "create_define")
       \/ /\ machine[W(t)].files \/ Fails("provision")
          /\ Goto(t, "remove_domain")
          /\ HostUnchanged
    /\ UNCHANGED call /\ MachineStep

\* prepare_qemu_file_access needs the directory and the overlay, and runs before
\* the definition, which needs neither.
create_define(t) ==
    /\ At(t, "create_define")
    /\ \/ /\ machine' = [machine EXCEPT ![W(t)].domain = "off"]
          /\ Goto(t, "create_boot")
       \/ /\ ~machine[W(t)].files \/ ~machine[W(t)].disk \/ Fails("provision")
          /\ Goto(t, "remove_domain")
          /\ HostUnchanged
    /\ UNCHANGED call /\ MachineStep

\* Domain::create needs the definition and the overlay it names.
create_boot(t) ==
    /\ At(t, "create_boot")
    /\ \/ /\ machine[W(t)].domain = "off" /\ machine[W(t)].disk
          /\ machine' = [machine EXCEPT ![W(t)].domain = "on"]
          /\ Goto(t, "create_wait")
       \/ /\ machine[W(t)].domain # "off" \/ ~machine[W(t)].disk \/ Fails("provision")
          /\ Goto(t, "remove_domain")
          /\ HostUnchanged
    /\ UNCHANGED call /\ MachineStep

\* wait_for_agent and wait_for_ip; a failure up to here is cleaned up.
create_wait(t) ==
    /\ At(t, "create_wait")
    /\ \/ machine[W(t)].domain = "on" /\ Goto(t, "create_setup")
       \/ (machine[W(t)].domain # "on" \/ Fails("provision")) /\ Goto(t, "remove_domain")
    /\ HostUnchanged /\ UNCHANGED call /\ MachineStep

\* The rest of Worker::provision: access policy, guest configuration, SSH host
\* keys, login proof.  A failure leaves the machine as it is.
create_setup(t) ==
    /\ At(t, "create_setup")
    /\ \/ /\ machine[W(t)].domain = "on"
          /\ machine' = [machine EXCEPT ![W(t)].key = 1]
          /\ call' = [call EXCEPT ![t].key = 1]
          /\ Goto(t, "create_running")
       \/ /\ machine[W(t)].domain = "on" /\ Fails("provision")
          /\ machine' = [machine EXCEPT ![W(t)].key = 1]
          /\ Goto(t, "create_failed")
          /\ UNCHANGED call
       \/ /\ machine[W(t)].domain # "on" \/ Fails("provision")
          /\ Goto(t, "create_failed")
          /\ HostUnchanged /\ UNCHANGED call
    /\ MachineStep

create_running(t) ==
    /\ At(t, "create_running")
    /\ \/ /\ Stored(worlds, W(t))
          /\ worlds' = mark_host_running(worlds, W(t), call[t].key)
          /\ Goto(t, "final_read")
          /\ UNCHANGED call
       \/ ~Stored(worlds, W(t)) /\ Finish(t, "not_found") /\ UNCHANGED worlds
    /\ RegistryStep /\ UNCHANGED inactive

\* Mutant: the failure is reported and not recorded.
create_failed_unrecorded(t) ==
    /\ At(t, "create_failed")
    /\ Finish(t, "backend")
    /\ LocalStep

\* The failed guest is preserved in error state; with no row left to mark, the
\* response is a backend error all the same.
create_failed(t) ==
    /\ At(t, "create_failed")
    /\ worlds' = IF Stored(worlds, W(t)) THEN mark_error(worlds, W(t)) ELSE worlds
    /\ Finish(t, "backend")
    /\ RegistryStep /\ UNCHANGED inactive

-----------------------------------------------------------------------------
(* Reading a row, taking the world lock, and the step that follows it *)

\* get_owned_by_id before the lock: what it returns is the row that the
\* reconciliation works on.
read(t) ==
    /\ At(t, "read")
    /\ \/ Stored(worlds, W(t)) /\ call' = [call EXCEPT ![t].stored = Seen(worlds[W(t)])] /\ Goto(t, "lock")
       \/ ~Stored(worlds, W(t)) /\ Finish(t, "not_found")
    /\ LocalStep

get_read(t) ==
    LET named == {w \in StoredIds(worlds) : worlds[w].name = call[t].request.name}
    IN  /\ At(t, "get_read")
        /\ \/ \E w \in named :
                 /\ call' = [call EXCEPT ![t].w = w, ![t].stored = Seen(worlds[w])]
                 /\ Goto(t, "lock")
           \/ named = {} /\ Finish(t, "not_found")
        /\ LocalStep

\* reconcile_locked leaves worlds with an operation in flight alone.
Reconciled == {"running", "stopped", "error"}

AfterReconcile(op) ==
    CASE op = "list"  -> "list_unlock"
      [] op = "get"   -> "final_read"
      [] op = "start" -> "start_check"
      [] op = "stop"  -> "stop_check"

ReconcileStep(op, row) == IF row.status \in Reconciled THEN "inspect" ELSE AfterReconcile(op)

StepUnderLock(c) ==
    CASE c.op = "rename" -> "rename_write"
      [] c.op = "delete" -> "delete_mark"
      [] c.op = "exec"   -> "exec_check"
      [] c.op \in {"get", "start", "stop"} -> ReconcileStep(c.op, c.stored)

\* Mutant: the result of inserting the key is ignored.
try_lock_world_unchecked(t) ==
    /\ At(t, "lock")
    /\ Acquire(t, WorldKey(W(t)))
    /\ Goto(t, StepUnderLock(call[t]))
    /\ RegistryUnchanged /\ HostUnchanged /\ UNCHANGED <<inactive, call, crashes>>

try_lock_world(t) ==
    /\ At(t, "lock")
    /\ \/ /\ WorldKey(W(t)) \in active
          /\ Finish(t, "conflict")
          /\ LocksUnchanged
       \/ /\ WorldKey(W(t)) \notin active
          /\ Acquire(t, WorldKey(W(t)))
          /\ Goto(t, StepUnderLock(call[t]))
          /\ call' = [call EXCEPT ![t].attempts = 0]
    /\ RegistryUnchanged /\ HostUnchanged /\ UNCHANGED <<inactive, crashes>>

-----------------------------------------------------------------------------
(* reconcile_locked *)

\* What an inspection that reaches libvirt and the guest reports.  A domain
\* without files, or files without a domain, is an error.
Inspection(m) ==
    CASE m.domain = "none" /\ ~m.files -> "missing"
      [] m.domain = "off" /\ m.files -> "stopped"
      [] m.domain = "on" /\ m.files /\ m.key # NoKey -> "running"
      [] OTHER -> "error"

\* Mutant: one retry too many.
Retries_off_by_one(row) == IF row.status = "error" THEN 0 ELSE INSPECTION_RETRIES + 1

Retries(row) == IF row.status = "error" THEN 0 ELSE INSPECTION_RETRIES

\* Mutant: the attempt is not counted.
retry_forever(t) == UNCHANGED <<pc, call>>

\* An attempt that failed: try again, or give up after the last retry.
retry(t) ==
    \/ /\ call[t].attempts = Retries(call[t].stored)
       /\ Goto(t, "reconcile_error") /\ UNCHANGED call
    \/ /\ call[t].attempts # Retries(call[t].stored)
       /\ call' = [call EXCEPT ![t].attempts = @ + 1]
       /\ UNCHANGED pc

inspect(t) ==
    LET seen == Inspection(machine[W(t)])
    IN  /\ At(t, "inspect")
        /\ \/ seen = "running" /\ call' = [call EXCEPT ![t].key = machine[W(t)].key]
              /\ Goto(t, "reconcile_reserve")
           \/ seen = "stopped" /\ Goto(t, "reconcile_stopped") /\ UNCHANGED call
           \/ seen = "missing" /\ Goto(t, "reconcile_error") /\ UNCHANGED call
           \/ (seen = "error" \/ Fails("inspect")) /\ retry(t)
        /\ LocalStep

\* ensure_resources_reserved: a running machine is accounted for without an
\* admission check.
reconcile_reserve(t) ==
    /\ At(t, "reconcile_reserve")
    /\ \/ /\ Stored(worlds, W(t))
          /\ worlds' = hold_resources(worlds, W(t))
          /\ Goto(t, "reconcile_running")
          /\ UNCHANGED call
       \/ ~Stored(worlds, W(t)) /\ Finish(t, "internal") /\ UNCHANGED worlds
    /\ RegistryStep /\ UNCHANGED inactive

\* Mutant: the gateway is not told that the world runs again.
apply_world_silent(t, after) ==
    /\ call[t].stored.ssh # NoKey /\ call[t].stored.ssh = call[t].key
    /\ worlds' = mark_host_running(worlds, W(t), call[t].key)
    /\ Goto(t, after)
    /\ UNCHANGED <<inactive, call>>
    /\ RegistryStep

\* Mutant: the identity of the guest is not compared with the stored one.
apply_world_unpinned(t, after) ==
    /\ worlds' = mark_host_running(worlds, W(t), call[t].key)
    /\ inactive' = inactive \ {W(t)}
    /\ Goto(t, after) /\ UNCHANGED call
    /\ RegistryStep

\* apply_world: the guest must present the host keys of the row that was read.
apply_world(t, after) ==
    /\ \/ /\ Stored(worlds, W(t))
          /\ call[t].stored.ssh # NoKey /\ call[t].stored.ssh = call[t].key
          /\ worlds' = mark_host_running(worlds, W(t), call[t].key)
          /\ inactive' = inactive \ {W(t)}
       \/ /\ Stored(worlds, W(t))
          /\ call[t].stored.ssh = NoKey \/ call[t].stored.ssh # call[t].key
          /\ worlds' = mark_error(worlds, W(t))
          /\ inactive' = inactive \cup {W(t)}
    /\ Goto(t, after) /\ UNCHANGED call
    /\ RegistryStep

reconcile_running(t) ==
    /\ At(t, "reconcile_running")
    /\ apply_world(t, AfterReconcile(call[t].op))

\* disk_usage fails when the overlay is missing.
UsageFails(w) == ~machine[w].disk \/ Fails("usage")

\* Record a stopped world with the usage of its disk.
record_stopped(t, gateway) ==
    /\ Stored(worlds, W(t))
    /\ machine[W(t)].disk
    /\ \E bytes \in DiskBytes : worlds' = mark_stopped(worlds, W(t), bytes)
    /\ inactive' = inactive \cup gateway

reconcile_stopped(t) ==
    /\ At(t, "reconcile_stopped")
    /\ \/ /\ record_stopped(t, {W(t)})
          /\ Goto(t, AfterReconcile(call[t].op)) /\ UNCHANGED call
       \/ UsageFails(W(t)) /\ Finish(t, "backend") /\ UNCHANGED <<worlds, inactive>>
       \/ /\ ~Stored(worlds, W(t)) /\ machine[W(t)].disk
          /\ Finish(t, "not_found") /\ UNCHANGED <<worlds, inactive>>
    /\ RegistryStep

\* A missing domain, or an inspection that failed to the end.
reconcile_error(t) ==
    /\ At(t, "reconcile_error")
    /\ \/ /\ Stored(worlds, W(t))
          /\ worlds' = mark_error(worlds, W(t))
          /\ inactive' = inactive \cup {W(t)}
          /\ Goto(t, AfterReconcile(call[t].op)) /\ UNCHANGED call
       \/ /\ ~Stored(worlds, W(t))
          /\ Finish(t, "not_found") /\ UNCHANGED <<worlds, inactive>>
    /\ RegistryStep

-----------------------------------------------------------------------------
(* list: a snapshot, a pass over it that skips busy worlds, and a second read *)

list_read(t) ==
    /\ At(t, "list_read")
    /\ call' = [call EXCEPT ![t].todo = list_owned(worlds)]
    /\ Goto(t, "list_next")
    /\ LocalStep

\* Mutant: the inventory reconciles a world without taking its key.
list_next_unlocked(t) ==
    /\ At(t, "list_next")
    /\ \/ DOMAIN call[t].todo = {} /\ Goto(t, "list_reread") /\ UNCHANGED call
       \/ \E w \in DOMAIN call[t].todo :
             /\ call' = [call EXCEPT ![t].todo = [x \in DOMAIN @ \ {w} |-> @[x]], ![t].w = w,
                                     ![t].stored = call[t].todo[w], ![t].attempts = 0]
             /\ Goto(t, ReconcileStep("list", call[t].todo[w]))
    /\ LocalStep

list_next(t) ==
    LET todo == call[t].todo
        Rest(w) == [x \in DOMAIN todo \ {w} |-> todo[x]]
    IN  /\ At(t, "list_next")
        /\ \/ /\ DOMAIN todo = {}
              /\ Goto(t, "list_reread")
              /\ LocksUnchanged /\ UNCHANGED call
           \/ \E w \in DOMAIN todo :
                 /\ WorldKey(w) \in active
                 /\ call' = [call EXCEPT ![t].todo = Rest(w)]
                 /\ LocksUnchanged /\ UNCHANGED pc
           \/ \E w \in DOMAIN todo :
                 /\ WorldKey(w) \notin active
                 /\ Acquire(t, WorldKey(w))
                 /\ call' = [call EXCEPT ![t].todo = Rest(w), ![t].w = w,
                                         ![t].stored = todo[w], ![t].attempts = 0]
                 /\ Goto(t, ReconcileStep("list", todo[w]))
        /\ RegistryUnchanged /\ HostUnchanged /\ UNCHANGED <<inactive, crashes>>

list_unlock(t) ==
    /\ At(t, "list_unlock")
    /\ DropGuards(t)
    /\ Goto(t, "list_next")
    /\ RegistryUnchanged /\ HostUnchanged /\ UNCHANGED <<inactive, call, crashes>>

list_reread(t) ==
    /\ At(t, "list_reread")
    /\ call' = [call EXCEPT ![t].todo = list_owned(worlds)]
    /\ Goto(t, "list_usage")
    /\ LocalStep

\* The usage of one disk after the other; one that cannot be read fails the list.
list_usage(t) ==
    LET todo == call[t].todo
    IN  /\ At(t, "list_usage")
        /\ \/ DOMAIN todo = {} /\ Finish(t, "ok")
           \/ \E w \in DOMAIN todo :
                 /\ machine[w].disk
                 /\ call' = [call EXCEPT ![t].todo = [x \in DOMAIN todo \ {w} |-> todo[x]]]
                 /\ UNCHANGED pc
           \/ \E w \in DOMAIN todo : UsageFails(w) /\ Finish(t, "backend")
        /\ LocalStep

-----------------------------------------------------------------------------
(* start and stop, after reconciliation *)

start_check(t) ==
    /\ At(t, "start_check")
    /\ \/ ~Stored(worlds, W(t)) /\ Finish(t, "not_found")
       \/ worlds[W(t)].status = "running" /\ Finish(t, "ok")
       \/ worlds[W(t)].status \in {"provisioning", "error", "destroying"} /\ Finish(t, "conflict")
       \/ /\ worlds[W(t)].status = "stopped"
          /\ call' = [call EXCEPT ![t].stored = Seen(worlds[W(t)])]
          /\ Goto(t, "start_reserve")
    /\ LocalStep

start_reserve(t) ==
    /\ At(t, "start_reserve")
    /\ \/ /\ Stored(worlds, W(t)) /\ reserve_fits(worlds, W(t))
          /\ worlds' = hold_resources(worlds, W(t))
          /\ Goto(t, "start_boot") /\ UNCHANGED call
       \/ /\ Stored(worlds, W(t)) /\ ~reserve_fits(worlds, W(t))
          /\ Finish(t, "capacity") /\ UNCHANGED worlds
    /\ RegistryStep /\ UNCHANGED inactive

\* LibvirtProvider::start up to the boot of the domain.
start_boot(t) ==
    LET m == machine[W(t)]
        bootable == m.domain = "off" /\ m.files /\ m.disk
        booted == m.domain = "on" /\ m.files
    IN  /\ At(t, "start_boot")
        /\ \/ /\ bootable
              /\ machine' = [machine EXCEPT ![W(t)].domain = "on"]
              /\ Goto(t, "start_ready")
           \/ booted /\ Goto(t, "start_ready") /\ HostUnchanged
           \/ (Fails("start") \/ ~(bootable \/ booted)) /\ Goto(t, "start_probe") /\ HostUnchanged
        /\ UNCHANGED call /\ MachineStep

\* Waiting for the agent and the address, preparing the guest, reading its keys.
start_ready(t) ==
    LET m == machine[W(t)]
    IN  /\ At(t, "start_ready")
        /\ \/ /\ m.domain = "on" /\ m.key # NoKey
              /\ call' = [call EXCEPT ![t].key = m.key]
              /\ Goto(t, "start_apply")
           \/ /\ m.domain # "on" \/ m.key = NoKey \/ Fails("start")
              /\ Goto(t, "start_probe") /\ UNCHANGED call
        /\ LocalStep

\* A failed start: only a machine that is seen stopped gives its resources back.
start_probe(t) ==
    LET seen == Inspection(machine[W(t)])
    IN  /\ At(t, "start_probe")
        /\ \/ seen = "stopped" /\ record_stopped(t, {}) /\ Finish(t, "backend")
           \/ /\ seen = "stopped"
              /\ UsageFails(W(t)) /\ Finish(t, "backend") /\ UNCHANGED <<worlds, inactive>>
           \/ /\ seen # "stopped" \/ Fails("inspect")
              /\ Finish(t, "backend") /\ UNCHANGED <<worlds, inactive>>
        /\ RegistryStep

start_apply(t) == At(t, "start_apply") /\ apply_world(t, "final_read")

stop_check(t) ==
    /\ At(t, "stop_check")
    /\ \/ ~Stored(worlds, W(t)) /\ Finish(t, "not_found")
       \/ worlds[W(t)].status = "stopped" /\ Finish(t, "ok")
       \/ worlds[W(t)].status \in {"provisioning", "error", "destroying"} /\ Finish(t, "conflict")
       \/ /\ worlds[W(t)].status = "running"
          /\ call' = [call EXCEPT ![t].stored = Seen(worlds[W(t)])]
          /\ Goto(t, "stop_shutdown")
    /\ LocalStep

\* A shutdown that times out may still complete later: see GuestPowersOff.
stop_shutdown(t) ==
    /\ At(t, "stop_shutdown")
    /\ \/ /\ machine[W(t)].domain # "none"
          /\ machine' = [machine EXCEPT ![W(t)].domain = "off"]
          /\ Goto(t, "stop_record") /\ UNCHANGED call
       \/ /\ machine[W(t)].domain = "none" \/ Fails("stop")
          /\ Finish(t, "backend") /\ HostUnchanged
    /\ MachineStep

stop_record(t) ==
    /\ At(t, "stop_record")
    /\ \/ record_stopped(t, {W(t)}) /\ Goto(t, "final_read") /\ UNCHANGED call
       \/ UsageFails(W(t)) /\ Finish(t, "backend") /\ UNCHANGED <<worlds, inactive>>
    /\ RegistryStep

\* The read that fills the response.
final_read(t) ==
    /\ At(t, "final_read")
    /\ Finish(t, IF Stored(worlds, W(t)) THEN "ok" ELSE "not_found")
    /\ LocalStep

-----------------------------------------------------------------------------
(* delete, rename and exec, under the world lock *)

\* Mutant: the machine is destroyed before the row says so.
delete_mark_skipped(t) ==
    /\ At(t, "delete_mark")
    /\ Goto(t, "remove_domain")
    /\ UNCHANGED call /\ LocalStep

delete_mark(t) ==
    /\ At(t, "delete_mark")
    /\ \/ /\ Stored(worlds, W(t))
          /\ worlds' = mark_destroying(worlds, W(t))
          /\ inactive' = inactive \cup {W(t)}
          /\ Goto(t, "remove_domain") /\ UNCHANGED call
       \/ ~Stored(worlds, W(t)) /\ Finish(t, "not_found") /\ UNCHANGED <<worlds, inactive>>
    /\ RegistryStep

\* Mutant: an error of the cleanup is dropped.
AfterCleanup_ignored(op, done) == IF op = "create" THEN "create_failed" ELSE "delete_row"

\* Where the provider's cleanup returns to: delete, or a failed create.
AfterCleanup(op, done) ==
    IF op = "create" THEN "create_failed" ELSE IF done THEN "delete_row" ELSE "delete_failed"

\* remove_domain destroys and undefines; a failure may come between the two.
remove_domain(t) ==
    /\ At(t, "remove_domain")
    /\ \/ /\ machine' = [machine EXCEPT ![W(t)].domain = "none"]
          /\ Goto(t, "remove_files")
       \/ /\ Fails("remove")
          /\ \/ HostUnchanged
             \/ /\ machine[W(t)].domain = "on"
                /\ machine' = [machine EXCEPT ![W(t)].domain = "off"]
          /\ Goto(t, AfterCleanup(call[t].op, FALSE))
    /\ UNCHANGED call /\ MachineStep

\* Directory and overlay are both removed even if removing one fails.
remove_files(t) ==
    /\ At(t, "remove_files")
    /\ \E files, disk \in BOOLEAN :
          /\ files => machine[W(t)].files /\ Fails("remove")
          /\ disk => machine[W(t)].disk /\ Fails("remove")
          /\ machine' = [machine EXCEPT ![W(t)].files = files, ![W(t)].disk = disk,
                                        ![W(t)].key = IF disk THEN @ ELSE NoKey]
          /\ Goto(t, AfterCleanup(call[t].op, ~files /\ ~disk))
    /\ UNCHANGED call /\ MachineStep

\* Mutant: a failed removal returns without recording the error.
delete_failed_unrecorded(t) ==
    /\ At(t, "delete_failed")
    /\ Finish(t, "backend")
    /\ LocalStep

delete_failed(t) ==
    /\ At(t, "delete_failed")
    /\ Stored(worlds, W(t))
    /\ worlds' = mark_error(worlds, W(t))
    /\ Finish(t, "backend")
    /\ RegistryStep /\ UNCHANGED inactive

delete_row(t) ==
    /\ At(t, "delete_row")
    /\ Stored(worlds, W(t))
    /\ worlds' = delete(worlds, W(t))
    /\ Finish(t, "ok")
    /\ RegistryStep /\ UNCHANGED inactive

\* Mutant: the name is written without the constraint on it.
rename_write_unchecked(t) ==
    /\ At(t, "rename_write")
    /\ worlds' = rename(worlds, W(t), call[t].request.name)
    /\ Goto(t, "final_read") /\ UNCHANGED call
    /\ RegistryStep /\ UNCHANGED inactive

\* A name in use is a database error here, not the conflict of create.
rename_write(t) ==
    LET w == W(t)
        n == call[t].request.name
        taken == \E x \in StoredIds(worlds) \ {w} : worlds[x].name = n
    IN  /\ At(t, "rename_write")
        /\ \/ /\ Stored(worlds, w) /\ ~taken
              /\ worlds' = rename(worlds, w, n)
              /\ Goto(t, "final_read") /\ UNCHANGED call
           \/ Stored(worlds, w) /\ taken /\ Finish(t, "internal") /\ UNCHANGED worlds
           \/ ~Stored(worlds, w) /\ Finish(t, "not_found") /\ UNCHANGED worlds
        /\ RegistryStep /\ UNCHANGED inactive

exec_check(t) ==
    /\ At(t, "exec_check")
    /\ \/ ~Stored(worlds, W(t)) /\ Finish(t, "not_found")
       \/ Stored(worlds, W(t)) /\ worlds[W(t)].status # "running" /\ Finish(t, "conflict")
       \/ worlds[W(t)].status = "running" /\ Goto(t, "exec_run") /\ UNCHANGED call
    /\ LocalStep

exec_run(t) ==
    /\ At(t, "exec_run")
    /\ \/ machine[W(t)].domain = "on" /\ machine[W(t)].files /\ Finish(t, "ok")
       \/ /\ machine[W(t)].domain # "on" \/ ~machine[W(t)].files \/ Fails("inspect")
          /\ Finish(t, "internal")
    /\ LocalStep

-----------------------------------------------------------------------------
(* The guest and the daemon process *)

\* A guest shuts down or crashes: on_poweroff and on_crash are destroy.
GuestPowersOff(w) ==
    /\ machine[w].domain = "on"
    /\ machine' = [machine EXCEPT ![w].domain = "off"]
    /\ RegistryUnchanged /\ LocksUnchanged
    /\ UNCHANGED <<inactive, pc, call, crashes>>

\* The user of the guest replaces its SSH host keys.
GuestRekeys(w) ==
    /\ machine[w].domain = "on" /\ machine[w].key \in 1 .. MaxKeys - 1
    /\ machine' = [machine EXCEPT ![w].key = @ + 1]
    /\ RegistryUnchanged /\ LocksUnchanged
    /\ UNCHANGED <<inactive, pc, call, crashes>>

\* The daemon dies and starts again: threads, operation keys and the gateway's
\* memory are lost; machines and the registry stay.
Restart ==
    /\ crashes < MaxCrashes
    /\ crashes' = crashes + 1
    /\ worlds' = reconcile_interrupted(worlds)
    /\ active' = {}
    /\ guards' = [t \in Threads |-> {}]
    /\ inactive' = {}
    /\ pc' = [t \in Threads |-> "idle"]
    /\ call' = [t \in Threads |-> NoCall]
    /\ UNCHANGED <<issued, machine>>

CreateStep(t) ==
    \/ lock_create(t) \/ create_lookup(t) \/ create_insert(t) \/ create_overlay(t)
    \/ create_directory(t) \/ create_define(t) \/ create_boot(t) \/ create_wait(t)
    \/ create_setup(t) \/ create_running(t) \/ create_failed(t)

ReconcileSteps(t) ==
    \/ inspect(t) \/ reconcile_reserve(t) \/ reconcile_running(t)
    \/ reconcile_stopped(t) \/ reconcile_error(t)

ListStep(t) ==
    \/ list_read(t) \/ list_next(t) \/ list_unlock(t) \/ list_reread(t) \/ list_usage(t)

PowerStep(t) ==
    \/ start_check(t) \/ start_reserve(t) \/ start_boot(t) \/ start_ready(t)
    \/ start_probe(t) \/ start_apply(t)
    \/ stop_check(t) \/ stop_shutdown(t) \/ stop_record(t)

LockedStep(t) ==
    \/ delete_mark(t) \/ remove_domain(t) \/ remove_files(t) \/ delete_failed(t)
    \/ delete_row(t) \/ rename_write(t) \/ exec_check(t) \/ exec_run(t)

\* The steps of a handler once a request has been accepted.
Handle(t) ==
    \/ CreateStep(t) \/ read(t) \/ get_read(t) \/ try_lock_world(t)
    \/ ReconcileSteps(t) \/ ListStep(t) \/ PowerStep(t) \/ LockedStep(t)
    \/ final_read(t) \/ Respond(t)

Next ==
    \/ \E t \in Threads : Receive(t) \/ Handle(t)
    \/ \E w \in WorldIds : GuestPowersOff(w) \/ GuestRekeys(w)
    \/ Restart

Spec == Init /\ [][Next]_vars

\* Every thread of a live process runs, and every call it makes returns: the
\* waits on libvirt, the guest agent and SSH all have deadlines.
FairSpec == Spec /\ \A t \in Threads : WF_vars(Handle(t))

-----------------------------------------------------------------------------
(* Properties.  The ones marked (r) are about worlds that no client removes *)
(* while they are being created: RemoveWhileCreating = FALSE.               *)

\* The steps of reconcile_locked, and of each operation.
ReconcilePoints == {"inspect", "reconcile_reserve", "reconcile_running",
                    "reconcile_stopped", "reconcile_error"}

CreateSteps == {"create_lookup", "create_insert", "create_overlay", "create_directory",
                "create_define", "create_boot", "create_wait", "create_setup",
                "create_running", "create_failed"}

StepsOf == [
    create |-> CreateSteps \cup {"create_lock", "remove_domain", "remove_files", "final_read"},
    list   |-> ReconcilePoints \cup {"list_read", "list_next", "list_unlock", "list_reread",
                                     "list_usage"},
    get    |-> ReconcilePoints \cup {"get_read", "lock", "final_read"},
    start  |-> ReconcilePoints \cup {"read", "lock", "start_check", "start_reserve", "start_boot",
                                     "start_ready", "start_probe", "start_apply", "final_read"},
    stop   |-> ReconcilePoints \cup {"read", "lock", "stop_check", "stop_shutdown",
                                     "stop_record", "final_read"},
    delete |-> {"lock", "delete_mark", "remove_domain", "remove_files", "delete_failed",
                "delete_row"},
    rename |-> {"read", "lock", "rename_write", "final_read"},
    exec   |-> {"lock", "exec_check", "exec_run"}]

Steps == {"idle", "return"} \cup UNION {StepsOf[op] : op \in Operation}

\* The state of the registry, the machines, the operations and the handlers
\* stays within its types: rows keep a known status, a handler is at a known
\* step of its operation with well-formed locals, and no inspection is tried
\* more often than the status of its world allows.
TypeOK ==
    /\ worlds \in [WorldIds -> Row]
    /\ issued \subseteq WorldIds
    /\ machine \in [WorldIds -> Machine]
    /\ active \subseteq OperationKey
    /\ guards \in [Threads -> SUBSET OperationKey]
    /\ inactive \subseteq WorldIds
    /\ pc \in [Threads -> Steps]
    /\ call \in [Threads -> Call]
    /\ \A t \in Threads :
          /\ pc[t] \in {"idle", "return"} \cup StepsOf[call[t].op]
          /\ At(t, "inspect") => call[t].attempts <= Retries(call[t].stored)
    /\ crashes \in 0 .. MaxCrashes

\* The steps that work on one world under its operation key.
WorldSteps == ReconcilePoints \cup
              {"list_unlock", "start_check", "start_reserve",
               "start_boot", "start_ready", "start_probe", "start_apply",
               "stop_check", "stop_shutdown", "stop_record", "delete_mark",
               "remove_domain", "remove_files", "delete_failed", "delete_row",
               "rename_write", "exec_check", "exec_run"}

InWorldSection(t) == pc[t] \in WorldSteps /\ call[t].op # "create"
InCreateSection(t) ==
    pc[t] \in CreateSteps \cup {"remove_domain", "remove_files", "final_read"} /\ call[t].op = "create"

\* Operations of operations.rs give mutual exclusion: no two handlers work on
\* the same world under its key at once, and no two creates of one name overlap.
OneOperationPerWorld ==
    \A t, u \in Threads : t # u =>
        /\ ~(InWorldSection(t) /\ InWorldSection(u) /\ W(t) = W(u))
        /\ ~(/\ InCreateSection(t) /\ InCreateSection(u)
             /\ call[t].request.name = call[u].request.name)

\* The inductive strengthening of OneOperationPerWorld: guards of different
\* threads are disjoint and recorded in the shared set, and a thread inside a
\* section owns the guard of that section.
LockInv ==
    /\ \A t \in Threads : guards[t] \subseteq active
    /\ \A t, u \in Threads : t # u => guards[t] \cap guards[u] = {}
    /\ \A t \in Threads : InWorldSection(t) => WorldKey(W(t)) \in guards[t]
    /\ \A t \in Threads : InCreateSection(t) => CreateKey(call[t].request.name) \in guards[t]

\* Names are unique on the server, whatever creates and renames race.
NamesUnique ==
    \A w, x \in StoredIds(worlds) : worlds[w].name = worlds[x].name => w = x

\* (r) A world that is recorded running, or whose machine is on, holds its
\* processors and memory in the registry, whatever was interleaved or failed.
Accounted ==
    \A w \in StoredIds(worlds) :
        worlds[w].status = "running" \/ machine[w].domain = "on"
            => worlds[w].compute_reserved

\* (r) ensure_resources_reserved takes no limit, and yet the processors and
\* memory reserved never exceed the configured ones.
WithinCapacity == \A r \in Compute : reserved_resources(worlds, r) <= Limit[r]

\* (r) What a world has on the host is always reachable through its row: once
\* the row is deleted no domain, directory or overlay is left.
NothingLeftBehind ==
    \A w \in WorldIds : ~Stored(worlds, w) => machine[w] = NoMachine

\* A provisioning world has a thread creating it and a destroying one a thread
\* deleting it: no path through the handlers forgets to settle the status.
InFlightOwned ==
    \A w \in WorldIds :
        /\ worlds[w].status = "provisioning" => \E t \in Threads : Creating(t, w) /\ ~At(t, "return")
        /\ worlds[w].status = "destroying" =>
              \E t \in Threads : /\ call[t].op = "delete" /\ W(t) = w
                                 /\ pc[t] \in {"remove_domain", "remove_files",
                                               "delete_failed", "delete_row"}

\* (r) The pane observations of a running world are accepted by the gateway
\* whenever no operation is active on it.
RunningObservable ==
    \A w \in StoredIds(worlds) :
        worlds[w].status = "running" /\ WorldKey(w) \notin active => w \notin inactive

\* A world keeps the SSH host identity it was created with: no reconciliation,
\* however stale the row it read, overwrites it.
PinnedIdentity ==
    [][\A w \in WorldIds :
          worlds[w].ssh # NoKey /\ Stored(worlds', w) => worlds'[w].ssh = worlds[w].ssh]_vars

\* (r) While a handler inspects, starts, stops or removes a world, retries
\* included, only that handler changes the recorded status of the world.
StatusChangedByHolder ==
    [][\A t \in Threads :
          /\ InWorldSection(t) /\ pc[t] \notin {"list_unlock", "rename_write", "exec_check",
                                                "exec_run", "delete_mark", "start_check", "stop_check"}
          /\ pc'[t] = pc[t]
          => worlds'[W(t)].status = worlds[W(t)].status]_vars

\* (r) The server implements the life of a world that WorldLifecycle promises.
Lifecycle == INSTANCE WorldLifecycle WITH
    NoIdentity <- NoKey,
    status <- [w \in WorldIds |->
                 IF Stored(worlds, w) THEN worlds[w].status
                 ELSE IF w \in issued THEN "removed" ELSE "unborn"],
    held <- [w \in WorldIds |-> [r \in Compute |-> Held(worlds[w], r)]],
    identity <- [w \in WorldIds |-> worlds[w].ssh]

ImplementsLifecycle == Lifecycle!Spec

\* Every request that is not waiting for a create of the same name is answered.
Served == \A t \in Threads : pc[t] \notin {"idle", "create_lock"} ~> pc[t] = "idle"

\* No world stays provisioning or destroying for ever.
Settles == \A w \in WorldIds :
    worlds[w].status \in {"provisioning", "destroying"} ~>
        worlds[w].status \notin {"provisioning", "destroying"}

-----------------------------------------------------------------------------
(* What the documentation says and the code does not keep *)

\* client.md: `wt rm` deletes the overlay of a world.
RemovedLeavesNothing ==
    (\A t \in Threads : At(t, "idle")) =>
        \A w \in issued : ~Stored(worlds, w) => machine[w] = NoMachine

\* ADR 0043: the error of a world does not make an inventory request fail.
InventoryAnswered ==
    \A t \in Threads :
        At(t, "return") /\ call[t].op = "list" => call[t].out = "ok"

=============================================================================
