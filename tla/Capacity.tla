------------------------------ MODULE Capacity ------------------------------
(***************************************************************************)
(* The worlds table of the workload registry and its capacity accounting   *)
(* (crates/shared/workload-registry/src/capacity.rs and the row operations *)
(* of store.rs).  A row is a record; the row of a world that is not in the *)
(* table has status "absent".  The registry transactions are operators on  *)
(* the table: SQLite's immediate transactions make each of them one step.  *)
(*                                                                         *)
(* Owner, guest address and last_error are left out: the daemon runs every *)
(* request as one owner, and neither of the others is read back by a       *)
(* decision.  The fingerprint of a create request is the request itself.   *)
(***************************************************************************)
EXTENDS Integers, FiniteSets, FiniteSetsExt

CONSTANTS
    WorldIds,   \* the world UUIDs of an instance
    Names,      \* world names
    Shapes,     \* the resources a create request may ask for
    Limit,      \* the configured limit of each resource
    GiB,        \* bytes per GiB, in the model's unit of disk allocation
    MaxKeys     \* SSH host identities a guest may present in its life

Resource == {"cpu", "memory", "disk"}
Compute == {"cpu", "memory"}

ASSUME CapacityAssumption ==
    /\ Limit \in [Resource -> Nat \ {0}]
    /\ Shapes \subseteq [Resource -> Nat \ {0}]
    /\ GiB \in Nat \ {0}
    /\ MaxKeys \in Nat \ {0}
    /\ IsFiniteSet(WorldIds)

WorldStatus == {"provisioning", "running", "stopped", "error", "destroying"}

NoKey == 0
KeyIds == 0 .. MaxKeys

Request == [name : Names, want : Shapes]

Row == [name : Names, want : [Resource -> Nat], fingerprint : Request,
        status : WorldStatus \cup {"absent"},
        compute_reserved : BOOLEAN, disk_reserved : Nat, ssh : KeyIds]

\* The row of a world that is not in the table.  Only its status is read.
NoRow == [name |-> CHOOSE n \in Names : TRUE,
          want |-> [r \in Resource |-> 0],
          fingerprint |-> CHOOSE q \in Request : TRUE,
          status |-> "absent", compute_reserved |-> FALSE,
          disk_reserved |-> 0, ssh |-> NoKey]

Stored(ws, w) == ws[w].status # "absent"

StoredIds(ws) == {w \in WorldIds : Stored(ws, w)}

\* What one row holds of a resource: the CASE expressions of the SUM query.
Held(row, r) ==
    IF r = "disk" THEN row.disk_reserved
    ELSE IF row.compute_reserved THEN row.want[r] ELSE 0

reserved_resources(ws, r) == MapThenSumSet(LAMBDA w : Held(ws[w], r), WorldIds)

\* Admission of a new world; every resource is checked against its limit.
ensure_capacity(ws, want) ==
    \A r \in Resource : reserved_resources(ws, r) + want[r] <= Limit[r]

insert_world(ws, w, request) ==
    [ws EXCEPT ![w] =
        [name |-> request.name, want |-> request.want, fingerprint |-> request,
         status |-> "provisioning", compute_reserved |-> TRUE,
         disk_reserved |-> request.want["disk"], ssh |-> NoKey]]

\* The UNIQUE constraint on worlds.name.
NameTaken(ws, n) == \E w \in StoredIds(ws) : ws[w].name = n

DiskTarget(row) == Max({row.want["disk"], row.disk_reserved})

\* What reserve_resources asks for on top of what the row already holds.
ReserveRequest(row, r) ==
    IF r = "disk" THEN DiskTarget(row) - row.disk_reserved
    ELSE IF row.compute_reserved THEN 0 ELSE row.want[r]

\* Mutant: a start checks the disk only.
reserve_fits_disk_only(ws, w) ==
    reserved_resources(ws, "disk") + ReserveRequest(ws[w], "disk") <= Limit["disk"]

\* A row that holds its full reservation is left alone without a check.
\* A compute resource is only checked when the row does not hold it yet.
reserve_fits(ws, w) ==
    LET row == ws[w]
        checked == IF row.compute_reserved THEN {"disk"} ELSE Resource
    IN  \/ row.compute_reserved /\ row.disk_reserved = DiskTarget(row)
        \/ \A r \in checked :
               reserved_resources(ws, r) + ReserveRequest(row, r) <= Limit[r]

\* The update shared by reserve_resources and ensure_resources_reserved.
hold_resources(ws, w) ==
    [ws EXCEPT ![w].compute_reserved = TRUE,
               ![w].disk_reserved = DiskTarget(ws[w])]

DivCeil(a, b) == (a + b - 1) \div b

release_resources(ws, w, disk_usage_bytes) ==
    [ws EXCEPT ![w].compute_reserved = FALSE,
               ![w].disk_reserved = DivCeil(disk_usage_bytes, GiB)]

mark_host_running(ws, w, key) ==
    [ws EXCEPT ![w].status = "running", ![w].ssh = key]

mark_stopped(ws, w, disk_usage_bytes) ==
    release_resources([ws EXCEPT ![w].status = "stopped"], w, disk_usage_bytes)

\* Mutant: an errored world gives its resources back.
mark_error_released(ws, w) ==
    [ws EXCEPT ![w].status = "error", ![w].compute_reserved = FALSE]

mark_error(ws, w) == [ws EXCEPT ![w].status = "error"]

mark_destroying(ws, w) == [ws EXCEPT ![w].status = "destroying"]

rename(ws, w, n) == [ws EXCEPT ![w].name = n]

delete(ws, w) == [ws EXCEPT ![w] = NoRow]

\* Start-up: operations that a previous process left in flight are errors.
reconcile_interrupted(ws) ==
    [w \in WorldIds |->
        IF ws[w].status \in {"provisioning", "destroying"}
        THEN [ws[w] EXCEPT !.status = "error"] ELSE ws[w]]

=============================================================================
