---------------------------- MODULE ApiMutations ----------------------------
(***************************************************************************)
(* Replayable world mutations of the JSON API: the api_mutation_results    *)
(* table (crates/shared/workload-registry/src/api.rs) and its use around   *)
(* the handlers of WorldService (crates/products/wt/server/src/lib.rs and  *)
(* service/api.rs).  A create or delete that carries a request id reserves *)
(* a row, runs the handler, and replaces the reservation by the outcome or *)
(* withdraws it.                                                           *)
(*                                                                         *)
(* The hash of an operation is the operation itself.  Requests addressed   *)
(* to another server, and operations that may not carry a request id, are  *)
(* answered before any state is touched and are left out.                  *)
(***************************************************************************)
EXTENDS WorldService

CONSTANTS
    RequestIds,     \* the request UUIDs of the clients
    RETENTION,      \* RESULT_RETENTION_MILLIS, in clock ticks
    MaxNow,         \* bound: the last reading of the clock
    ClockJumps      \* may the wall clock pass the expiry of a running request?

ASSUME ApiAssumption ==
    /\ RETENTION \in Nat \ {0}
    /\ MaxNow \in Nat
    /\ ClockJumps \in BOOLEAN

VARIABLES
    results,    \* the api_mutation_results table
    running,    \* the request each thread executes, if it carries an id
    now         \* SystemTime::now in begin_api_mutation

api == <<results, running, now>>

\* The operations that may be replayed: create and delete.
Content == {[op |-> "create", w |-> AnyWorld, request |-> q] : q \in Request}
           \cup {[op |-> "delete", w |-> w, request |-> AnyRequest] : w \in WorldIds}

Pending == "pending"

\* A row of the table; no row at all is Absent.
ResultRow == [hash : Content, response : Outcome \cup {Pending}, expires : Nat]
Absent == [absent |-> TRUE]

\* The request a thread executes; out is Pending until its handler returns.
Execution == [id : RequestIds, hash : Content, expires : Nat, out : Outcome \cup {Pending}]
NoExecution == [none |-> TRUE]

Reserved(r) == results[r] # Absent /\ results[r].response = Pending

Executes(t, r) == running[t] # NoExecution /\ running[t].id = r

\* The reservation of a request: its row, as long as it has no response.
Reservation(rows, execution) ==
    rows[execution.id] # Absent /\ rows[execution.id].hash = execution.hash
    /\ rows[execution.id].response = Pending

ApiInit ==
    /\ Init
    /\ results = [r \in RequestIds |-> Absent]
    /\ running = [t \in Threads |-> NoExecution]
    /\ now = 0

-----------------------------------------------------------------------------
(* begin_api_mutation *)

\* Rows that have expired are deleted at the start of every mutation.
Unexpired(rows) ==
    [r \in RequestIds |-> IF rows[r] # Absent /\ rows[r].expires <= now THEN Absent ELSE rows[r]]

\* Mutant: a reservation that nobody has answered yet is taken over.
begin_api_mutation_takeover(t, r, content) ==
    LET rows == Unexpired(results)
    IN  /\ rows[r] # Absent => rows[r].response = Pending
        /\ results' = [rows EXCEPT ![r] = [hash |-> content, response |-> Pending,
                                           expires |-> now + RETENTION]]
        /\ running' = [running EXCEPT ![t] = [id |-> r, hash |-> content,
                                              expires |-> now + RETENTION, out |-> Pending]]

\* Started: the reservation is inserted in the transaction that found none.
begin_api_mutation(t, r, content) ==
    LET rows == Unexpired(results)
    IN  /\ rows[r] = Absent
        /\ results' = [rows EXCEPT ![r] = [hash |-> content, response |-> Pending,
                                           expires |-> now + RETENTION]]
        /\ running' = [running EXCEPT ![t] = [id |-> r, hash |-> content,
                                              expires |-> now + RETENTION, out |-> Pending]]

\* Replay, InProgress or Conflict: the request is answered from the table.
answer_from_results(r) ==
    /\ Unexpired(results)[r] # Absent
    /\ results' = Unexpired(results)
    /\ UNCHANGED running

\* A client sends a create or a delete with a request id.
execute_api_mutation(t) ==
    \E r \in RequestIds, content \in Content :
        /\ running[t] = NoExecution
        /\ content.op = "delete" => content.w \in issued /\ MayRemove(content.w)
        /\ content.op = "create" => IdsLeft
        /\ \/ /\ begin_api_mutation(t, r, content)
              /\ Accept(t, content.op, content.w, content.request,
                        IF content.op = "create" THEN "create_lock" ELSE "lock")
           \/ /\ At(t, "idle") /\ answer_from_results(r)
              /\ UNCHANGED vars
        /\ UNCHANGED now

-----------------------------------------------------------------------------
(* execute_new_mutation, after the handler *)

\* Mutant: a conflict of a removal counts as success.
OutcomeOf_lenient(op, out) ==
    IF op = "delete" /\ out \in {"not_found", "conflict"} THEN "ok" ELSE out

\* A world that is already gone has been deleted.
OutcomeOf(op, out) == IF op = "delete" /\ out = "not_found" THEN "ok" ELSE out

\* Errors of the host, of capacity and of the server may be retried, and so may
\* a removal that met an active operation.
Retryable(op, out) ==
    out \in {"capacity", "backend", "internal"} \/ (op = "delete" /\ out = "conflict")

\* The handler returns and its guards are dropped.
handler_returns(t) ==
    /\ running[t] # NoExecution /\ running[t].out = Pending
    /\ Respond(t)
    /\ running' = [running EXCEPT ![t].out = OutcomeOf(call[t].op, call[t].out)]
    /\ UNCHANGED <<results, now>>

\* Mutant: the reservation of a request that may be retried is kept.
abort_api_mutation_kept(t) == UNCHANGED results

abort_api_mutation(t) ==
    results' = IF Reservation(results, running[t])
               THEN [results EXCEPT ![running[t].id] = Absent] ELSE results

finish_api_mutation(t) ==
    /\ Reservation(results, running[t])
    /\ results' = [results EXCEPT ![running[t].id].response = running[t].out]

\* The outcome is stored, or the reservation is withdrawn; a reservation that
\* is missing leaves an error the client may retry.
record_outcome(t) ==
    /\ running[t] # NoExecution /\ running[t].out # Pending
    /\ \/ Retryable(running[t].hash.op, running[t].out) /\ abort_api_mutation(t)
       \/ ~Retryable(running[t].hash.op, running[t].out) /\ finish_api_mutation(t)
       \/ /\ ~Retryable(running[t].hash.op, running[t].out)
          /\ ~Reservation(results, running[t]) /\ abort_api_mutation(t)
    /\ running' = [running EXCEPT ![t] = NoExecution]
    /\ UNCHANGED now /\ UNCHANGED vars

-----------------------------------------------------------------------------
(* The rest of the server *)

\* The other steps of a handler, and requests that carry no id.
ServiceStep(t) ==
    /\ \/ running[t] = NoExecution /\ (Receive(t) \/ Handle(t))
       \/ running[t] # NoExecution /\ Handle(t) /\ ~At(t, "return")
    /\ UNCHANGED api

\* The wall clock advances; see ClockJumps.
Tick ==
    /\ now < MaxNow
    /\ ClockJumps \/ \A t \in Threads : running[t] # NoExecution => now + 1 < running[t].expires
    /\ now' = now + 1
    /\ UNCHANGED <<results, running>> /\ UNCHANGED vars

\* Mutant: start-up deletes every row.
clear_api_mutations == results' = [r \in RequestIds |-> Absent]

\* Start-up deletes the reservations of the process that died.
clear_incomplete_api_mutations ==
    results' = [r \in RequestIds |-> IF Reserved(r) THEN Absent ELSE results[r]]

ApiRestart ==
    /\ Restart
    /\ clear_incomplete_api_mutations
    /\ running' = [t \in Threads |-> NoExecution]
    /\ UNCHANGED now

ApiNext ==
    \/ \E t \in Threads :
          \/ execute_api_mutation(t) \/ handler_returns(t) \/ record_outcome(t) \/ ServiceStep(t)
    \/ \E w \in WorldIds : (GuestPowersOff(w) \/ GuestRekeys(w)) /\ UNCHANGED api
    \/ Tick
    \/ ApiRestart

apiVars == <<vars, api>>

ApiSpec == ApiInit /\ [][ApiNext]_apiVars

-----------------------------------------------------------------------------
(* Properties *)

\* The table and the executions stay within their types: a stored response is
\* final for the client.
ApiTypeOK ==
    /\ results \in [RequestIds -> ResultRow \cup {Absent}]
    /\ running \in [Threads -> Execution \cup {NoExecution}]
    /\ now \in 0 .. MaxNow

\* A request is only "still in progress" while a thread executes it: whatever
\* fails, expires or crashes, no reservation outlives its execution.
ReservationOwned ==
    \A r \in RequestIds : Reserved(r) =>
        \E t \in Threads : Executes(t, r) /\ running[t].hash = results[r].hash

\* A recorded outcome is what every retry is told until it expires: no late
\* execution of the same request overwrites or withdraws it.
RecordedIsFinal ==
    [][\A r \in RequestIds :
          results[r] # Absent /\ results[r].response # Pending =>
              \/ results'[r] = results[r]
              \/ results[r].expires <= now]_apiVars

\* While the clock does not pass the expiry of a running request, a request id
\* is executed by one thread at a time, and never after its outcome is stored.
OneExecution ==
    \A r \in RequestIds :
        /\ \A t, u \in Threads : Executes(t, r) /\ Executes(u, r) => t = u
        /\ (\E t \in Threads : Executes(t, r)) => Reserved(r)

\* A removal that is recorded as done stays done: the world is not in the
\* registry again, whichever handlers, retries and restarts raced with it.
RemovalHolds ==
    \A r \in RequestIds :
        results[r] # Absent /\ results[r].response = "ok" /\ results[r].hash.op = "delete" =>
            ~Stored(worlds, results[r].hash.w)

=============================================================================
