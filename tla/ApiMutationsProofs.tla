------------------------- MODULE ApiMutationsProofs -------------------------
(***************************************************************************)
(* Proofs about ApiMutations: the request ids leave the behaviour of the   *)
(* service alone, no reservation outlives its execution, a request is      *)
(* executed once, and what is recorded stays recorded and true.            *)
(***************************************************************************)
EXTENDS ApiMutations, WorldServiceProofs

-----------------------------------------------------------------------------
(* Every step of the server with request ids is a step of the service *)

LEMMA StepOfService == [ApiNext]_apiVars => [Next]_vars
<1> SUFFICES ASSUME [ApiNext]_apiVars PROVE [Next]_vars
  OBVIOUS
<1>1. CASE UNCHANGED vars
  BY <1>1
<1>2. ASSUME NEW t \in Threads, execute_api_mutation(t) PROVE [Next]_vars
  <2>1. PICK r \in RequestIds, content \in Content :
          /\ content.op = "delete" => content.w \in issued /\ MayRemove(content.w)
          /\ content.op = "create" => IdsLeft
          /\ \/ Accept(t, content.op, content.w, content.request,
                       IF content.op = "create" THEN "create_lock" ELSE "lock")
             \/ UNCHANGED vars
    BY <1>2 DEF execute_api_mutation
  <2>2. CASE UNCHANGED vars
    BY <2>2
  <2>3. CASE content.op = "create"
    <3>1. PICK q \in Request : content = [op |-> "create", w |-> AnyWorld, request |-> q]
      BY <2>3 DEF Content
    <3>2. CASE Accept(t, "create", AnyWorld, q, "create_lock")
      BY <2>1, <2>3, <3>2 DEF Receive, Next
    <3> QED BY <2>1, <2>2, <3>1, <3>2
  <2>4. CASE content.op # "create"
    <3>1. PICK w \in WorldIds : content = [op |-> "delete", w |-> w, request |-> AnyRequest]
      BY <2>4 DEF Content
    <3>2. w \in issued /\ MayRemove(w)
      BY <2>1, <3>1
    <3>3. CASE Accept(t, "delete", w, AnyRequest, "lock")
      BY <3>2, <3>3 DEF Receive, Next
    <3> QED BY <2>1, <2>2, <3>1, <3>3
  <2> QED BY <2>3, <2>4
<1>3. ASSUME NEW t \in Threads, handler_returns(t) PROVE [Next]_vars
  BY <1>3 DEF handler_returns, Handle, Next
<1>4. ASSUME NEW t \in Threads, record_outcome(t) PROVE [Next]_vars
  BY <1>1, <1>4 DEF record_outcome
<1>5. ASSUME NEW t \in Threads, ServiceStep(t) PROVE [Next]_vars
  BY <1>5 DEF ServiceStep, Next
<1>6. CASE \E w \in WorldIds : (GuestPowersOff(w) \/ GuestRekeys(w)) /\ UNCHANGED api
  BY <1>6 DEF Next
<1>7. CASE Tick
  BY <1>1, <1>7 DEF Tick
<1>8. CASE ApiRestart
  BY <1>8 DEF ApiRestart, Next
<1> QED
  BY <1>1, <1>2, <1>3, <1>4, <1>5, <1>6, <1>7, <1>8 DEF ApiNext, apiVars

\* The server that serves request ids implements the service of WorldService:
\* reserving, replaying and recording add no behaviour to the worlds.
THEOREM ApiImplementsService == ApiSpec => Spec
<1>1. ApiInit => Init
  BY DEF ApiInit
<1> QED
  BY <1>1, StepOfService, PTL DEF ApiSpec, Spec

-----------------------------------------------------------------------------
(* Types of the table and of the executions *)

LEMMA ContentTyped ==
    /\ Absent \notin ResultRow
    /\ NoExecution \notin Execution
    /\ \A t \in Threads : TypeOK => call[t].out \in Outcome /\ call[t].op \in Operation
<1>1. Absent \notin ResultRow
  BY DEF Absent, ResultRow
<1>2. NoExecution \notin Execution
  BY DEF NoExecution, Execution
<1>3. ASSUME NEW t \in Threads, TypeOK PROVE call[t].out \in Outcome /\ call[t].op \in Operation
  BY <1>3 DEF TypeOK, Call
<1> QED BY <1>1, <1>2, <1>3

LEMMA ApiTypeInit == ApiInit => ApiTypeOK
BY ApiAssumption DEF ApiInit, ApiTypeOK

LEMMA ApiTypeStep == TypeOK /\ ApiTypeOK /\ [ApiNext]_apiVars => ApiTypeOK'
<1> SUFFICES ASSUME TypeOK, ApiTypeOK, [ApiNext]_apiVars PROVE ApiTypeOK'
  OBVIOUS
<1> USE ContentTyped
<1>0. Unexpired(results) \in [RequestIds -> ResultRow \cup {Absent}]
  BY DEF Unexpired, ApiTypeOK
<1>1. CASE UNCHANGED api
  BY <1>1 DEF api, ApiTypeOK
<1>2. ASSUME NEW t \in Threads, execute_api_mutation(t) PROVE ApiTypeOK'
  <2>1. PICK r \in RequestIds, content \in Content :
          begin_api_mutation(t, r, content) \/ answer_from_results(r)
    BY <1>2 DEF execute_api_mutation
  <2>2. now' \in 0 .. MaxNow /\ now + RETENTION \in Nat
    BY <1>2, ApiAssumption DEF execute_api_mutation, ApiTypeOK
  <2>3. CASE begin_api_mutation(t, r, content)
    <3>1. [hash |-> content, response |-> Pending, expires |-> now + RETENTION] \in ResultRow
      BY <2>2 DEF ResultRow
    <3>2. [id |-> r, hash |-> content, expires |-> now + RETENTION, out |-> Pending] \in Execution
      BY <2>2 DEF Execution
    <3> QED BY <1>0, <2>2, <2>3, <3>1, <3>2 DEF begin_api_mutation, ApiTypeOK
  <2>4. CASE answer_from_results(r)
    BY <1>0, <2>2, <2>4 DEF answer_from_results, ApiTypeOK
  <2> QED BY <2>1, <2>3, <2>4
<1>3. ASSUME NEW t \in Threads, handler_returns(t) PROVE ApiTypeOK'
  <2>1. running[t] \in Execution
    BY <1>3 DEF handler_returns, ApiTypeOK
  <2>2. OutcomeOf(call[t].op, call[t].out) \in Outcome
    BY DEF OutcomeOf, Outcome
  <2>3. [running[t] EXCEPT !.out = OutcomeOf(call[t].op, call[t].out)] \in Execution
    BY <2>1, <2>2 DEF Execution
  <2> QED BY <1>3, <2>3 DEF handler_returns, ApiTypeOK
<1>4. ASSUME NEW t \in Threads, record_outcome(t) PROVE ApiTypeOK'
  <2>1. running[t] \in Execution /\ running[t].out \in Outcome /\ running[t].id \in RequestIds
    BY <1>4 DEF record_outcome, ApiTypeOK, Execution
  <2>2. running' \in [Threads -> Execution \cup {NoExecution}] /\ now' \in 0 .. MaxNow
    BY <1>4 DEF record_outcome, ApiTypeOK
  <2>3. CASE abort_api_mutation(t)
    BY <2>1, <2>2, <2>3 DEF abort_api_mutation, ApiTypeOK
  <2>4. CASE finish_api_mutation(t)
    <3>1. results[running[t].id] \in ResultRow
      BY <2>1, <2>4 DEF finish_api_mutation, Reservation, ApiTypeOK
    <3>2. [results[running[t].id] EXCEPT !.response = running[t].out] \in ResultRow
      BY <2>1, <3>1 DEF ResultRow
    <3> QED BY <2>1, <2>2, <2>4, <3>2 DEF finish_api_mutation, ApiTypeOK
  <2> QED BY <1>4, <2>3, <2>4 DEF record_outcome
<1>5. ASSUME NEW t \in Threads, ServiceStep(t) PROVE ApiTypeOK'
  BY <1>1, <1>5 DEF ServiceStep
<1>6. CASE Tick
  BY <1>6, ApiAssumption DEF Tick, ApiTypeOK
<1>7. CASE ApiRestart
  BY <1>7 DEF ApiRestart, clear_incomplete_api_mutations, ApiTypeOK
<1> QED
  BY <1>1, <1>2, <1>3, <1>4, <1>5, <1>6, <1>7 DEF ApiNext, apiVars

-----------------------------------------------------------------------------
(* Reservations *)

LEMMA ReservationStep ==
    TypeOK /\ ApiTypeOK /\ ReservationOwned /\ [ApiNext]_apiVars => ReservationOwned'
<1> SUFFICES ASSUME TypeOK, ApiTypeOK, ReservationOwned, [ApiNext]_apiVars,
                    NEW r \in RequestIds, Reserved(r)'
             PROVE  \E t \in Threads : (Executes(t, r) /\ running[t].hash = results[r].hash)'
  BY DEF ReservationOwned
<1> USE ContentTyped
<1>1. CASE UNCHANGED <<results, running>>
  BY <1>1 DEF ReservationOwned, Reserved, Executes
<1>2. ASSUME NEW t \in Threads, execute_api_mutation(t)
      PROVE  \E u \in Threads : (Executes(u, r) /\ running[u].hash = results[r].hash)'
  <2>1. PICK s \in RequestIds, content \in Content :
          running[t] = NoExecution
          /\ (begin_api_mutation(t, s, content) \/ answer_from_results(s))
    BY <1>2 DEF execute_api_mutation
  <2>2. CASE begin_api_mutation(t, s, content) /\ r = s
    <3>1. running'[t] = [id |-> r, hash |-> content, expires |-> now + RETENTION, out |-> Pending]
      BY <2>2 DEF begin_api_mutation, ApiTypeOK
    <3>2. results'[r].hash = content
      BY <2>2 DEF begin_api_mutation, Unexpired
    <3>3. running'[t] # NoExecution
      BY <3>1 DEF NoExecution
    <3> QED BY <3>1, <3>2, <3>3 DEF Executes
  <2>3. CASE ~(begin_api_mutation(t, s, content) /\ r = s)
    <3>1. results'[r] = Unexpired(results)[r]
      BY <2>1, <2>3 DEF begin_api_mutation, answer_from_results, Unexpired
    <3>2. Reserved(r) /\ results'[r] = results[r]
      BY <3>1 DEF Unexpired, Reserved
    <3>3. PICK u \in Threads : Executes(u, r) /\ running[u].hash = results[r].hash
      BY <3>2 DEF ReservationOwned
    <3>4. running'[u] = running[u]
      BY <2>1, <3>3 DEF begin_api_mutation, answer_from_results, Executes, ApiTypeOK
    <3> QED BY <3>2, <3>3, <3>4 DEF Executes
  <2> QED BY <2>2, <2>3
<1>3. ASSUME NEW t \in Threads, handler_returns(t)
      PROVE  \E u \in Threads : (Executes(u, r) /\ running[u].hash = results[r].hash)'
  <2>1. PICK u \in Threads : Executes(u, r) /\ running[u].hash = results[r].hash
    BY <1>3 DEF handler_returns, ReservationOwned, Reserved
  <2>2. running[t] \in Execution
    BY <1>3 DEF handler_returns, ApiTypeOK
  <2>3. running'[t] # NoExecution /\ running'[t].id = running[t].id /\ running'[t].hash = running[t].hash
    BY <1>3, <2>2 DEF handler_returns, ApiTypeOK, Execution, NoExecution
  <2>4. CASE u = t
    BY <1>3, <2>1, <2>3, <2>4 DEF handler_returns, Executes
  <2>5. CASE u # t
    BY <1>3, <2>1, <2>5 DEF handler_returns, Executes, ApiTypeOK
  <2> QED BY <2>4, <2>5
<1>4. ASSUME NEW t \in Threads, record_outcome(t)
      PROVE  \E u \in Threads : (Executes(u, r) /\ running[u].hash = results[r].hash)'
  \* The row that is still reserved is not the one this thread held.
  <2>1. running[t] \in Execution /\ running[t].id \in RequestIds /\ running[t].out # Pending
    BY <1>4 DEF record_outcome, ApiTypeOK, Execution
  <2>2. /\ Reserved(r) /\ results'[r] = results[r]
        /\ ~(running[t].id = r /\ running[t].hash = results[r].hash)
    <3>1. CASE Reservation(results, running[t])
      <4> DEFINE id == running[t].id
      <4>1. \/ results' = [results EXCEPT ![id] = Absent]
            \/ results' = [results EXCEPT ![id].response = running[t].out]
        BY <1>4, <3>1 DEF record_outcome, abort_api_mutation, finish_api_mutation
      <4>2. results \in [RequestIds -> ResultRow \cup {Absent}] /\ results[id] \in ResultRow
        BY <2>1, <3>1 DEF ApiTypeOK, Reservation
      <4>3. results'[id] = Absent \/ results'[id].response # Pending
        <5>1. results'[id] = Absent \/ results'[id].response = running[t].out
          BY <2>1, <4>1, <4>2 DEF ResultRow
        <5> QED BY <2>1, <5>1
      <4>4. r # id
        BY <4>3 DEF Reserved
      <4>5. results'[r] = results[r]
        BY <2>1, <4>1, <4>2, <4>4
      <4> QED BY <4>4, <4>5 DEF Reserved
    <3>2. CASE ~Reservation(results, running[t])
      <4>1. results' = results
        BY <1>4, <3>2 DEF record_outcome, abort_api_mutation, finish_api_mutation
      <4> QED BY <3>2, <4>1 DEF Reservation, Reserved
    <3> QED BY <3>1, <3>2
  <2>4. PICK u \in Threads : Executes(u, r) /\ running[u].hash = results[r].hash
    BY <2>2 DEF ReservationOwned
  <2>5. u # t
    BY <2>2, <2>4 DEF Executes
  <2>6. running'[u] = running[u]
    BY <1>4, <2>5 DEF record_outcome, ApiTypeOK
  <2> QED BY <2>2, <2>4, <2>6 DEF Executes
<1>5. CASE ApiRestart
  BY <1>5 DEF ApiRestart, clear_incomplete_api_mutations, Reserved
<1> QED
  BY <1>1, <1>2, <1>3, <1>4, <1>5 DEF ApiNext, apiVars, api, ServiceStep, Tick

\* For any number of connections and request ids, with operations that fail,
\* clocks that jump and a daemon that crashes: a request is answered "still in
\* progress" only while a thread executes it.
THEOREM ReservationsOwned == ApiSpec => []ReservationOwned
<1> DEFINE IInv == TypeOK /\ ApiTypeOK /\ ReservationOwned
<1>1. ApiInit => IInv
  <2> SUFFICES ASSUME ApiInit PROVE IInv
    OBVIOUS
  <2>1. TypeOK
    BY TypeInit DEF ApiInit
  <2>2. ApiTypeOK
    BY ApiTypeInit
  <2>3. ReservationOwned
    BY DEF ApiInit, ReservationOwned, Reserved
  <2> QED BY <2>1, <2>2, <2>3
<1>2. IInv /\ [ApiNext]_apiVars => IInv'
  BY StepOfService, TypeStep, ApiTypeStep, ReservationStep
<1>3. IInv => ReservationOwned
  OBVIOUS
<1> QED
  BY <1>1, <1>2, <1>3, PTL DEF ApiSpec

-----------------------------------------------------------------------------
(* Recorded outcomes *)

\* Whatever threads still run the same request, jump of the clock or restart
\* comes between: a recorded outcome is left alone until it has expired.
THEOREM RecordsFinal == ApiSpec => RecordedIsFinal
<1> DEFINE Final(r) == results[r] # Absent /\ results[r].response # Pending =>
                          \/ results'[r] = results[r]
                          \/ results[r].expires <= now
           IInv == TypeOK /\ ApiTypeOK
<1>1. ASSUME IInv, ApiNext, NEW r \in RequestIds PROVE Final(r)
  <2> SUFFICES ASSUME results[r] # Absent, results[r].response # Pending, ~(results[r].expires <= now)
               PROVE  results'[r] = results[r]
    OBVIOUS
  <2>0. Unexpired(results)[r] = results[r]
    BY DEF Unexpired
  <2>1. ASSUME NEW t \in Threads, execute_api_mutation(t) PROVE results'[r] = results[r]
    <3>1. PICK s \in RequestIds, content \in Content :
            begin_api_mutation(t, s, content) \/ answer_from_results(s)
      BY <2>1 DEF execute_api_mutation
    <3> QED BY <2>0, <3>1 DEF begin_api_mutation, answer_from_results, Unexpired
  <2>2. ASSUME NEW t \in Threads, record_outcome(t) PROVE results'[r] = results[r]
    <3>1. CASE Reservation(results, running[t])
      <4>1. r # running[t].id
        BY <3>1 DEF Reservation
      <4> QED BY <1>1, <2>2, <4>1
              DEF record_outcome, abort_api_mutation, finish_api_mutation, ApiTypeOK
    <3>2. CASE ~Reservation(results, running[t])
      BY <2>2, <3>2 DEF record_outcome, abort_api_mutation, finish_api_mutation
    <3> QED BY <3>1, <3>2
  <2>3. CASE ApiRestart
    BY <2>3 DEF ApiRestart, clear_incomplete_api_mutations, Reserved
  <2> QED BY <1>1, <2>1, <2>2, <2>3 DEF ApiNext, handler_returns, ServiceStep, Tick, api
<1>2. ApiInit => IInv
  BY TypeInit, ApiTypeInit DEF ApiInit
<1>3. IInv /\ [ApiNext]_apiVars => IInv'
  BY StepOfService, TypeStep, ApiTypeStep
<1>4. IInv /\ [ApiNext]_apiVars => [\A r \in RequestIds : Final(r)]_apiVars
  BY <1>1
<1> QED BY <1>2, <1>3, <1>4, PTL DEF ApiSpec, RecordedIsFinal

-----------------------------------------------------------------------------
(* One execution of a request *)

\* An execution has its own reservation, which has not expired.
ExecutionInv ==
    /\ \A t \in Threads : running[t] # NoExecution =>
          LET row == results[running[t].id]
          IN  row # Absent /\ row.response = Pending /\ row.expires = running[t].expires
              /\ now < running[t].expires
    /\ \A t, u \in Threads :
          /\ running[t] # NoExecution /\ running[u] # NoExecution
          /\ running[t].id = running[u].id
          => t = u

LEMMA ExecutionStep ==
    ASSUME ~ClockJumps
    PROVE  ApiTypeOK /\ ExecutionInv /\ [ApiNext]_apiVars => ExecutionInv'
<1> SUFFICES ASSUME ApiTypeOK, ExecutionInv, [ApiNext]_apiVars PROVE ExecutionInv'
  OBVIOUS
<1> USE ContentTyped
<1>0. /\ results \in [RequestIds -> ResultRow \cup {Absent}]
      /\ running \in [Threads -> Execution \cup {NoExecution}] /\ now \in Nat
  BY DEF ApiTypeOK
<1>a. \A t \in Threads : running[t] # NoExecution =>
         running[t].id \in RequestIds /\ running[t].expires \in Nat
  BY <1>0 DEF Execution
<1>1. CASE UNCHANGED api
  BY <1>1 DEF api, ExecutionInv
<1>2. ASSUME NEW t \in Threads, execute_api_mutation(t) PROVE ExecutionInv'
  <2>0. \A u \in Threads : running[u] # NoExecution =>
           Unexpired(results)[running[u].id] = results[running[u].id]
    BY <1>0, <1>a DEF Unexpired, ExecutionInv
  <2>1. PICK r \in RequestIds, content \in Content :
          (begin_api_mutation(t, r, content) \/ answer_from_results(r)) /\ UNCHANGED now
    BY <1>2 DEF execute_api_mutation
  <2>2. CASE answer_from_results(r)
    BY <2>0, <2>1, <2>2 DEF answer_from_results, ExecutionInv
  <2>3. CASE begin_api_mutation(t, r, content)
    <3>1. /\ Unexpired(results)[r] = Absent
          /\ running'[t] = [id |-> r, hash |-> content, expires |-> now + RETENTION, out |-> Pending]
          /\ \A u \in Threads : u # t => running'[u] = running[u]
      BY <1>0, <2>3 DEF begin_api_mutation
    <3>2. /\ results'[r] = [hash |-> content, response |-> Pending, expires |-> now + RETENTION]
          /\ \A s \in RequestIds : s # r => results'[s] = Unexpired(results)[s]
      BY <2>3 DEF begin_api_mutation, Unexpired
    <3>3. \A u \in Threads : running[u] # NoExecution => running[u].id # r
      BY <2>0, <3>1 DEF ExecutionInv
    <3>4. results'[r] # Absent /\ now < now + RETENTION
      BY <1>0, <3>2, ApiAssumption DEF Absent
    <3>5. ASSUME NEW u \in Threads, running'[u] # NoExecution
          PROVE  LET row == results'[running'[u].id]
                 IN  row # Absent /\ row.response = Pending /\ row.expires = running'[u].expires
                     /\ now' < running'[u].expires
      <4>1. CASE u = t
        BY <2>1, <3>1, <3>2, <3>4, <4>1
      <4>2. CASE u # t
        BY <1>a, <2>0, <2>1, <3>1, <3>2, <3>3, <3>5, <4>2 DEF ExecutionInv
      <4> QED BY <4>1, <4>2
    <3>6. ASSUME NEW u \in Threads, NEW v \in Threads, running'[u] # NoExecution,
                 running'[v] # NoExecution, running'[u].id = running'[v].id
          PROVE  u = v
      BY <3>1, <3>3, <3>6 DEF ExecutionInv
    <3> QED BY <3>5, <3>6 DEF ExecutionInv
  <2> QED BY <2>1, <2>2, <2>3
<1>3. ASSUME NEW t \in Threads, handler_returns(t) PROVE ExecutionInv'
  <2>1. running[t] \in Execution /\ UNCHANGED <<results, now>>
    BY <1>0, <1>3 DEF handler_returns
  <2>2. \A u \in Threads : /\ running'[u] # NoExecution => running[u] # NoExecution
                           /\ running'[u].id = running[u].id /\ running'[u].expires = running[u].expires
    BY <1>0, <1>3, <2>1 DEF handler_returns, Execution
  <2> QED BY <2>1, <2>2 DEF ExecutionInv
<1>4. ASSUME NEW t \in Threads, record_outcome(t) PROVE ExecutionInv'
  <2>1. /\ running[t] # NoExecution /\ running'[t] = NoExecution /\ UNCHANGED now
        /\ \A u \in Threads : u # t => running'[u] = running[u]
    BY <1>0, <1>4 DEF record_outcome
  <2>2. \A s \in RequestIds : s # running[t].id => results'[s] = results[s]
    BY <1>0, <1>4 DEF record_outcome, abort_api_mutation, finish_api_mutation
  <2>3. \A u \in Threads : u # t /\ running[u] # NoExecution => running[u].id # running[t].id
    BY <2>1 DEF ExecutionInv
  <2> QED BY <1>a, <2>1, <2>2, <2>3 DEF ExecutionInv
<1>5. CASE Tick
  <2>1. /\ \A t \in Threads : running[t] # NoExecution => now + 1 < running[t].expires
        /\ now' = now + 1 /\ UNCHANGED <<results, running>>
    BY <1>5 DEF Tick
  <2> QED BY <2>1 DEF ExecutionInv
<1>6. CASE ApiRestart
  BY <1>6 DEF ApiRestart, ExecutionInv
<1> QED
  BY <1>1, <1>2, <1>3, <1>4, <1>5, <1>6 DEF ApiNext, apiVars, ServiceStep

\* If the clock does not pass the expiry of a request that is being executed,
\* no two threads execute one request id, and none executes an id whose outcome
\* is stored.
THEOREM ExecutedOnce == ASSUME ~ClockJumps PROVE ApiSpec => []OneExecution
<1> DEFINE IInv == TypeOK /\ ApiTypeOK /\ ExecutionInv
<1>1. ApiInit => IInv
  <2>1. ApiInit => ExecutionInv
    BY DEF ApiInit, ExecutionInv
  <2> QED BY <2>1, TypeInit, ApiTypeInit DEF ApiInit
<1>2. IInv /\ [ApiNext]_apiVars => IInv'
  BY StepOfService, TypeStep, ApiTypeStep, ExecutionStep
<1>3. IInv => OneExecution
  BY DEF ExecutionInv, OneExecution, Executes, Reserved
<1> QED BY <1>1, <1>2, <1>3, PTL DEF ApiSpec

-----------------------------------------------------------------------------
(* Recorded removals *)

\* A world that is gone: its id was issued and its row is deleted.
Gone(w) == w \in issued /\ ~Stored(worlds, w)

\* A removal is of a world that was issued, and returns success or not_found
\* only when the world is gone.
DeleteInv ==
    \A t \in Threads : call[t].op = "delete" =>
        /\ W(t) \in issued
        /\ pc[t] = "return" /\ call[t].out \in {"ok", "not_found"} => Gone(W(t))

\* An execution is of the operation its thread handles, and the worlds of the
\* removals that succeeded are gone.
RemovedInv ==
    /\ \A t \in Threads : running[t] # NoExecution /\ running[t].out = Pending =>
          /\ call[t].op = running[t].hash.op
          /\ call[t].op = "delete" => W(t) = running[t].hash.w
    /\ \A t \in Threads :
          running[t] # NoExecution /\ running[t].out = "ok" /\ running[t].hash.op = "delete" =>
              Gone(running[t].hash.w)
    /\ \A r \in RequestIds :
          results[r] # Absent /\ results[r].response = "ok" /\ results[r].hash.op = "delete" =>
              Gone(results[r].hash.w)

\* What is gone does not come back.
LEMMA GoneStays ==
    ASSUME TypeOK, IdsInv, IdentityInv, [Next]_vars, NEW w \in WorldIds, Gone(w)
    PROVE  Gone(w)'
<1>1. CASE RegistryUnchanged
  BY <1>1 DEF RegistryUnchanged, Gone, Stored
<1>2. CASE \E t \in Threads : Moves(t)
  BY <1>2, KeepsIdentities DEF IdentityKept, Gone
<1>3. CASE Restart
  <2>1. worlds \in [WorldIds -> Row]
    BY DEF TypeOK
  <2> QED BY <1>3, <2>1, Interrupts DEF Restart, Gone, Stored
<1> QED BY <1>1, <1>2, <1>3
    DEF Next, Moves, vars, GuestPowersOff, GuestRekeys, RegistryUnchanged

\* A thread that removes a world goes on, or returns what it found.
LEMMA RemovalReturns ==
    ASSUME TypeOK, IdsInv, NEW t \in Threads, Handle(t), call[t].op = "delete", pc[t] # "return"
    PROVE  /\ call'[t].op = "delete" /\ call'[t].w = W(t) /\ pc'[t] # "idle"
           /\ pc'[t] = "return" /\ call'[t].out \in {"ok", "not_found"} => ~Stored(worlds', W(t))
<1> USE Locals
<1>0. call \in [Threads -> Call] /\ pc \in [Threads -> Steps] /\ worlds \in [WorldIds -> Row]
  BY DEF TypeOK
<1>1. pc[t] # "idle" /\ Moves(t)
  BY DEF Moves, Handle, CreateStep, lock_create, create_lookup, create_insert,
     create_overlay, create_directory, create_define, create_boot, create_wait, create_setup,
     create_running, create_failed, read, get_read, try_lock_world, ReconcileSteps, inspect,
     reconcile_reserve, reconcile_running, reconcile_stopped, reconcile_error, ListStep,
     list_read, list_next, list_unlock, list_reread, list_usage, PowerStep, start_check,
     start_reserve, start_boot, start_ready, start_probe, start_apply, stop_check, stop_shutdown,
     stop_record, LockedStep, delete_mark, remove_domain, remove_files, delete_failed, delete_row,
     rename_write, exec_check, exec_run, final_read, Respond, At
<1>2. pc[t] \in {"lock", "delete_mark", "remove_domain", "remove_files", "delete_failed", "delete_row"}
  <2>1. pc[t] \in StepsOf["delete"]
    BY <1>1
  <2> QED BY <2>1 DEF StepsOf
<1>3. call'[t].op = "delete"
  BY <1>1, <1>2, LearnsOf
<1>f. ASSUME NEW out, Finish(t, out)
      PROVE  pc'[t] = "return" /\ call'[t].w = W(t) /\ call'[t].out = out
  <2>1. call'[t] = [NoCall EXCEPT !.op = call[t].op, !.w = call[t].w, !.out = out] /\ pc'[t] = "return"
    BY <1>0, <1>f DEF Finish, Goto
  <2> QED BY <2>1, NoCallTyped DEF Call, W
<1>4. CASE pc[t] = "lock"
  <2>1. try_lock_world(t)
    BY <1>1, <1>4, Dispatch
  <2>2. CASE Finish(t, "conflict")
    BY <1>3, <1>f, <2>2
  <2>3. CASE Goto(t, StepUnderLock(call[t])) /\ call' = [call EXCEPT ![t].attempts = 0]
    <3>1. pc'[t] = "delete_mark" /\ call'[t].w = W(t)
      BY <1>0, <2>3 DEF Goto, StepUnderLock, Call, W
    <3> QED BY <1>3, <3>1
  <2> QED BY <2>1, <2>2, <2>3 DEF try_lock_world
<1>5. CASE pc[t] = "delete_mark"
  <2>1. delete_mark(t)
    BY <1>1, <1>5, Dispatch
  <2>2. CASE Finish(t, "not_found") /\ ~Stored(worlds, W(t)) /\ UNCHANGED worlds
    BY <1>3, <1>f, <2>2
  <2>3. CASE Goto(t, "remove_domain") /\ UNCHANGED call
    BY <1>0, <1>3, <2>3 DEF Goto, W
  <2> QED BY <2>1, <2>2, <2>3 DEF delete_mark
<1>6. CASE pc[t] \in {"remove_domain", "remove_files"}
  <2>1. remove_domain(t) \/ remove_files(t)
    BY <1>1, <1>6, Dispatch
  <2>2. UNCHANGED call /\ pc'[t] \in {"remove_files", "delete_row", "delete_failed"}
    BY <1>0, <2>1 DEF remove_domain, remove_files, AfterCleanup, Goto
  <2> QED BY <1>3, <2>2 DEF W
<1>7. CASE pc[t] = "delete_failed"
  <2>1. Finish(t, "backend")
    BY <1>1, <1>7, Dispatch DEF delete_failed
  <2> QED BY <1>3, <1>f, <2>1
<1>8. CASE pc[t] = "delete_row"
  <2>1. Finish(t, "ok") /\ worlds' = delete(worlds, W(t))
    BY <1>1, <1>8, Dispatch DEF delete_row
  <2>2. ~Stored(worlds', W(t))
    BY <1>0, <2>1, Deletes, NoRowFields DEF Stored
  <2> QED BY <1>3, <1>f, <2>1, <2>2
<1> QED BY <1>2, <1>4, <1>5, <1>6, <1>7, <1>8

LEMMA DeleteStep == TypeOK /\ IdsInv /\ IdentityInv /\ DeleteInv /\ [Next]_vars => DeleteInv'
<1> SUFFICES ASSUME TypeOK, IdsInv, IdentityInv, DeleteInv, [Next]_vars,
                    NEW u \in Threads, call'[u].op = "delete"
             PROVE  /\ call'[u].w \in issued'
                    /\ pc'[u] = "return" /\ call'[u].out \in {"ok", "not_found"} => ~Stored(worlds', call'[u].w)
  BY DEF DeleteInv, W, Gone
<1> USE Locals
<1>0. issued \subseteq WorldIds
  BY DEF TypeOK
<1>1. CASE pc'[u] = pc[u] /\ call'[u] = call[u]
  <2>1. W(u) \in issued /\ (pc[u] = "return" /\ call[u].out \in {"ok", "not_found"} => Gone(W(u)))
    BY <1>1 DEF DeleteInv
  <2>2. issued \subseteq issued'
    BY KeepsIdentities DEF IdentityKept, Next, Moves, vars, GuestPowersOff, GuestRekeys,
       RegistryUnchanged, Restart
  <2>3. \A w \in WorldIds : Gone(w) => Gone(w)'
    BY GoneStays
  <2> QED BY <1>0, <1>1, <2>1, <2>2, <2>3 DEF W, Gone
<1>2. ASSUME NEW t \in Threads, Moves(t), u = t
      PROVE  /\ call'[u].w \in issued'
             /\ pc'[u] = "return" /\ call'[u].out \in {"ok", "not_found"} => ~Stored(worlds', call'[u].w)
  <2>0. issued \subseteq issued'
    BY <1>2, KeepsIdentities DEF IdentityKept
  <2>1. CASE pc[t] = "return"
    <3>1. call'[t] = NoCall
      BY <1>2, <2>1, Dispatch DEF Respond, TypeOK
    <3> QED BY <1>2, <3>1 DEF NoCall
  <2>2. CASE pc[t] = "idle"
    <3>1. Receive(t)
      BY <1>2, <2>2, Dispatch
    <3>2. pc'[t] # "return"
      BY <3>1 DEF Receive, Accept, Goto, TypeOK
    <3>3. PICK w \in issued : Accept(t, "delete", w, AnyRequest, "lock")
      <4>1. ASSUME NEW op, NEW w, NEW q, NEW step, Accept(t, op, w, q, step) PROVE call'[t].op = op
        <5>1. call'[t] = [NoCall EXCEPT !.op = op, !.w = w, !.request = q]
          BY <4>1 DEF Accept, TypeOK
        <5> QED BY <5>1 DEF NoCall
      <4> QED BY <1>2, <3>1, <4>1 DEF Receive
    <3>4. call'[t] = [NoCall EXCEPT !.op = "delete", !.w = w, !.request = AnyRequest]
      BY <3>3 DEF Accept, TypeOK
    <3>5. call'[t].w = w
      BY <3>4 DEF NoCall
    <3> QED BY <1>2, <2>0, <3>2, <3>5
  <2>3. CASE pc[t] \notin {"idle", "return"}
    <3>1. Handle(t) /\ call[t].op = "delete"
      BY <1>2, <2>3, LearnsOf DEF Moves, Receive, Accept, At
    <3>2. /\ call'[t].w = W(t)
          /\ pc'[t] = "return" /\ call'[t].out \in {"ok", "not_found"} => ~Stored(worlds', W(t))
      BY <2>3, <3>1, RemovalReturns
    <3>3. W(t) \in issued
      BY <3>1 DEF DeleteInv
    <3> QED BY <1>2, <2>0, <3>2, <3>3 DEF Gone
  <2> QED BY <2>1, <2>2, <2>3
<1>3. CASE Restart
  <2>1. call'[u] = NoCall
    BY <1>3 DEF Restart
  <2> QED BY <2>1 DEF NoCall
<1> QED BY <1>1, <1>2, <1>3, OthersKept DEF Next, Moves, vars, GuestPowersOff, GuestRekeys

LEMMA HashTyped == ASSUME NEW c \in Content PROVE c.w \in WorldIds /\ c.op \in {"create", "delete"}
BY ConstantsTyped DEF Content

\* What one execution, and one row, says of the worlds.
ExecutionTrue(t) ==
    running[t] # NoExecution =>
        /\ running[t].out = Pending =>
              /\ call[t].op = running[t].hash.op
              /\ call[t].op = "delete" => W(t) = running[t].hash.w
        /\ running[t].out = "ok" /\ running[t].hash.op = "delete" => Gone(running[t].hash.w)

RowTrue(r) ==
    results[r] # Absent /\ results[r].response = "ok" /\ results[r].hash.op = "delete" =>
        Gone(results[r].hash.w)

LEMMA RemovedSplit ==
    /\ RemovedInv <=> (\A t \in Threads : ExecutionTrue(t)) /\ (\A r \in RequestIds : RowTrue(r))
    /\ RemovedInv' <=> (\A t \in Threads : ExecutionTrue(t)') /\ (\A r \in RequestIds : RowTrue(r)')
BY DEF RemovedInv, ExecutionTrue, RowTrue

LEMMA RemovedStep ==
    TypeOK /\ IdsInv /\ IdentityInv /\ DeleteInv /\ ApiTypeOK /\ RemovedInv /\ [ApiNext]_apiVars
        => RemovedInv'
<1> SUFFICES ASSUME TypeOK, IdsInv, IdentityInv, DeleteInv, ApiTypeOK, RemovedInv, [ApiNext]_apiVars
             PROVE  (\A t \in Threads : ExecutionTrue(t)') /\ (\A r \in RequestIds : RowTrue(r)')
  BY RemovedSplit
<1> USE Locals, ContentTyped
<1>0. /\ results \in [RequestIds -> ResultRow \cup {Absent}]
      /\ running \in [Threads -> Execution \cup {NoExecution}]
      /\ call \in [Threads -> Call]
  BY DEF ApiTypeOK, TypeOK
<1>a. /\ \A t \in Threads : ExecutionTrue(t)
      /\ \A r \in RequestIds : RowTrue(r)
  BY RemovedSplit
<1>b. \A w \in WorldIds : Gone(w) => Gone(w)'
  BY StepOfService, GoneStays
<1>c. /\ \A t \in Threads : running[t] # NoExecution => running[t].hash.w \in WorldIds
      /\ \A r \in RequestIds : results[r] # Absent => results[r].hash.w \in WorldIds
  <2>1. /\ \A t \in Threads : running[t] # NoExecution => running[t].hash \in Content
        /\ \A r \in RequestIds : results[r] # Absent => results[r].hash \in Content
    BY <1>0 DEF Execution, ResultRow
  <2> QED BY <2>1, HashTyped
<1>r. \A r \in RequestIds :
         results'[r] = results[r] \/ results'[r] = Absent \/ results'[r].response = Pending => RowTrue(r)'
  BY <1>a, <1>b, <1>c DEF RowTrue, Pending
<1>e. \A t \in Threads :
         \/ running'[t] = NoExecution
         \/ running'[t] = running[t] /\ (call'[t] = call[t] \/ running[t].out # Pending)
         => ExecutionTrue(t)'
  BY <1>a, <1>b, <1>c DEF ExecutionTrue, W
<1>1. ASSUME NEW t \in Threads, execute_api_mutation(t)
      PROVE  (\A u \in Threads : ExecutionTrue(u)') /\ (\A r \in RequestIds : RowTrue(r)')
  <2>1. PICK r \in RequestIds, content \in Content :
          \/ /\ begin_api_mutation(t, r, content)
             /\ Accept(t, content.op, content.w, content.request,
                       IF content.op = "create" THEN "create_lock" ELSE "lock")
          \/ answer_from_results(r) /\ UNCHANGED vars
    BY <1>1 DEF execute_api_mutation
  <2>2. CASE answer_from_results(r) /\ UNCHANGED vars
    <3>1. \A s \in RequestIds : results'[s] = results[s] \/ results'[s] = Absent
      BY <2>2 DEF answer_from_results, Unexpired
    <3>2. UNCHANGED <<running, call>>
      BY <2>2 DEF answer_from_results, vars
    <3> QED BY <1>r, <1>e, <3>1, <3>2
  <2>3. CASE /\ begin_api_mutation(t, r, content)
             /\ Accept(t, content.op, content.w, content.request,
                       IF content.op = "create" THEN "create_lock" ELSE "lock")
    <3>1. \A s \in RequestIds :
             results'[s] = results[s] \/ results'[s] = Absent \/ results'[s].response = Pending
      BY <2>3 DEF begin_api_mutation, Unexpired
    <3>2. /\ running'[t] = [id |-> r, hash |-> content, expires |-> now + RETENTION, out |-> Pending]
          /\ \A u \in Threads \ {t} : running'[u] = running[u] /\ call'[u] = call[u]
      BY <1>0, <2>3 DEF begin_api_mutation, Accept
    <3>3. call'[t] = [NoCall EXCEPT !.op = content.op, !.w = content.w, !.request = content.request]
      BY <1>0, <2>3 DEF Accept
    <3>4. call'[t].op = content.op /\ call'[t].w = content.w
      BY <3>3 DEF NoCall
    <3>5. ExecutionTrue(t)'
      BY <3>2, <3>4 DEF ExecutionTrue, W, Pending
    <3> QED BY <1>r, <1>e, <3>1, <3>2, <3>5
  <2> QED BY <2>1, <2>2, <2>3
<1>2. ASSUME NEW t \in Threads, handler_returns(t)
      PROVE  (\A u \in Threads : ExecutionTrue(u)') /\ (\A r \in RequestIds : RowTrue(r)')
  <2>1. /\ running[t] # NoExecution /\ running[t].out = Pending /\ UNCHANGED results
        /\ pc[t] = "return"
        /\ \A u \in Threads \ {t} : running'[u] = running[u] /\ call'[u] = call[u]
    BY <1>0, <1>2 DEF handler_returns, Respond, At
  <2>2. /\ running'[t].hash = running[t].hash
        /\ running'[t].out = OutcomeOf(call[t].op, call[t].out)
    BY <1>0, <1>2, <2>1 DEF handler_returns, Execution
  <2>3. OutcomeOf(call[t].op, call[t].out) # Pending
    BY DEF OutcomeOf, Outcome, Pending
  <2>4. ASSUME running'[t].out = "ok", running[t].hash.op = "delete" PROVE Gone(running[t].hash.w)
    <3>1. call[t].op = "delete" /\ W(t) = running[t].hash.w
      BY <1>a, <2>1, <2>4 DEF ExecutionTrue
    <3>2. call[t].out \in {"ok", "not_found"}
      BY <2>2, <2>4 DEF OutcomeOf
    <3> QED BY <2>1, <3>1, <3>2 DEF DeleteInv
  <2>5. ExecutionTrue(t)'
    BY <1>b, <1>c, <2>1, <2>2, <2>3, <2>4 DEF ExecutionTrue
  <2> QED BY <1>r, <1>e, <2>1, <2>5
<1>3. ASSUME NEW t \in Threads, record_outcome(t)
      PROVE  (\A u \in Threads : ExecutionTrue(u)') /\ (\A r \in RequestIds : RowTrue(r)')
  <2>1. /\ running[t] # NoExecution /\ running'[t] = NoExecution /\ UNCHANGED call
        /\ \A u \in Threads \ {t} : running'[u] = running[u]
    BY <1>0, <1>3 DEF record_outcome, vars
  <2>2. \A u \in Threads : ExecutionTrue(u)'
    BY <1>e, <2>1
  <2>3. CASE abort_api_mutation(t)
    BY <1>0, <1>r, <2>2, <2>3 DEF abort_api_mutation
  <2>4. CASE finish_api_mutation(t)
    <3>0. PICK id \in RequestIds : id = running[t].id
      BY <1>0, <2>1 DEF Execution
    <3>1. results[id] \in ResultRow /\ results[id].hash = running[t].hash
      BY <1>0, <2>4, <3>0 DEF finish_api_mutation, Reservation
    <3>2. /\ results'[id].hash = running[t].hash /\ results'[id].response = running[t].out
          /\ \A r \in RequestIds \ {id} : results'[r] = results[r]
      BY <1>0, <2>4, <3>0, <3>1 DEF finish_api_mutation, ResultRow
    <3>3. RowTrue(id)'
      <4>1. running[t].out = "ok" /\ running[t].hash.op = "delete" => Gone(running[t].hash.w)
        BY <1>a, <2>1 DEF ExecutionTrue
      <4> QED BY <1>b, <1>c, <2>1, <3>2, <4>1 DEF RowTrue
    <3> QED BY <1>r, <2>2, <3>2, <3>3
  <2> QED BY <1>3, <2>3, <2>4 DEF record_outcome
<1>4. ASSUME NEW t \in Threads, ServiceStep(t)
      PROVE  (\A u \in Threads : ExecutionTrue(u)') /\ (\A r \in RequestIds : RowTrue(r)')
  <2>1. UNCHANGED <<results, running>> /\ Moves(t)
        /\ (running[t] # NoExecution => Handle(t) /\ pc[t] # "return")
    BY <1>4 DEF ServiceStep, api, Moves, At
  <2>2. \A u \in Threads \ {t} : call'[u] = call[u]
    BY <2>1, OthersKept
  <2>3. CASE running[t] = NoExecution \/ running[t].out # Pending
    BY <1>r, <1>e, <2>1, <2>2, <2>3
  <2>4. CASE running[t] # NoExecution /\ running[t].out = Pending
    <3>0. Handle(t) /\ pc[t] \notin {"idle", "return"}
      BY <2>1, <2>4 DEF Handle, CreateStep, lock_create, create_lookup, create_insert,
         create_overlay, create_directory, create_define, create_boot, create_wait, create_setup,
         create_running, create_failed, read, get_read, try_lock_world, ReconcileSteps, inspect,
         reconcile_reserve, reconcile_running, reconcile_stopped, reconcile_error, ListStep,
         list_read, list_next, list_unlock, list_reread, list_usage, PowerStep, start_check,
         start_reserve, start_boot, start_ready, start_probe, start_apply, stop_check, stop_shutdown,
         stop_record, LockedStep, delete_mark, remove_domain, remove_files, delete_failed, delete_row,
         rename_write, exec_check, exec_run, final_read, Respond, At
    <3>1. call'[t].op = call[t].op
      BY <2>1, <3>0, LearnsOf
    <3>2. call[t].op = "delete" => call'[t].w = W(t)
      BY <3>0, RemovalReturns
    <3>3. ExecutionTrue(t)'
      BY <1>a, <2>1, <2>4, <3>1, <3>2 DEF ExecutionTrue, W, Pending
    <3> QED BY <1>r, <1>e, <2>1, <2>2, <3>3
  <2> QED BY <2>3, <2>4
<1>5. CASE UNCHANGED <<results, running, call>>
  BY <1>r, <1>e, <1>5
<1>6. CASE ApiRestart
  <2>1. /\ \A t \in Threads : running'[t] = NoExecution
        /\ \A r \in RequestIds : results'[r] = results[r] \/ results'[r] = Absent
    BY <1>6 DEF ApiRestart, clear_incomplete_api_mutations
  <2> QED BY <1>r, <1>e, <2>1
<1> QED
  BY <1>1, <1>2, <1>3, <1>4, <1>5, <1>6
  DEF ApiNext, apiVars, vars, api, Tick, GuestPowersOff, GuestRekeys

\* Whatever handlers, retries, crashes and jumps of the clock race with it: the
\* world of a removal that the table records as done is not in the registry, so
\* what a retry is told is still true.
THEOREM RemovalsHold == ApiSpec => []RemovalHolds
<1> DEFINE IInv == TypeOK /\ IdsInv /\ IdentityInv /\ DeleteInv /\ ApiTypeOK /\ RemovedInv
<1>1. ApiInit => IInv
  <2>1. ApiInit => DeleteInv
    BY DEF ApiInit, Init, DeleteInv, NoCall
  <2>2. ApiInit => RemovedInv
    BY DEF ApiInit, RemovedInv
  <2> QED BY <2>1, <2>2, TypeInit, IdsInit, IdentityInit, ApiTypeInit DEF ApiInit
<1>2. IInv /\ [ApiNext]_apiVars => IInv'
  BY StepOfService, TypeStep, IdsStep, IdentityStep, DeleteStep, ApiTypeStep, RemovedStep
<1>3. IInv => RemovalHolds
  BY DEF RemovedInv, RemovalHolds, Gone
<1> QED BY <1>1, <1>2, <1>3, PTL DEF ApiSpec

=============================================================================
