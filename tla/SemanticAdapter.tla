-------------------------- MODULE SemanticAdapter --------------------------
(***************************************************************************)
(* The adapter between the simulator and the semantic core                 *)
(* (simulator/semantic_adapter.py): events of requests, attempts, timeouts *)
(* and observations are delivered to handlers, which call the core and     *)
(* keep what it rejects away from it.                                      *)
(*                                                                         *)
(* The kernel (DiscreteEvents) and the faults (FaultInjection) may delay,  *)
(* drop, copy and reorder events; here that is the order of deliveries: an *)
(* event that has been scheduled is delivered at any later time, any       *)
(* number of times or never.  A handler runs to its end before the next    *)
(* delivery; since the code runs the oracle after each call of the core,   *)
(* each call is a step of its own.  What the payload validation rejects    *)
(* (missing or mistyped fields) is left out, and so are the records.       *)
(***************************************************************************)
EXTENDS AttemptFencing, Sequences

CONSTANTS
  Script,   \* the events callers schedule
  MaxTime   \* bound: the last time of a delivery

ObservationKinds == {"OBSERVATION_CREATED", "OBSERVATION_DUPLICATED"}
SuccessKinds == {"ATTEMPT_COMPLETED", "LATE_RESULT"}

(* The payloads of the events.                                             *)
AdapterEvents ==
  [kind : {"REQUEST_CREATED"}, request : RequestIds, continuation : ContinuationIds]
    \cup [kind : {"ATTEMPT_STARTED"}, request : RequestIds, attempt : AttemptIds]
    \cup {e \in [kind : {"ATTEMPT_TIMEOUT", "RETRY_STARTED"}, request : RequestIds,
                 attempt : AttemptIds, retry : AttemptIds] : e.attempt # e.retry}
    \cup [kind : SuccessKinds \cup {"ATTEMPT_FAILED"}, attempt : AttemptIds]
    \cup [kind : ObservationKinds, request : RequestIds, attempt : AttemptIds,
          evidence : EvidenceIds, output : OutputIds, observed : 0..MaxTime]

(* _ensure_terminal_evidence: an exact observation of the attempt.         *)
TerminalEvidence(e) ==
  [authority |-> EXACT_OBSERVATION, status |-> "VALID", observed |-> e.observed,
   until |-> NULL, scope |-> {<<"attempt", e.attempt>>}, key |-> NULL, value |-> NULL,
   support |-> {}, rule |-> FALSE]

(* _ensure_terminal_output.                                                *)
TerminalOutputOf(e) ==
  [attempt |-> e.attempt, terminal |-> TRUE, evidence |-> {e.evidence}]

ASSUME AdapterAssumption ==
  /\ MaxTime \in Nat /\ 0..MaxTime \subseteq Times
  /\ Script \subseteq AdapterEvents
  /\ \A e \in Script : e.kind \in ObservationKinds => TerminalEvidence(e) \in EvidenceRecords

VARIABLES
  now,       \* simulator.now
  retries,   \* the RETRY_STARTED events the timeouts have scheduled
  reserved,  \* _scheduled_retry_attempts
  success,   \* _attempt_success_times
  applied,   \* the events a delivery of which has changed the core (records)
  todo       \* the calls of the core the running handler has still to make

coreVars == <<requests, attempts, outputs, evidence>>
adapterVars == <<coreVars, now, retries, reserved, success, applied, todo>>

---------------------------------------------------------------------------
(* The handlers: the calls they make, or none if the event is ignored or   *)
(* rejected.  They run when e is delivered at time t.                      *)
Calls(e, operations) ==
  [i \in DOMAIN operations |->
     [operation |-> operations[i], event |-> e, again |-> e \in applied]]

(* Mutant: the attempt that is to be superseded is not compared.           *)
UnfinishedRequest(e) ==
  e.request \in DOMAIN requests /\ requests[e.request].status \notin TerminalRequest

(* The attempt a timeout or a retry names is still the current one of a    *)
(* request that has not ended.                                             *)
StillCurrent(e) ==
  /\ e.request \in DOMAIN requests
  /\ requests[e.request].status \notin TerminalRequest
  /\ requests[e.request].current = e.attempt

(* Mutant: the time of the observation is not compared.                    *)
ObservesSucceeded(e, t) ==
  /\ e.observed <= t
  /\ e.attempt \in DOMAIN attempts
  /\ attempts[e.attempt].request = e.request
  /\ attempts[e.attempt].execution = "SUCCEEDED"

(* The observation is of the right attempt, which has succeeded, and not   *)
(* from before its success was delivered.                                  *)
ObservesSuccess(e, t) ==
  /\ e.observed <= t
  /\ e.attempt \in DOMAIN attempts
  /\ attempts[e.attempt].request = e.request
  /\ attempts[e.attempt].execution = "SUCCEEDED"
  /\ e.attempt \in DOMAIN success => e.observed >= success[e.attempt]

OperationsOf(e, t) ==
  CASE e.kind = "REQUEST_CREATED" -> <<"create_request">>
    [] e.kind = "ATTEMPT_STARTED" -> <<"start_attempt", "running">>
    [] e.kind = "RETRY_STARTED" -> IF StillCurrent(e) THEN <<"start_attempt", "running">> ELSE << >>
    [] e.kind \in SuccessKinds -> <<"succeed">>
    [] e.kind = "ATTEMPT_FAILED" -> <<"fail">>
    [] e.kind \in ObservationKinds ->
         IF ObservesSuccess(e, t) THEN <<"record_evidence", "create_output", "finalize_request">>
                                  ELSE << >>

Deliver(e) ==
  /\ todo = << >>
  /\ e.kind # "ATTEMPT_TIMEOUT"
  /\ \E t \in now..MaxTime : now' = t /\ todo' = Calls(e, OperationsOf(e, t))
  /\ UNCHANGED <<coreVars, retries, reserved, success, applied>>

(* A timeout makes no call; it schedules its retry, once per retry         *)
(* attempt.  The event_id names the timeout's, so schedule does not raise. *)
RetryOf(e) ==
  [kind |-> "RETRY_STARTED", request |-> e.request, attempt |-> e.attempt, retry |-> e.retry]

DeliverTimeout(e) ==
  /\ todo = << >>
  /\ e.kind = "ATTEMPT_TIMEOUT"
  /\ now' \in now..MaxTime
  /\ IF StillCurrent(e) /\ e.retry \notin reserved
       THEN reserved' = reserved \cup {e.retry} /\ retries' = retries \cup {RetryOf(e)}
       ELSE UNCHANGED <<reserved, retries>>
  /\ UNCHANGED <<coreVars, success, applied, todo>>

---------------------------------------------------------------------------
Attempted(e) == IF e.kind = "RETRY_STARTED" THEN e.retry ELSE e.attempt

(* One call of the core, as it changes the core.                           *)
CoreCall(operation, e) ==
  CASE operation = "create_request" -> CreateRequest(e.request, e.continuation, {})
    [] operation = "start_attempt" -> StartAttempt(Attempted(e), e.request, {})
    [] operation = "running" -> SetAttemptExecution(Attempted(e), "RUNNING")
    [] operation = "succeed" -> CompleteAttempt(e.attempt, TRUE)
    [] operation = "fail" -> CompleteAttempt(e.attempt, FALSE)
    [] operation = "record_evidence" ->
         RecordEvidence(e.evidence, TerminalEvidence(e), FencingIds) /\ UNCHANGED fencingVars
    [] operation = "create_output" ->
         CreateOutput(e.output, e.attempt, TRUE, {e.evidence}, {})
    [] operation = "finalize_request" -> FinalizeRequest(e.request, e.output, now)

(* Whether the core accepts the call, now.                                 *)
CoreAccepts(operation, e) ==
  CASE operation = "create_request" -> Unique(e.request, {})
    [] operation = "start_attempt" -> MayStart(Attempted(e), e.request, {})
    [] operation = "running" -> MayReport(Attempted(e), "RUNNING")
    [] operation = "succeed" -> MayReport(e.attempt, "SUCCEEDED")
    [] operation = "fail" -> MayReport(e.attempt, "FAILED")
    [] operation = "record_evidence" ->
         MayRecord(e.evidence, TerminalEvidence(e), FencingIds)
    [] operation = "create_output" -> MayCreateOutput(e.output, e.attempt, {e.evidence}, {})
    [] operation = "finalize_request" -> MayFinalize(e.request, e.output, now)

(* The Evidence or the Output of the observation exists already, as what   *)
(* it is expected to be, or as something else.                             *)
Exists(operation, e) ==
  \/ operation = "record_evidence" /\ e.evidence \in DOMAIN evidence
  \/ operation = "create_output" /\ e.output \in DOMAIN outputs
Expected(operation, e) ==
  IF operation = "record_evidence" THEN evidence[e.evidence] = TerminalEvidence(e)
                                   ELSE outputs[e.output] = TerminalOutputOf(e)

(* The first delivered success of an attempt is timed.                     *)
Succeeded(e) ==
  IF attempts[e.attempt].execution = "SUCCEEDED" THEN success ELSE Put(success, e.attempt, now)

CallApplied(call) ==
  /\ ~Exists(call.operation, call.event)
  /\ CoreCall(call.operation, call.event)
  /\ success' = IF call.operation = "succeed" THEN Succeeded(call.event) ELSE success
  /\ applied' = IF coreVars' = coreVars THEN applied ELSE applied \cup {call.event}
  /\ todo' = Tail(todo)
  /\ UNCHANGED <<now, retries, reserved>>

(* The core raises and is left alone.  An attempt that could not be        *)
(* started is not set RUNNING; an observation goes on.                     *)
CallRejected(call) ==
  /\ ~Exists(call.operation, call.event)
  /\ ~CoreAccepts(call.operation, call.event)
  /\ todo' = IF call.operation = "start_attempt" THEN << >> ELSE Tail(todo)
  /\ UNCHANGED <<coreVars, now, retries, reserved, success, applied>>

(* A second value under the same identifier ends the observation.          *)
CallSkipped(call) ==
  /\ Exists(call.operation, call.event)
  /\ todo' = IF Expected(call.operation, call.event) THEN Tail(todo) ELSE << >>
  /\ UNCHANGED <<coreVars, now, retries, reserved, success, applied>>

Call ==
  /\ todo # << >>
  /\ LET call == Head(todo) IN CallApplied(call) \/ CallRejected(call) \/ CallSkipped(call)

---------------------------------------------------------------------------
AdapterInit ==
  /\ Init
  /\ now = 0
  /\ retries = {} /\ reserved = {}
  /\ success = << >>
  /\ applied = {}
  /\ todo = << >>

AdapterNext ==
  \/ \E e \in Script \cup retries : Deliver(e) \/ DeliverTimeout(e)
  \/ Call

AdapterSpec == AdapterInit /\ [][AdapterNext]_adapterVars

---------------------------------------------------------------------------
(* Type correctness, and what the adapter keeps beside the core agrees     *)
(* with it: exactly the attempts that have succeeded have a success time,  *)
(* in the past, and exactly the retries that were scheduled are reserved.  *)
AdapterTypeOK ==
  /\ TypeOK
  /\ now \in 0..MaxTime
  /\ DOMAIN success = {a \in DOMAIN attempts : attempts[a].execution = "SUCCEEDED"}
  /\ \A a \in DOMAIN success : success[a] \in 0..now
  /\ reserved = {e.retry : e \in retries}
  /\ applied \subseteq AdapterEvents

(* A request is completed on nothing that was observed before the success  *)
(* of its attempt had been delivered: neither late, copied and reordered   *)
(* observations nor ones of another attempt with the same identifiers get  *)
(* a guess about the future committed.                                     *)
CommitsObserveSuccess ==
  AdapterTypeOK /\ \A r \in DOMAIN requests :
    requests[r].status = "COMPLETED" =>
      LET a == requests[r].committed IN
      /\ a \in DOMAIN success
      /\ \A i \in outputs[requests[r].output].evidence :
           success[a] <= evidence[i].observed /\ evidence[i].observed <= now

(* A retry takes the authority from the attempt it was scheduled for and   *)
(* from no other, although other timeouts of the same attempt may have     *)
(* scheduled retries, and other attempts may have been started, before it  *)
(* is delivered.                                                           *)
RetriesFenceTheirAttempt ==
  [][todo # << >> /\ Head(todo).event.kind = "RETRY_STARTED" =>
       \A a \in DOMAIN attempts :
         attempts[a].authority # "SUPERSEDED" /\ attempts'[a].authority = "SUPERSEDED"
           => a = Head(todo).event.attempt]_adapterVars

(* Deliveries are idempotent: once a delivery of an event has changed the  *)
(* core, no further one does, whatever has been delivered in between.      *)
RepeatsChangeNothing ==
  [][todo # << >> /\ Head(todo).again => UNCHANGED coreVars]_adapterVars
===========================================================================
