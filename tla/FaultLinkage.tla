---------------------------- MODULE FaultLinkage ----------------------------
(***************************************************************************)
(* Faults that cross the layers (simulator/fault_linkage.py): timeouts,    *)
(* late results and stale observations of attempts are injected as events  *)
(* of the semantic adapter, other faults delay, drop and copy them, and    *)
(* the linker says of every fault what became of it, from the events it    *)
(* produced and the actions the adapter took for them.                     *)
(*                                                                         *)
(* Every fault produces at most one event, known by the fault's number.    *)
(* Invariant violations of the core are InvariantOracle's; the faults of   *)
(* workers and replicas, which the adapter never sees, FaultInjection's.   *)
(***************************************************************************)
EXTENDS SemanticAdapter

CONSTANTS
  AttemptFaults,  \* the events the attempt faults may be injected for
  DeliveryFaults, \* the classes of the faults that hit deliveries
  MaxFaults       \* bound: the faults that are injected

ASSUME LinkageAssumption ==
  /\ AttemptFaults \subseteq {e \in AdapterEvents :
       e.kind \in {"ATTEMPT_TIMEOUT", "LATE_RESULT", "OBSERVATION_CREATED"}}
  /\ \A e \in AttemptFaults :
       e.kind = "OBSERVATION_CREATED" => TerminalEvidence(e) \in EvidenceRecords
  /\ DeliveryFaults \subseteq
       {"DELIVERY_DELAY", "DELIVERY_DROP", "DELIVERY_DUPLICATE", "DELIVERY_REORDER"}
  /\ MaxFaults \in Nat

VARIABLES
  faults,   \* the records of the injector, with the outcomes of the adapter's records
  running   \* the fault whose event is being handled, or 0

linkVars == <<adapterVars, faults, running>>

(* A fault that has produced the event e, or nothing ("none").  carries is *)
(* the class of the attempt fault the event stems from.                    *)
Fault(class, e, produced, carries) ==
  [class |-> class, event |-> e, produced |-> produced, carries |-> carries, outcomes |-> {}]

---------------------------------------------------------------------------
(* The attempt faults.  They only schedule, whatever becomes of the event. *)
Injected(class, e) ==
  /\ todo = << >> /\ Len(faults) < MaxFaults
  /\ faults' = Append(faults, Fault(class, e, "pending", class))
  /\ UNCHANGED <<adapterVars, running>>

InjectAttemptTimeout(e) ==
  /\ e.kind = "ATTEMPT_TIMEOUT"
  /\ e.request \in DOMAIN requests
  /\ requests[e.request].current = e.attempt
  /\ Injected("ATTEMPT_TIMEOUT", e)

IsSuperseded(a) == a \in DOMAIN attempts /\ attempts[a].authority = "SUPERSEDED"

InjectLateAttemptResult(e) ==
  /\ e.kind = "LATE_RESULT"
  /\ IsSuperseded(e.attempt)
  /\ Injected("LATE_ATTEMPT_RESULT", e)

InjectStaleAttemptObservation(e) ==
  /\ e.kind = "OBSERVATION_CREATED"
  /\ IsSuperseded(e.attempt)
  /\ attempts[e.attempt].request = e.request
  /\ attempts[e.attempt].execution = "SUCCEEDED"
  /\ Injected("STALE_ATTEMPT_OBSERVATION", e)

(* A delivery fault hits the event of another fault: what it puts in its   *)
(* place is the same event, except that a copied observation says so.      *)
CopyOf(e) ==
  IF e.kind = "OBSERVATION_CREATED" THEN [e EXCEPT !.kind = "OBSERVATION_DUPLICATED"] ELSE e

Disturb(class, i) ==
  LET hit == faults[i] IN
  /\ todo = << >> /\ Len(faults) < MaxFaults
  /\ hit.produced = "pending"
  /\ faults' =
       IF class = "DELIVERY_DUPLICATE"
         THEN Append(faults, Fault(class, CopyOf(hit.event), "pending", hit.carries))
         ELSE Append([faults EXCEPT ![i].produced = "cancelled"],
                     Fault(class, hit.event, IF class = "DELIVERY_DROP" THEN "none" ELSE "pending",
                           hit.carries))
  /\ UNCHANGED <<adapterVars, running>>

---------------------------------------------------------------------------
(* The adapter's records (_note and _append_record), for the event of the  *)
(* fault i: the outcomes of a handler that makes no call, and of the calls.*)
WithoutCall(e) ==
  IF e.kind \in ObservationKinds \/ e.request \notin DOMAIN requests THEN "REJECTED" ELSE "IGNORED"

(* An observation is not scheduled for a time before its own.              *)
DeliverFault(i) ==
  LET e == faults[i].event IN
  /\ faults[i].produced = "pending"
  /\ \/ /\ Deliver(e)
        /\ e.kind \in ObservationKinds => e.observed <= now'
        /\ faults' = [faults EXCEPT ![i].produced = "delivered",
                        ![i].outcomes = IF todo' = << >> THEN {WithoutCall(e)} ELSE {}]
        /\ running' = IF todo' = << >> THEN 0 ELSE i
     \/ /\ DeliverTimeout(e)
        /\ faults' = [faults EXCEPT ![i].produced = "delivered",
                        ![i].outcomes = {IF reserved' # reserved THEN "APPLIED" ELSE WithoutCall(e)}]
        /\ UNCHANGED running

Noted(outcome) ==
  /\ faults' = IF running = 0 THEN faults ELSE [faults EXCEPT ![running].outcomes = @ \cup {outcome}]
  /\ running' = IF todo' = << >> THEN 0 ELSE running

(* Finalizing with the committed output again returns the request.         *)
CommittedAlready(call) ==
  /\ call.operation = "finalize_request"
  /\ requests[call.event.request].output = call.event.output

LinkedCall ==
  /\ todo # << >>
  /\ LET call == Head(todo) IN
     \/ CallApplied(call) /\ Noted(IF coreVars' = coreVars THEN "IDEMPOTENT" ELSE "APPLIED")
     \/ CallRejected(call) /\ Noted(IF CommittedAlready(call) THEN "IDEMPOTENT" ELSE "REJECTED")
     \/ CallSkipped(call) /\ Noted(IF Expected(call.operation, call.event) THEN "IDEMPOTENT"
                                                                           ELSE "REJECTED")

---------------------------------------------------------------------------
LinkedInit == AdapterInit /\ faults = << >> /\ running = 0

LinkedNext ==
  \/ \E e \in AttemptFaults :
       InjectAttemptTimeout(e) \/ InjectLateAttemptResult(e) \/ InjectStaleAttemptObservation(e)
  \/ \E i \in DOMAIN faults : DeliverFault(i) \/ \E class \in DeliveryFaults : Disturb(class, i)
  \/ \E e \in Script \cup retries :
       (Deliver(e) \/ DeliverTimeout(e)) /\ UNCHANGED <<faults, running>>
  \/ LinkedCall

LinkedSpec == LinkedInit /\ [][LinkedNext]_linkVars

---------------------------------------------------------------------------
(* Mutant: what was applied on the way to a rejection counts.              *)
AppliedFirst(outcomes) ==
  IF "APPLIED" \in outcomes THEN "SEMANTIC_APPLIED"
  ELSE IF "REJECTED" \in outcomes THEN "SEMANTIC_REJECTED"
  ELSE IF "IGNORED" \in outcomes THEN "SEMANTIC_IGNORED"
  ELSE "SEMANTIC_IDEMPOTENT"

(* The guards of the code are tried in order; those of a CASE are not.     *)
SemanticOutcome(outcomes) ==
  IF "REJECTED" \in outcomes THEN "SEMANTIC_REJECTED"
  ELSE IF "IGNORED" \in outcomes THEN "SEMANTIC_IGNORED"
  ELSE IF "APPLIED" \in outcomes THEN "SEMANTIC_APPLIED"
  ELSE "SEMANTIC_IDEMPOTENT"

(* _classify, between two events.                                          *)
OutcomeClass(fault) ==
  IF fault.produced = "pending" THEN "PENDING"
  ELSE IF fault.class = "DELIVERY_DROP" THEN "DELIVERY_SUPPRESSED"
  ELSE IF fault.outcomes # {} THEN SemanticOutcome(fault.outcomes)
  ELSE IF fault.produced = "delivered" THEN "PHYSICAL_EFFECT"
  ELSE IF fault.class \in {"DELIVERY_DELAY", "DELIVERY_REORDER"} THEN "DELIVERY_SUPPRESSED"
  ELSE "PENDING"

(* authoritative_outcome of a request.                                     *)
AuthoritativeOutcome(r) ==
  [status |-> requests[r].status, current |-> requests[r].current,
   committed |-> requests[r].committed, output |-> requests[r].output,
   evidence |-> IF requests[r].output = NULL THEN {} ELSE outputs[requests[r].output].evidence,
   attempts |-> [a \in AttemptsOf(r) |->
                   [generation |-> attempts[a].generation, execution |-> attempts[a].execution,
                    authority |-> attempts[a].authority]]]

(* observe, for the request of the attempt the fault is about.             *)
Observe(fault) ==
  [class |-> OutcomeClass(fault),
   outcome |-> AuthoritativeOutcome(attempts[fault.event.attempt].request)]

(* What the classes of attempt faults declare safe (faults.py:75), for     *)
(* their own events and for what delivery faults made of them.  A timeout  *)
(* is followed or ignored, never rejected.  A late result is kept beside   *)
(* the authority: it counts exactly as the execution of the attempt says.  *)
(* A stale observation is rejected, even though the Evidence and the       *)
(* Output it brings may be recorded.  And neither attempt has or gets any  *)
(* authority again, whatever is delivered in between.                      *)
FaultsAreSafe ==
  todo = << >> => \A i \in DOMAIN faults :
    LET fault == faults[i]
        observed == Observe(fault)
        target == fault.event.attempt
        about == observed.outcome.attempts[target]
    IN
    /\ fault.carries # "ATTEMPT_TIMEOUT" =>
         /\ about.authority = "SUPERSEDED"
         /\ target \notin {observed.outcome.current, observed.outcome.committed}
    /\ fault.produced = "delivered" =>
         /\ fault.carries = "ATTEMPT_TIMEOUT" =>
              observed.class \in {"SEMANTIC_APPLIED", "SEMANTIC_IGNORED"}
         /\ fault.carries = "STALE_ATTEMPT_OBSERVATION" => observed.class = "SEMANTIC_REJECTED"
         /\ fault.carries = "LATE_ATTEMPT_RESULT" => observed.class \in
              IF about.execution = "SUCCEEDED" THEN {"SEMANTIC_APPLIED", "SEMANTIC_IDEMPOTENT"}
                                               ELSE {"SEMANTIC_REJECTED"}
===========================================================================
