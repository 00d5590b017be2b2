----------------------- MODULE SemanticAdapterProofs -----------------------
(***************************************************************************)
(* Proofs about SemanticAdapter and FaultLinkage: however events are       *)
(* delivered, by the callers, by retries or by faults, the adapter takes   *)
(* the semantic core through steps of its own specification only           *)
(* (AttemptFencing), commits what was observed after the success, and lets *)
(* a retry fence the attempt it was scheduled for.                         *)
(***************************************************************************)
EXTENDS FaultLinkage, AttemptFencingProofs

(* The events that may be delivered: the Evidence an observation brings is *)
(* one the core may record.                                                *)
Deliverable ==
  {e \in AdapterEvents : e.kind \in ObservationKinds => TerminalEvidence(e) \in EvidenceRecords}

(* The calls a running handler has still to make, as the event it handles  *)
(* says, and what the handler or the calls before have found.              *)
CallOf(operation, e, again) == [operation |-> operation, event |-> e, again |-> again]

Handling(e, again) ==
  \/ /\ e.kind = "REQUEST_CREATED"
     /\ todo = <<CallOf("create_request", e, again)>>
  \/ /\ e.kind \in {"ATTEMPT_STARTED", "RETRY_STARTED"}
     /\ e.kind = "RETRY_STARTED" => StillCurrent(e)
     /\ todo = <<CallOf("start_attempt", e, again), CallOf("running", e, again)>>
  \/ /\ e.kind \in {"ATTEMPT_STARTED", "RETRY_STARTED"}
     /\ todo = <<CallOf("running", e, again)>>
  \/ e.kind \in SuccessKinds /\ todo = <<CallOf("succeed", e, again)>>
  \/ e.kind = "ATTEMPT_FAILED" /\ todo = <<CallOf("fail", e, again)>>
  \/ /\ e.kind \in ObservationKinds /\ ObservesSuccess(e, now)
     /\ todo = <<CallOf("record_evidence", e, again), CallOf("create_output", e, again),
                 CallOf("finalize_request", e, again)>>
  \/ /\ e.kind \in ObservationKinds /\ ObservesSuccess(e, now)
     /\ e.evidence \in DOMAIN evidence => evidence[e.evidence] = TerminalEvidence(e)
     /\ todo = <<CallOf("create_output", e, again), CallOf("finalize_request", e, again)>>
  \/ /\ e.kind \in ObservationKinds /\ ObservesSuccess(e, now)
     /\ e.evidence \in DOMAIN evidence => evidence[e.evidence] = TerminalEvidence(e)
     /\ todo = <<CallOf("finalize_request", e, again)>>

TodoInv == todo = << >> \/ \E e \in Deliverable, again \in BOOLEAN : Handling(e, again)

(* Every output, committed or not, rests on Evidence that was observed     *)
(* after the success of its attempt.                                       *)
OutputsObserveSuccess ==
  \A o \in DOMAIN outputs :
    /\ outputs[o].attempt \in DOMAIN success
    /\ \A i \in outputs[o].evidence :
         success[outputs[o].attempt] <= evidence[i].observed /\ evidence[i].observed <= now

(* The inductive invariant of the adapter.                                 *)
AdapterInv ==
  /\ IInv
  /\ AdapterTypeOK
  /\ retries \subseteq Deliverable
  /\ TodoInv
  /\ OutputsObserveSuccess

(* The records of the faults.                                              *)
AttemptFaultClasses == {"ATTEMPT_TIMEOUT", "LATE_ATTEMPT_RESULT", "STALE_ATTEMPT_OBSERVATION"}
Outcomes == {"APPLIED", "IDEMPOTENT", "IGNORED", "REJECTED"}

FaultRecords ==
  [class : AttemptFaultClasses \cup DeliveryFaults, event : Deliverable,
   produced : {"pending", "delivered", "cancelled", "none"}, carries : AttemptFaultClasses,
   outcomes : SUBSET Outcomes]

LinkInv == AdapterInv /\ faults \in Seq(FaultRecords)

---------------------------------------------------------------------------
(* The fields of an event, by its kind.                                    *)
LEMMA EventFields ==
  ASSUME NEW e \in AdapterEvents
  PROVE  /\ e.kind \in {"REQUEST_CREATED", "ATTEMPT_STARTED", "ATTEMPT_TIMEOUT", "RETRY_STARTED",
                        "ATTEMPT_FAILED"} \cup SuccessKinds \cup ObservationKinds
         /\ e.kind = "REQUEST_CREATED" => e.request \in RequestIds /\ e.continuation \in ContinuationIds
         /\ e.kind \in {"ATTEMPT_STARTED", "ATTEMPT_TIMEOUT", "RETRY_STARTED"} =>
              e.request \in RequestIds /\ e.attempt \in AttemptIds
         /\ e.kind \in {"ATTEMPT_TIMEOUT", "RETRY_STARTED"} =>
              e.retry \in AttemptIds /\ e.retry # e.attempt
         /\ e.kind \in SuccessKinds \cup {"ATTEMPT_FAILED"} => e.attempt \in AttemptIds
         /\ e.kind \in ObservationKinds =>
              /\ e.request \in RequestIds /\ e.attempt \in AttemptIds
              /\ e.evidence \in EvidenceIds /\ e.output \in OutputIds /\ e.observed \in 0..MaxTime
BY DEF AdapterEvents, SuccessKinds, ObservationKinds

(* A timeout's retry is an event that may be delivered.                    *)
LEMMA RetryDeliverable ==
  ASSUME NEW e \in Deliverable, e.kind = "ATTEMPT_TIMEOUT"
  PROVE  RetryOf(e) \in Deliverable /\ RetryOf(e).retry = e.retry
<1>1. e \in AdapterEvents
  BY DEF Deliverable
<1>2. e.request \in RequestIds /\ e.attempt \in AttemptIds /\ e.retry \in AttemptIds /\ e.attempt # e.retry
  BY <1>1, EventFields
<1>3. RetryOf(e) \in AdapterEvents
  BY <1>2 DEF RetryOf, AdapterEvents
<1> QED
  BY <1>3 DEF Deliverable, RetryOf, ObservationKinds

(* So is the copy a delivery fault makes.                                  *)
LEMMA CopyDeliverable ==
  ASSUME NEW e \in Deliverable
  PROVE  CopyOf(e) \in Deliverable
<1>1. CASE e.kind # "OBSERVATION_CREATED"
  BY <1>1 DEF CopyOf
<1>2. CASE e.kind = "OBSERVATION_CREATED"
  <2>1. e \in [kind : ObservationKinds, request : RequestIds, attempt : AttemptIds,
               evidence : EvidenceIds, output : OutputIds, observed : 0..MaxTime]
    BY <1>2 DEF Deliverable, AdapterEvents, SuccessKinds, ObservationKinds
  <2>2. /\ CopyOf(e) \in [kind : ObservationKinds, request : RequestIds, attempt : AttemptIds,
                          evidence : EvidenceIds, output : OutputIds, observed : 0..MaxTime]
        /\ CopyOf(e).observed = e.observed /\ CopyOf(e).attempt = e.attempt
    BY <1>2, <2>1 DEF CopyOf, ObservationKinds
  <2>3. TerminalEvidence(CopyOf(e)) = TerminalEvidence(e)
    BY <2>2 DEF TerminalEvidence
  <2> QED
    BY <1>2, <2>2, <2>3 DEF Deliverable, AdapterEvents, ObservationKinds
<1> QED
  BY <1>1, <1>2

---------------------------------------------------------------------------
Operations ==
  {"create_request", "start_attempt", "running", "succeed", "fail", "record_evidence",
   "create_output", "finalize_request"}

(* The next call of a running handler: which one it is, by the kind of the *)
(* event, and the calls that remain after it.                              *)
NextCall(operation, e, again) ==
  \/ /\ operation = "create_request" /\ e.kind = "REQUEST_CREATED"
     /\ Tail(todo) = << >>
  \/ /\ operation = "start_attempt" /\ e.kind \in {"ATTEMPT_STARTED", "RETRY_STARTED"}
     /\ e.kind = "RETRY_STARTED" => StillCurrent(e)
     /\ Tail(todo) = <<CallOf("running", e, again)>>
  \/ /\ operation = "running" /\ e.kind \in {"ATTEMPT_STARTED", "RETRY_STARTED"}
     /\ Tail(todo) = << >>
  \/ operation = "succeed" /\ e.kind \in SuccessKinds /\ Tail(todo) = << >>
  \/ operation = "fail" /\ e.kind = "ATTEMPT_FAILED" /\ Tail(todo) = << >>
  \/ /\ operation = "record_evidence" /\ e.kind \in ObservationKinds /\ ObservesSuccess(e, now)
     /\ Tail(todo) = <<CallOf("create_output", e, again), CallOf("finalize_request", e, again)>>
  \/ /\ operation = "create_output" /\ e.kind \in ObservationKinds /\ ObservesSuccess(e, now)
     /\ e.evidence \in DOMAIN evidence => evidence[e.evidence] = TerminalEvidence(e)
     /\ Tail(todo) = <<CallOf("finalize_request", e, again)>>
  \/ /\ operation = "finalize_request" /\ e.kind \in ObservationKinds /\ ObservesSuccess(e, now)
     /\ e.evidence \in DOMAIN evidence => evidence[e.evidence] = TerminalEvidence(e)
     /\ Tail(todo) = << >>

(* A handler that is running has a next call.                              *)
LEMMA RunningHasCall ==
  ASSUME TodoInv, todo # << >>
  PROVE  \E operation \in Operations, e \in Deliverable, again \in BOOLEAN :
           Head(todo) = CallOf(operation, e, again) /\ NextCall(operation, e, again)
<1>1. PICK e \in Deliverable, again \in BOOLEAN : Handling(e, again)
  BY DEF TodoInv
<1> SUFFICES \E operation \in Operations :
               Head(todo) = CallOf(operation, e, again) /\ NextCall(operation, e, again)
  OBVIOUS
<1>2. /\ \A x : <<x>> # << >> /\ Head(<<x>>) = x /\ Tail(<<x>>) = << >>
      /\ \A x, y : <<x, y>> # << >> /\ Head(<<x, y>>) = x /\ Tail(<<x, y>>) = <<y>>
      /\ \A x, y, z : <<x, y, z>> # << >> /\ Head(<<x, y, z>>) = x /\ Tail(<<x, y, z>>) = <<y, z>>
  OBVIOUS
<1>3. CASE /\ e.kind = "REQUEST_CREATED"
             /\ todo = <<CallOf("create_request", e, again)>>
  <2>1. Head(todo) = CallOf("create_request", e, again) /\ NextCall("create_request", e, again)
    BY <1>2, <1>3, Zenon DEF NextCall
  <2> QED
    BY <2>1 DEF Operations
<1>4. CASE /\ e.kind \in {"ATTEMPT_STARTED", "RETRY_STARTED"}
             /\ (e.kind = "RETRY_STARTED" => StillCurrent(e))
             /\ todo = <<CallOf("start_attempt", e, again), CallOf("running", e, again)>>
  <2>1. Head(todo) = CallOf("start_attempt", e, again) /\ NextCall("start_attempt", e, again)
    BY <1>2, <1>4, Zenon DEF NextCall
  <2> QED
    BY <2>1 DEF Operations
<1>5. CASE /\ e.kind \in {"ATTEMPT_STARTED", "RETRY_STARTED"}
             /\ todo = <<CallOf("running", e, again)>>
  <2>1. Head(todo) = CallOf("running", e, again) /\ NextCall("running", e, again)
    BY <1>2, <1>5, Zenon DEF NextCall
  <2> QED
    BY <2>1 DEF Operations
<1>6. CASE /\ e.kind \in SuccessKinds
             /\ todo = <<CallOf("succeed", e, again)>>
  <2>1. Head(todo) = CallOf("succeed", e, again) /\ NextCall("succeed", e, again)
    BY <1>2, <1>6, Zenon DEF NextCall
  <2> QED
    BY <2>1 DEF Operations
<1>7. CASE /\ e.kind = "ATTEMPT_FAILED"
             /\ todo = <<CallOf("fail", e, again)>>
  <2>1. Head(todo) = CallOf("fail", e, again) /\ NextCall("fail", e, again)
    BY <1>2, <1>7, Zenon DEF NextCall
  <2> QED
    BY <2>1 DEF Operations
<1>8. CASE /\ e.kind \in ObservationKinds
             /\ ObservesSuccess(e, now)
             /\ todo = <<CallOf("record_evidence", e, again), CallOf("create_output", e, again),
                       CallOf("finalize_request", e, again)>>
  <2>1. Head(todo) = CallOf("record_evidence", e, again) /\ NextCall("record_evidence", e, again)
    <3>1. /\ Head(todo) = CallOf("record_evidence", e, again)
          /\ Tail(todo) = <<CallOf("create_output", e, again), CallOf("finalize_request", e, again)>>
      <4> HIDE DEF CallOf
      <4> QED
        BY <1>8
    <3> QED
      BY <1>8, <3>1, Zenon DEF NextCall
  <2> QED
    BY <2>1 DEF Operations
<1>9. CASE /\ e.kind \in ObservationKinds
             /\ ObservesSuccess(e, now)
             /\ (e.evidence \in DOMAIN evidence => evidence[e.evidence] = TerminalEvidence(e))
             /\ todo = <<CallOf("create_output", e, again), CallOf("finalize_request", e, again)>>
  <2>1. Head(todo) = CallOf("create_output", e, again) /\ NextCall("create_output", e, again)
    BY <1>2, <1>9, Zenon DEF NextCall
  <2> QED
    BY <2>1 DEF Operations
<1>10. CASE /\ e.kind \in ObservationKinds
             /\ ObservesSuccess(e, now)
             /\ (e.evidence \in DOMAIN evidence => evidence[e.evidence] = TerminalEvidence(e))
             /\ todo = <<CallOf("finalize_request", e, again)>>
  <2>1. Head(todo) = CallOf("finalize_request", e, again) /\ NextCall("finalize_request", e, again)
    BY <1>2, <1>10, Zenon DEF NextCall
  <2> QED
    BY <2>1 DEF Operations
<1> QED
  BY <1>1, <1>3, <1>4, <1>5, <1>6, <1>7, <1>8, <1>9, <1>10, Zenon DEF Handling

(* What a call of the core is, by its operation.                           *)
LEMMA CallIsStep ==
  ASSUME AdapterInv, NEW operation \in Operations, NEW e \in Deliverable, NEW again \in BOOLEAN,
         NextCall(operation, e, again), CoreCall(operation, e)
  PROVE  Next
<1>1. e \in AdapterEvents /\ (e.kind \in ObservationKinds => TerminalEvidence(e) \in EvidenceRecords)
  BY DEF Deliverable
<1>2. now \in Times
  BY AdapterAssumption DEF AdapterInv, AdapterTypeOK
<1>3. CASE operation = "create_request"
  <2>1. CreateRequest(e.request, e.continuation, {})
    BY <1>3 DEF CoreCall
  <2> QED
    BY <1>1, <1>3, <2>1, EventFields DEF NextCall, Next
<1>4. CASE operation = "start_attempt"
  <2>1. StartAttempt(Attempted(e), e.request, {})
    BY <1>4 DEF CoreCall
  <2>2. Attempted(e) \in AttemptIds /\ e.request \in RequestIds
    BY <1>1, <1>4, EventFields DEF NextCall, Attempted
  <2> QED
    BY <2>1, <2>2 DEF Next, AttemptStep
<1>5. CASE operation = "running"
  <2>1. SetAttemptExecution(Attempted(e), "RUNNING")
    BY <1>5 DEF CoreCall
  <2>2. Attempted(e) \in AttemptIds
    BY <1>1, <1>5, EventFields DEF NextCall, Attempted
  <2> QED
    BY <2>1, <2>2 DEF Next, AttemptStep, ExecutionStatus
<1>6. CASE operation = "succeed"
  <2>1. CompleteAttempt(e.attempt, TRUE)
    BY <1>6 DEF CoreCall
  <2>2. e.attempt \in AttemptIds
    BY <1>1, <1>6, EventFields DEF NextCall
  <2> QED
    BY <2>1, <2>2 DEF Next, AttemptStep
<1>7. CASE operation = "fail"
  <2>1. CompleteAttempt(e.attempt, FALSE)
    BY <1>7 DEF CoreCall
  <2>2. e.attempt \in AttemptIds
    BY <1>1, <1>7, EventFields DEF NextCall
  <2> QED
    BY <2>1, <2>2 DEF Next, AttemptStep
<1>8. CASE operation = "record_evidence"
  <2>1. RecordEvidence(e.evidence, TerminalEvidence(e), FencingIds) /\ UNCHANGED fencingVars
    BY <1>8 DEF CoreCall
  <2>2. e.evidence \in EvidenceIds /\ TerminalEvidence(e) \in EvidenceRecords
    BY <1>1, <1>8, EventFields DEF NextCall
  <2>3. FencingIds \cup {} = FencingIds
    OBVIOUS
  <2> QED
    BY <2>1, <2>2, <2>3 DEF Next, AttemptStep
<1>9. CASE operation = "create_output"
  <2>1. CreateOutput(e.output, e.attempt, TRUE, {e.evidence}, {})
    BY <1>9 DEF CoreCall
  <2>2. e.output \in OutputIds /\ e.attempt \in AttemptIds /\ {e.evidence} \in SUBSET EvidenceIds
    BY <1>1, <1>9, EventFields DEF NextCall
  <2> QED
    BY <2>1, <2>2 DEF Next, AttemptStep
<1>10. CASE operation = "finalize_request"
  <2>1. FinalizeRequest(e.request, e.output, now)
    BY <1>10 DEF CoreCall
  <2>2. e.request \in RequestIds /\ e.output \in OutputIds
    BY <1>1, <1>10, EventFields DEF NextCall
  <2> QED
    BY <1>2, <2>1, <2>2 DEF Next, AttemptStep
<1> QED
  BY <1>3, <1>4, <1>5, <1>6, <1>7, <1>8, <1>9, <1>10 DEF NextCall

---------------------------------------------------------------------------
(* How one call changes the collections of the core.                       *)
Succeeds(a) == a \in DOMAIN attempts /\ attempts[a].execution = "SUCCEEDED"

(* An attempt has succeeded after a call exactly if it had before, or the  *)
(* call reports its success.                                               *)
LEMMA SuccessOfCall ==
  ASSUME AdapterInv, NEW operation \in Operations, NEW e \in Deliverable, NEW again \in BOOLEAN,
         NextCall(operation, e, again), CoreCall(operation, e), NEW a
  PROVE  Succeeds(a)' = (Succeeds(a) \/ (operation = "succeed" /\ a = e.attempt))
<1>1. e \in AdapterEvents /\ TypeOK
  BY DEF Deliverable, AdapterInv, IInv
<1>2. ASSUME attempts' = attempts, operation # "succeed"
      PROVE  Succeeds(a)' = (Succeeds(a) \/ (operation = "succeed" /\ a = e.attempt))
  BY <1>2 DEF Succeeds
<1>3. CASE operation = "create_request"
  BY <1>2, <1>3 DEF CoreCall, CreateRequest
<1>4. CASE operation = "start_attempt"
  <2>1. StartAttempt(Attempted(e), e.request, {})
    BY <1>4 DEF CoreCall
  <2>2. Attempted(e) \in AttemptIds /\ e.request \in RequestIds
    BY <1>1, <1>4, EventFields DEF NextCall, Attempted
  <2>3. Started(Attempted(e), e.request)
    BY <1>1, <2>1, <2>2, StartEffect
  <2>4. attempts'[Attempted(e)].execution = "CREATED"
    BY <2>1 DEF StartAttempt, MayStart, Put
  <2> QED
    BY <1>4, <2>3, <2>4 DEF Started, Succeeds
<1>5. ASSUME NEW x, NEW status \in {"RUNNING", "FAILED", "SUCCEEDED"},
             SetAttemptExecution(x, status)
      PROVE  Succeeds(a)' = (Succeeds(a) \/ (status = "SUCCEEDED" /\ a = x))
  <2>1. /\ x \in DOMAIN attempts /\ MayBecome(attempts[x].execution, status)
        /\ attempts' = [attempts EXCEPT ![x].execution = status]
    BY <1>5 DEF SetAttemptExecution, MayReport
  <2>2. /\ DOMAIN attempts' = DOMAIN attempts
        /\ attempts'[x].execution = status
        /\ \A y \in DOMAIN attempts : y # x => attempts'[y] = attempts[y]
    BY <1>1, <2>1 DEF TypeOK, Attempt
  <2>3. attempts[x].execution = "SUCCEEDED" => status = "SUCCEEDED"
    BY <2>1 DEF MayBecome, TerminalExecution
  <2> QED
    BY <2>1, <2>2, <2>3 DEF Succeeds
<1>6. CASE operation = "running"
  BY <1>5, <1>6 DEF CoreCall
<1>7. CASE operation = "succeed"
  BY <1>5, <1>7 DEF CoreCall, CompleteAttempt
<1>8. CASE operation = "fail"
  BY <1>5, <1>8 DEF CoreCall, CompleteAttempt
<1>9. CASE operation = "record_evidence"
  BY <1>2, <1>9 DEF CoreCall, fencingVars
<1>10. CASE operation = "create_output"
  BY <1>2, <1>10 DEF CoreCall, CreateOutput, MayCreateOutput
<1>11. CASE operation = "finalize_request"
  <2>1. FinalizeRequest(e.request, e.output, now)
    BY <1>11 DEF CoreCall
  <2>2. e.request \in RequestIds /\ e.output \in OutputIds
    BY <1>1, <1>11, EventFields DEF NextCall
  <2>3. now \in Times
    BY AdapterAssumption DEF AdapterInv, AdapterTypeOK
  <2>4. Finalized(e.request, e.output)
    BY <1>1, <2>1, <2>2, <2>3, FinalizeEffect DEF AdapterInv, IInv
  <2> QED
    BY <1>11, <2>4 DEF Finalized, Succeeds
<1> QED
  BY <1>3, <1>4, <1>6, <1>7, <1>8, <1>9, <1>10, <1>11 DEF Operations

(* Outputs are created by create_output only, for the attempt and with the *)
(* Evidence of the observation.                                            *)
LEMMA OutputsOfCall ==
  ASSUME NEW operation \in Operations, NEW e, CoreCall(operation, e)
  PROVE  \/ outputs' = outputs
         \/ /\ operation = "create_output" /\ e.evidence \in DOMAIN evidence
            /\ outputs' = Put(outputs, e.output, TerminalOutputOf(e))
            /\ UNCHANGED <<requests, attempts, evidence>>
<1>1. CASE operation = "create_output"
  BY <1>1 DEF CoreCall, CreateOutput, MayCreateOutput, EvidenceKnown, TerminalOutputOf
<1>2. CASE operation = "record_evidence"
  BY <1>2 DEF CoreCall, fencingVars
<1>3. CASE operation \in {"create_request", "start_attempt", "running", "succeed", "fail",
                         "finalize_request"}
  BY <1>3
     DEF CoreCall, CreateRequest, StartAttempt, MayStart, SetAttemptExecution, MayReport,
         CompleteAttempt, FinalizeRequest, MayFinalize
<1> QED
  BY <1>1, <1>2, <1>3 DEF Operations

(* The calls of a handler, written out.                                    *)
LEMMA CallsWritten ==
  ASSUME NEW e, NEW x, NEW y, NEW z
  PROVE  /\ Calls(e, << >>) = << >>
         /\ Calls(e, <<x>>) = <<CallOf(x, e, e \in applied)>>
         /\ Calls(e, <<x, y>>) = <<CallOf(x, e, e \in applied), CallOf(y, e, e \in applied)>>
         /\ Calls(e, <<x, y, z>>) = <<CallOf(x, e, e \in applied), CallOf(y, e, e \in applied),
                                      CallOf(z, e, e \in applied)>>
<1> DEFINE c(operation) == CallOf(operation, e, e \in applied)
<1>1. \A s \in Seq({x, y, z}) : Calls(e, s) = [i \in 1..Len(s) |-> c(s[i])]
  BY DEF Calls, CallOf
<1> HIDE DEF c
<1>2. << >> \in Seq({x, y, z}) /\ <<x>> \in Seq({x, y, z}) /\ <<x, y>> \in Seq({x, y, z})
        /\ <<x, y, z>> \in Seq({x, y, z})
  OBVIOUS
<1>3. [i \in 1..Len(<< >>) |-> c((<< >>)[i])] = << >>
  OBVIOUS
<1>4. [i \in 1..Len(<<x>>) |-> c((<<x>>)[i])] = <<c(x)>>
  OBVIOUS
<1>5. [i \in 1..Len(<<x, y>>) |-> c((<<x, y>>)[i])] = <<c(x), c(y)>>
  OBVIOUS
<1>6. [i \in 1..Len(<<x, y, z>>) |-> c((<<x, y, z>>)[i])] = <<c(x), c(y), c(z)>>
  OBVIOUS
<1> QED
  BY <1>1, <1>2, <1>3, <1>4, <1>5, <1>6 DEF c

---------------------------------------------------------------------------
(* A call keeps the invariant: the success of an attempt is timed when it  *)
(* is reported first, and an output is created while its observation is    *)
(* still known to be one of a success.                                     *)
LEMMA AppliedKeeps ==
  ASSUME AdapterInv, todo # << >>, CallApplied(Head(todo))
  PROVE  AdapterInv' /\ Next
<1>1. PICK operation \in Operations, e \in Deliverable, again \in BOOLEAN :
        Head(todo) = CallOf(operation, e, again) /\ NextCall(operation, e, again)
  BY RunningHasCall DEF AdapterInv
<1>2. /\ CoreCall(operation, e)
      /\ success' = IF operation = "succeed" THEN Succeeded(e) ELSE success
      /\ applied' = IF coreVars' = coreVars THEN applied ELSE applied \cup {e}
      /\ todo' = Tail(todo)
      /\ UNCHANGED <<now, retries, reserved>>
  <2> DEFINE call == CallOf(operation, e, again)
  <2>1. call.operation = operation /\ call.event = e
    BY DEF CallOf
  <2>2. CallApplied(call)
    BY <1>1
  <2> HIDE DEF call
  <2> QED
    BY <2>1, <2>2, Zenon DEF CallApplied
<1>3. Next
  BY <1>1, <1>2, CallIsStep
<1>4. IInv'
  BY <1>3, Inductive DEF AdapterInv
<1>5. Final
  BY <1>3, FinalStep DEF AdapterInv
<1>6. \A a : Succeeds(a)' = (Succeeds(a) \/ (operation = "succeed" /\ a = e.attempt))
  BY <1>1, <1>2, SuccessOfCall
<1>7. /\ DOMAIN success = {a \in DOMAIN attempts : attempts[a].execution = "SUCCEEDED"}
      /\ \A a \in DOMAIN success : success[a] \in 0..now
      /\ now \in Nat /\ now \in 0..MaxTime
  BY AdapterAssumption DEF AdapterInv, AdapterTypeOK
<1>8. /\ DOMAIN success' = DOMAIN success \cup (IF operation = "succeed" THEN {e.attempt} ELSE {})
      /\ \A a \in DOMAIN success : success'[a] = success[a]
      /\ \A a \in DOMAIN success' : success'[a] \in 0..now
  <2>1. CASE operation # "succeed"
    BY <1>2, <1>7, <2>1
  <2>2. CASE operation = "succeed" /\ attempts[e.attempt].execution = "SUCCEEDED"
    <3>1. e.attempt \in DOMAIN attempts
      BY <1>2, <2>2 DEF CoreCall, CompleteAttempt, SetAttemptExecution, MayReport
    <3> QED
      BY <1>2, <1>7, <2>2, <3>1 DEF Succeeded
  <2>3. CASE operation = "succeed" /\ attempts[e.attempt].execution # "SUCCEEDED"
    <3>1. success' = Put(success, e.attempt, now) /\ e.attempt \notin DOMAIN success
      BY <1>2, <1>7, <2>3 DEF Succeeded
    <3> QED
      BY <1>7, <2>3, <3>1 DEF Put
  <2> QED
    BY <2>1, <2>2, <2>3
<1>9. AdapterTypeOK'
  <2>1. TypeOK'
    BY <1>4 DEF IInv
  <2>2. DOMAIN success' = {a \in DOMAIN attempts' : attempts'[a].execution = "SUCCEEDED"}
    BY <1>6, <1>7, <1>8 DEF Succeeds
  <2>3. applied' \subseteq AdapterEvents
    BY <1>2 DEF AdapterInv, AdapterTypeOK, Deliverable
  <2>4. reserved' = {x.retry : x \in retries'}
    BY <1>2 DEF AdapterInv, AdapterTypeOK
  <2>5. now' \in 0..MaxTime /\ \A a \in DOMAIN success' : success'[a] \in 0..now'
    BY <1>2, <1>7, <1>8
  <2> QED
    BY <2>1, <2>2, <2>3, <2>4, <2>5 DEF AdapterTypeOK
<1>10. OutputsObserveSuccess'
  <2>1. SUFFICES ASSUME NEW o \in DOMAIN outputs'
                 PROVE  /\ outputs'[o].attempt \in DOMAIN success'
                        /\ \A i \in outputs'[o].evidence :
                             /\ success'[outputs'[o].attempt] <= evidence'[i].observed
                             /\ evidence'[i].observed <= now
    BY <1>2 DEF OutputsObserveSuccess
  <2>2. CASE o \in DOMAIN outputs
    <3>1. outputs'[o] = outputs[o] /\ \A i \in DOMAIN evidence : evidence'[i] = evidence[i]
      BY <1>5, <2>2 DEF Final
    <3>2. outputs[o].evidence \subseteq DOMAIN evidence
      BY <2>2 DEF AdapterInv, IInv, StoreWellFormed
    <3>3. /\ outputs[o].attempt \in DOMAIN success
          /\ \A i \in outputs[o].evidence :
               success[outputs[o].attempt] <= evidence[i].observed /\ evidence[i].observed <= now
      BY <2>2 DEF AdapterInv, OutputsObserveSuccess
    <3> QED
      BY <1>8, <3>1, <3>2, <3>3
  <2>3. CASE o \notin DOMAIN outputs
    <3>1. /\ operation = "create_output" /\ e.evidence \in DOMAIN evidence
          /\ outputs' = Put(outputs, e.output, TerminalOutputOf(e))
          /\ UNCHANGED <<requests, attempts, evidence>>
      BY <1>2, <2>3, OutputsOfCall
    <3>2. outputs'[o] = TerminalOutputOf(e)
      BY <2>1, <2>3, <3>1 DEF Put
    <3>3. ObservesSuccess(e, now) /\ evidence[e.evidence] = TerminalEvidence(e)
      BY <1>1, <3>1 DEF NextCall
    <3>4. e.attempt \in DOMAIN success /\ success[e.attempt] <= e.observed /\ e.observed <= now
      <4>1. e.attempt \in DOMAIN success
        BY <1>7, <3>3 DEF ObservesSuccess
      <4>2. e.observed \in Nat
        <5>1. e \in AdapterEvents /\ e.kind \in ObservationKinds
          BY <1>1, <3>1 DEF NextCall, Deliverable
        <5> QED
          BY <5>1, EventFields
      <4> QED
        BY <1>7, <3>3, <4>1, <4>2 DEF ObservesSuccess
    <3>5. /\ outputs'[o].attempt = e.attempt /\ outputs'[o].evidence = {e.evidence}
          /\ evidence'[e.evidence].observed = e.observed
      <4>1. TerminalEvidence(e).observed = e.observed
        BY DEF TerminalEvidence
      <4>2. evidence'[e.evidence] = TerminalEvidence(e)
        BY <3>1, <3>3
      <4>3. TerminalOutputOf(e).attempt = e.attempt /\ TerminalOutputOf(e).evidence = {e.evidence}
        BY DEF TerminalOutputOf
      <4> QED
        BY <3>2, <4>1, <4>2, <4>3
    <3>6. success'[e.attempt] = success[e.attempt] /\ e.attempt \in DOMAIN success'
      BY <1>8, <3>4
    <3> QED
      BY <3>4, <3>5, <3>6
  <2> QED
    BY <2>2, <2>3
<1>11. TodoInv'
  <2>1. CASE todo' = << >>
    BY <2>1 DEF TodoInv
  <2>2. CASE operation = "start_attempt"
    <3>1. todo' = <<CallOf("running", e, again)>> /\ e.kind \in {"ATTEMPT_STARTED", "RETRY_STARTED"}
      BY <1>1, <1>2, <2>2 DEF NextCall
    <3> QED
      BY <3>1 DEF TodoInv, Handling
  <2>3. CASE operation = "create_output"
    <3>1. /\ todo' = <<CallOf("finalize_request", e, again)>>
          /\ e.kind \in ObservationKinds /\ ObservesSuccess(e, now)
          /\ e.evidence \in DOMAIN evidence => evidence[e.evidence] = TerminalEvidence(e)
      BY <1>1, <1>2, <2>3 DEF NextCall
    <3>2. attempts' = attempts /\ evidence' = evidence
      BY <1>2, <2>3 DEF CoreCall, CreateOutput
    <3>3. ObservesSuccess(e, now)'
      BY <1>2, <2>3, <3>1, <3>2 DEF ObservesSuccess
    <3> QED
      BY <3>1, <3>2, <3>3 DEF TodoInv, Handling
  <2>4. CASE operation = "record_evidence"
    <3>1. /\ todo' = <<CallOf("create_output", e, again), CallOf("finalize_request", e, again)>>
          /\ e.kind \in ObservationKinds /\ ObservesSuccess(e, now)
      BY <1>1, <1>2, <2>4 DEF NextCall
    <3>2. evidence'[e.evidence] = TerminalEvidence(e) /\ attempts' = attempts
      BY <1>2, <2>4 DEF CoreCall, RecordEvidence, MayRecord, fencingVars
    <3>3. ObservesSuccess(e, now)'
      BY <1>2, <2>4, <3>1, <3>2 DEF ObservesSuccess
    <3> QED
      BY <3>1, <3>2, <3>3 DEF TodoInv, Handling
  <2> QED
    BY <1>1, <1>2, <2>1, <2>2, <2>3, <2>4 DEF NextCall
<1>12. (retries \subseteq Deliverable)'
  BY <1>2 DEF AdapterInv, Deliverable
<1> QED
  BY <1>3, <1>4, <1>9, <1>10, <1>11, <1>12 DEF AdapterInv

(* A call that leaves the core alone keeps the invariant, whether the core *)
(* has rejected it or what it would create exists.                         *)
LEMMA NotAppliedKeeps ==
  ASSUME AdapterInv, todo # << >>, CallRejected(Head(todo)) \/ CallSkipped(Head(todo))
  PROVE  AdapterInv' /\ UNCHANGED coreVars
<1>1. PICK operation \in Operations, e \in Deliverable, again \in BOOLEAN :
        Head(todo) = CallOf(operation, e, again) /\ NextCall(operation, e, again)
  BY RunningHasCall DEF AdapterInv
<1>2. UNCHANGED <<coreVars, now, retries, reserved, success, applied>>
  BY DEF CallRejected, CallSkipped
<1>3. UNCHANGED <<requests, attempts, outputs, evidence>>
  BY <1>2 DEF coreVars
<1>4. \/ todo' = << >>
      \/ /\ todo' = Tail(todo) /\ operation # "start_attempt"
         /\ operation = "record_evidence" /\ e.evidence \in DOMAIN evidence
              => evidence[e.evidence] = TerminalEvidence(e)
  <2>1. CASE CallRejected(Head(todo))
    BY <1>1, <2>1 DEF CallRejected, Exists, CallOf
  <2>2. CASE CallSkipped(Head(todo))
    BY <1>1, <2>2 DEF CallSkipped, Exists, Expected, CallOf
  <2> QED
    BY <2>1, <2>2
<1>5. TodoInv'
  <2>1. CASE todo' = << >>
    BY <2>1 DEF TodoInv
  <2>2. ObservesSuccess(e, now) => ObservesSuccess(e, now)'
    BY <1>2, <1>3 DEF ObservesSuccess
  <2>3. CASE todo' = Tail(todo) /\ operation = "create_output"
    <3>1. /\ todo' = <<CallOf("finalize_request", e, again)>>
          /\ e.kind \in ObservationKinds /\ ObservesSuccess(e, now)'
          /\ e.evidence \in DOMAIN evidence => evidence[e.evidence] = TerminalEvidence(e)
      BY <1>1, <2>2, <2>3 DEF NextCall
    <3> QED
      BY <1>3, <3>1 DEF TodoInv, Handling
  <2>4. CASE /\ todo' = Tail(todo) /\ operation = "record_evidence"
             /\ e.evidence \in DOMAIN evidence => evidence[e.evidence] = TerminalEvidence(e)
    <3>1. /\ todo' = <<CallOf("create_output", e, again), CallOf("finalize_request", e, again)>>
          /\ e.kind \in ObservationKinds /\ ObservesSuccess(e, now)'
      BY <1>1, <2>2, <2>4 DEF NextCall
    <3> QED
      BY <1>3, <2>4, <3>1 DEF TodoInv, Handling
  <2> QED
    BY <1>1, <1>4, <2>1, <2>3, <2>4 DEF NextCall
<1>6. IInv' /\ TypeOK'
  <2>1. [Next]_vars
    BY <1>3 DEF vars
  <2> QED
    BY <2>1, Inductive DEF AdapterInv, IInv
<1>7. AdapterTypeOK'
  BY <1>2, <1>3, <1>6 DEF AdapterInv, AdapterTypeOK
<1>8. OutputsObserveSuccess'
  BY <1>2, <1>3 DEF AdapterInv, OutputsObserveSuccess
<1>9. (retries \subseteq Deliverable)'
  BY <1>2 DEF AdapterInv, Deliverable
<1> QED
  BY <1>2, <1>5, <1>6, <1>7, <1>8, <1>9 DEF AdapterInv

(* A delivery makes no call of the core yet; what its handler has found    *)
(* holds when the calls begin.                                             *)
LEMMA DeliveryKeeps ==
  ASSUME AdapterInv, NEW e \in Deliverable, Deliver(e) \/ DeliverTimeout(e)
  PROVE  AdapterInv' /\ UNCHANGED coreVars /\ todo = << >>
<1>1. e \in AdapterEvents
  BY DEF Deliverable
<1>2. UNCHANGED <<coreVars, success, applied>> /\ todo = << >> /\ now' \in now..MaxTime
  BY DEF Deliver, DeliverTimeout
<1>3. UNCHANGED <<requests, attempts, outputs, evidence>>
  BY <1>2 DEF coreVars
<1>4. now \in Nat /\ MaxTime \in Nat /\ now' \in 0..MaxTime /\ now <= now'
  BY <1>2, AdapterAssumption DEF AdapterInv, AdapterTypeOK
<1>5. IInv' /\ TypeOK'
  <2>1. [Next]_vars
    BY <1>3 DEF vars
  <2> QED
    BY <2>1, Inductive DEF AdapterInv, IInv
<1>6. retries' \subseteq Deliverable /\ reserved' = {x.retry : x \in retries'}
  <2>1. CASE UNCHANGED <<retries, reserved>>
    BY <2>1 DEF AdapterInv, AdapterTypeOK
  <2>2. CASE /\ reserved' = reserved \cup {e.retry} /\ retries' = retries \cup {RetryOf(e)}
             /\ e.kind = "ATTEMPT_TIMEOUT"
    <3>1. RetryOf(e) \in Deliverable /\ RetryOf(e).retry = e.retry
      BY <2>2, RetryDeliverable
    <3>2. retries \subseteq Deliverable /\ reserved = {x.retry : x \in retries}
      BY DEF AdapterInv, AdapterTypeOK
    <3>3. {x.retry : x \in retries \cup {RetryOf(e)}} = {x.retry : x \in retries} \cup {RetryOf(e).retry}
      OBVIOUS
    <3> QED
      BY <2>2, <3>1, <3>2, <3>3
  <2> QED
    BY <2>1, <2>2 DEF Deliver, DeliverTimeout
<1>7. AdapterTypeOK'
  <2>1. \A a \in DOMAIN success' : success'[a] \in 0..now'
    BY <1>2, <1>4 DEF AdapterInv, AdapterTypeOK
  <2>2. DOMAIN success' = {a \in DOMAIN attempts' : attempts'[a].execution = "SUCCEEDED"}
    BY <1>2, <1>3 DEF AdapterInv, AdapterTypeOK
  <2>3. applied' \subseteq AdapterEvents
    BY <1>2 DEF AdapterInv, AdapterTypeOK
  <2> QED
    BY <1>4, <1>5, <1>6, <2>1, <2>2, <2>3 DEF AdapterTypeOK
<1>8. OutputsObserveSuccess'
  <2>1. SUFFICES ASSUME NEW o \in DOMAIN outputs, NEW i \in outputs[o].evidence
                 PROVE  evidence[i].observed <= now'
    BY <1>2, <1>3 DEF AdapterInv, OutputsObserveSuccess
  <2>2. evidence[i].observed <= now
    BY DEF AdapterInv, OutputsObserveSuccess
  <2>3. i \in DOMAIN evidence /\ evidence[i] \in EvidenceRecords
    BY DEF AdapterInv, IInv, TypeOK, EvidenceTypeOK, StoreWellFormed
  <2>4. evidence[i].observed \in Int
    BY <2>3, EvidenceAssumption DEF IsEvidence
  <2> QED
    BY <1>4, <2>2, <2>4
<1>9. TodoInv'
  <2>1. CASE DeliverTimeout(e)
    BY <1>2, <2>1 DEF DeliverTimeout, TodoInv
  <2>2. CASE Deliver(e)
    <3>1. PICK t \in now..MaxTime : now' = t /\ todo' = Calls(e, OperationsOf(e, t))
      BY <2>2 DEF Deliver
    <3>2. Calls(e, << >>) = << >>
      BY CallsWritten
    <3> SUFFICES ASSUME OperationsOf(e, t) # << >>
                 PROVE  \E again \in BOOLEAN : Handling(e, again)'
      BY <3>1, <3>2 DEF TodoInv
    <3>0. PICK again \in BOOLEAN : again = (e \in applied)
      <4>1. (e \in applied) \in BOOLEAN
        OBVIOUS
      <4> QED
        BY <4>1, Zenon
    <3> SUFFICES Handling(e, again)'
      OBVIOUS
    <3>3. e.kind # "ATTEMPT_TIMEOUT"
      BY <2>2 DEF Deliver
    <3>4. CASE e.kind = "REQUEST_CREATED"
      <4>1. OperationsOf(e, t) = <<"create_request">>
        BY <3>4 DEF OperationsOf, SuccessKinds, ObservationKinds
      <4>2. todo' = <<CallOf("create_request", e, again)>>
        BY <3>0, <3>1, <4>1, CallsWritten, Zenon
      <4> QED
        BY <1>2, <3>4, <4>2 DEF Handling
    <3>5. CASE e.kind \in {"ATTEMPT_STARTED", "RETRY_STARTED"}
      <4>1. /\ OperationsOf(e, t) = <<"start_attempt", "running">>
            /\ e.kind = "RETRY_STARTED" => StillCurrent(e)
        BY <3>5 DEF OperationsOf, SuccessKinds, ObservationKinds
      <4>2. todo' = <<CallOf("start_attempt", e, again), CallOf("running", e, again)>>
        BY <3>0, <3>1, <4>1, CallsWritten, Zenon
      <4>3. StillCurrent(e) => StillCurrent(e)'
        BY <1>3 DEF StillCurrent
      <4> QED
        BY <1>2, <3>5, <4>1, <4>2, <4>3 DEF Handling
    <3>6. CASE e.kind \in SuccessKinds
      <4>1. OperationsOf(e, t) = <<"succeed">>
        BY <3>6 DEF OperationsOf, SuccessKinds, ObservationKinds
      <4>2. todo' = <<CallOf("succeed", e, again)>>
        BY <3>0, <3>1, <4>1, CallsWritten, Zenon
      <4> QED
        BY <1>2, <3>6, <4>2 DEF Handling
    <3>7. CASE e.kind = "ATTEMPT_FAILED"
      <4>1. OperationsOf(e, t) = <<"fail">>
        BY <3>7 DEF OperationsOf, SuccessKinds, ObservationKinds
      <4>2. todo' = <<CallOf("fail", e, again)>>
        BY <3>0, <3>1, <4>1, CallsWritten, Zenon
      <4> QED
        BY <1>2, <3>7, <4>2 DEF Handling
    <3>8. CASE e.kind \in ObservationKinds
      <4>1. /\ OperationsOf(e, t) = <<"record_evidence", "create_output", "finalize_request">>
            /\ ObservesSuccess(e, t)
        BY <3>8 DEF OperationsOf, SuccessKinds, ObservationKinds
      <4>2. todo' = <<CallOf("record_evidence", e, again), CallOf("create_output", e, again),
                      CallOf("finalize_request", e, again)>>
        <5>1. Calls(e, <<"record_evidence", "create_output", "finalize_request">>)
                = <<CallOf("record_evidence", e, e \in applied),
                    CallOf("create_output", e, e \in applied),
                    CallOf("finalize_request", e, e \in applied)>>
          BY CallsWritten
        <5> QED
          BY <3>0, <3>1, <4>1, <5>1, Zenon
      <4>3. ObservesSuccess(e, now)'
        BY <1>2, <1>3, <3>1, <4>1 DEF ObservesSuccess
      <4> QED
        BY <1>2, <3>8, <4>2, <4>3 DEF Handling
    <3> QED
      BY <1>1, <3>3, <3>4, <3>5, <3>6, <3>7, <3>8, EventFields
  <2> QED
    BY <2>1, <2>2
<1> QED
  BY <1>2, <1>5, <1>6, <1>7, <1>8, <1>9 DEF AdapterInv, Deliverable

---------------------------------------------------------------------------
(* Initially nothing is stored and no handler runs.                        *)
LEMMA LinkInitially == LinkedInit => LinkInv
<1> SUFFICES ASSUME LinkedInit
             PROVE  LinkInv
  OBVIOUS
<1>1. Init /\ now = 0 /\ retries = {} /\ reserved = {} /\ success = << >> /\ applied = {}
        /\ todo = << >> /\ faults = << >>
  BY DEF LinkedInit, AdapterInit
<1>2. IInv
  BY <1>1, Initially
<1>3. attempts = << >> /\ outputs = << >>
  BY <1>1 DEF Init, FencingInit
<1>4. AdapterTypeOK
  BY <1>1, <1>2, <1>3, AdapterAssumption DEF AdapterTypeOK, IInv
<1>5. OutputsObserveSuccess
  BY <1>3 DEF OutputsObserveSuccess
<1> QED
  BY <1>1, <1>2, <1>4, <1>5 DEF LinkInv, AdapterInv, TodoInv

(* A new fault record is well typed.                                       *)
LEMMA FaultTyped ==
  ASSUME NEW class \in AttemptFaultClasses \cup DeliveryFaults, NEW e \in Deliverable,
         NEW produced \in {"pending", "none"}, NEW carries \in AttemptFaultClasses
  PROVE  Fault(class, e, produced, carries) \in FaultRecords
BY DEF Fault, FaultRecords

(* Every step keeps the invariant, and is a step of the core or leaves the *)
(* core alone.                                                             *)
LEMMA LinkStep == LinkInv /\ [LinkedNext]_linkVars => LinkInv' /\ [Next]_vars
<1> SUFFICES ASSUME LinkInv, [LinkedNext]_linkVars
             PROVE  LinkInv' /\ [Next]_vars
  OBVIOUS
<1>1. AdapterInv /\ faults \in Seq(FaultRecords)
  BY DEF LinkInv
<1>2. \A i \in DOMAIN faults :
        /\ faults[i] \in FaultRecords
        /\ faults[i].event \in Deliverable /\ faults[i].carries \in AttemptFaultClasses
  <2>1. \A i \in DOMAIN faults : faults[i] \in FaultRecords
    BY <1>1
  <2> QED
    BY <2>1 DEF FaultRecords
<1>3. ASSUME UNCHANGED coreVars
      PROVE  [Next]_vars
  BY <1>3 DEF coreVars, vars
<1>4. ASSUME UNCHANGED adapterVars
      PROVE  AdapterInv' /\ [Next]_vars
  <2>1. UNCHANGED <<requests, attempts, outputs, evidence, now, retries, reserved, success,
                    applied, todo>>
    BY <1>4 DEF adapterVars, coreVars
  <2>2. [Next]_vars
    BY <2>1 DEF vars
  <2>3. IInv' /\ TypeOK'
    BY <1>1, <2>2, Inductive DEF AdapterInv, IInv
  <2>4. AdapterTypeOK' /\ OutputsObserveSuccess'
    BY <1>1, <2>1, <2>3 DEF AdapterInv, AdapterTypeOK, OutputsObserveSuccess
  <2>5. TodoInv'
    <3>1. \A e, again : Handling(e, again) => Handling(e, again)'
      BY <2>1 DEF Handling, ObservesSuccess, StillCurrent
    <3> QED
      BY <1>1, <2>1, <3>1 DEF AdapterInv, TodoInv
  <2> QED
    BY <1>1, <2>1, <2>2, <2>3, <2>4, <2>5 DEF AdapterInv
<1>5. ASSUME NEW class \in AttemptFaultClasses, NEW e \in Deliverable, Injected(class, e)
      PROVE  LinkInv' /\ [Next]_vars
  <2>1. Fault(class, e, "pending", class) \in FaultRecords
    BY <1>5, FaultTyped
  <2> QED
    BY <1>1, <1>4, <1>5, <2>1 DEF Injected, LinkInv
<1>6. ASSUME NEW e \in AttemptFaults,
             InjectAttemptTimeout(e) \/ InjectLateAttemptResult(e)
               \/ InjectStaleAttemptObservation(e)
      PROVE  LinkInv' /\ [Next]_vars
  <2>1. e \in Deliverable
    BY LinkageAssumption DEF Deliverable, ObservationKinds
  <2> QED
    BY <1>5, <1>6, <2>1
       DEF InjectAttemptTimeout, InjectLateAttemptResult, InjectStaleAttemptObservation,
           AttemptFaultClasses
<1>7. ASSUME NEW i \in DOMAIN faults, NEW class \in DeliveryFaults, Disturb(class, i)
      PROVE  LinkInv' /\ [Next]_vars
  <2>2. CopyOf(faults[i].event) \in Deliverable
    BY <1>2, CopyDeliverable
  <2>3. /\ Fault(class, CopyOf(faults[i].event), "pending", faults[i].carries) \in FaultRecords
        /\ \A produced \in {"pending", "none"} :
             Fault(class, faults[i].event, produced, faults[i].carries) \in FaultRecords
    BY <1>2, <2>2, FaultTyped
  <2>4. [faults EXCEPT ![i].produced = "cancelled"] \in Seq(FaultRecords)
    BY <1>1, <1>2 DEF FaultRecords
  <2>5. faults' \in Seq(FaultRecords)
    BY <1>1, <1>7, <2>3, <2>4 DEF Disturb
  <2> QED
    BY <1>4, <1>7, <2>5 DEF Disturb, LinkInv
<1>8. ASSUME NEW i \in DOMAIN faults, DeliverFault(i)
      PROVE  LinkInv' /\ [Next]_vars
  <2>1. Deliver(faults[i].event) \/ DeliverTimeout(faults[i].event)
    BY <1>8 DEF DeliverFault
  <2>2. AdapterInv' /\ UNCHANGED coreVars
    BY <1>1, <1>2, <2>1, DeliveryKeeps
  <2>3. \E outcomes \in SUBSET Outcomes :
          faults' = [faults EXCEPT ![i].produced = "delivered", ![i].outcomes = outcomes]
    BY <1>8 DEF DeliverFault, WithoutCall, Outcomes
  <2>4. faults' \in Seq(FaultRecords)
    BY <1>1, <1>2, <2>3 DEF FaultRecords
  <2> QED
    BY <1>3, <2>2, <2>4 DEF LinkInv
<1>9. ASSUME NEW e \in Script \cup retries, Deliver(e) \/ DeliverTimeout(e), UNCHANGED faults
      PROVE  LinkInv' /\ [Next]_vars
  <2>1. e \in Deliverable
    BY <1>1, AdapterAssumption DEF AdapterInv, Deliverable
  <2> QED
    BY <1>1, <1>3, <1>9, <2>1, DeliveryKeeps DEF LinkInv
<1>10. ASSUME NEW outcome \in Outcomes, Noted(outcome)
       PROVE  faults' \in Seq(FaultRecords)
  <2>1. CASE running = 0
    BY <1>1, <1>10, <2>1 DEF Noted
  <2>2. CASE running # 0
    <3>1. faults' = [faults EXCEPT ![running].outcomes = @ \cup {outcome}]
      BY <1>10, <2>2 DEF Noted
    <3>2. CASE running \in DOMAIN faults
      <4>1. [faults[running] EXCEPT !.outcomes = @ \cup {outcome}] \in FaultRecords
        BY <1>2, <1>10, <3>2 DEF FaultRecords
      <4> QED
        BY <1>1, <3>1, <3>2, <4>1
    <3>3. CASE running \notin DOMAIN faults
      <4>1. faults = [x \in 1..Len(faults) |-> faults[x]] /\ DOMAIN faults = 1..Len(faults)
        BY <1>1
      <4>2. faults' = [x \in 1..Len(faults) |-> faults[x]]
        BY <3>1, <3>3, <4>1
      <4> QED
        BY <1>1, <4>1, <4>2
    <3> QED
      BY <3>2, <3>3
  <2> QED
    BY <2>1, <2>2
<1>11. CASE LinkedCall
  <2>1. todo # << >> /\ \E outcome \in Outcomes : Noted(outcome)
    BY <1>11 DEF LinkedCall, Outcomes
  <2>2. CallApplied(Head(todo)) \/ CallRejected(Head(todo)) \/ CallSkipped(Head(todo))
    BY <1>11, Zenon DEF LinkedCall
  <2>3. AdapterInv' /\ [Next]_vars
    BY <1>1, <1>3, <2>1, <2>2, AppliedKeeps, NotAppliedKeeps
  <2> QED
    BY <1>10, <2>1, <2>3 DEF LinkInv
<1>12. CASE UNCHANGED linkVars
  <2>1. UNCHANGED <<adapterVars, faults>>
    BY <1>12 DEF linkVars
  <2> QED
    BY <1>1, <1>4, <2>1 DEF LinkInv
<1> QED
  BY <1>6, <1>7, <1>8, <1>9, <1>11, <1>12 DEF LinkedNext

(* The inductive invariant holds however events are delivered and faulted. *)
THEOREM LinkInvariant == LinkedSpec => []LinkInv
BY LinkInitially, LinkStep, PTL DEF LinkedSpec

(* The adapter takes the core through steps of its own only, and keeps out *)
(* what it rejects: everything that is proved of the core (AttemptFencing) *)
(* holds under any delivery of events, too.                                *)
THEOREM AdapterKeepsCore == LinkedSpec => Spec
<1>1. LinkedInit => Init
  BY DEF LinkedInit, AdapterInit
<1> QED
  BY <1>1, LinkStep, LinkInvariant, PTL DEF LinkedSpec, Spec

(* What a request is completed on was observed after the delivery of its   *)
(* attempt's success (_handle_observation, semantic_adapter.py).           *)
THEOREM CommitsAreObserved == LinkedSpec => []CommitsObserveSuccess
<1>1. LinkInv => CommitsObserveSuccess
  <2> SUFFICES ASSUME LinkInv, NEW r \in DOMAIN requests, requests[r].status = "COMPLETED"
               PROVE  LET a == requests[r].committed IN
                      /\ a \in DOMAIN success
                      /\ \A i \in outputs[requests[r].output].evidence :
                           success[a] <= evidence[i].observed /\ evidence[i].observed <= now
    BY DEF LinkInv, AdapterInv, CommitsObserveSuccess
  <2>1. IInv /\ OutputsObserveSuccess
    BY DEF LinkInv, AdapterInv
  <2>2. /\ requests[r].output \in DOMAIN outputs
        /\ outputs[requests[r].output].attempt = requests[r].committed
    BY <2>1 DEF IInv, CommitConsistent, StoreWellFormed
  <2> QED
    BY <2>1, <2>2 DEF OutputsObserveSuccess
<1> QED
  BY <1>1, LinkInvariant, PTL

(* A retry fences the attempt it was scheduled for and no other            *)
(* (_handle_retry, semantic_adapter.py): the request still points to that  *)
(* attempt when the retry starts, and start_attempt fences what the        *)
(* request points to.                                                      *)
THEOREM RetriesFence == LinkedSpec => RetriesFenceTheirAttempt
<1> DEFINE Fences ==
      todo # << >> /\ Head(todo).event.kind = "RETRY_STARTED" =>
        \A a \in DOMAIN attempts :
          attempts[a].authority # "SUPERSEDED" /\ attempts'[a].authority = "SUPERSEDED"
            => a = Head(todo).event.attempt
<1>1. LinkInv /\ [LinkedNext]_linkVars => [Fences]_adapterVars
  <2> SUFFICES ASSUME LinkInv, [LinkedNext]_linkVars, todo # << >>,
                      Head(todo).event.kind = "RETRY_STARTED", NEW a \in DOMAIN attempts,
                      attempts[a].authority # "SUPERSEDED", attempts'[a].authority = "SUPERSEDED"
               PROVE  a = Head(todo).event.attempt
    OBVIOUS
  <2>1. AdapterInv /\ TypeOK
    BY DEF LinkInv, AdapterInv, IInv
  <2>2. attempts' # attempts
    OBVIOUS
  <2>3. CallApplied(Head(todo))
    <3>1. LinkedCall
      <4>1. todo # << >> /\ ~UNCHANGED adapterVars
        BY <2>2 DEF adapterVars, coreVars
      <4> QED
        BY <4>1
           DEF LinkedNext, InjectAttemptTimeout, InjectLateAttemptResult,
               InjectStaleAttemptObservation, Injected, DeliverFault, Disturb, Deliver,
               DeliverTimeout, linkVars
    <3>2. CallApplied(Head(todo)) \/ CallRejected(Head(todo)) \/ CallSkipped(Head(todo))
      BY <3>1, Zenon DEF LinkedCall
    <3>3. CallRejected(Head(todo)) \/ CallSkipped(Head(todo)) => UNCHANGED coreVars
      BY <2>1, NotAppliedKeeps
    <3> QED
      BY <2>2, <3>2, <3>3 DEF coreVars
  <2>4. PICK operation \in Operations, e \in Deliverable, again \in BOOLEAN :
          Head(todo) = CallOf(operation, e, again) /\ NextCall(operation, e, again)
    BY <2>1, RunningHasCall DEF AdapterInv
  <2>5. e.kind = "RETRY_STARTED" /\ Head(todo).event = e
    BY <2>4 DEF CallOf
  <2>6. CoreCall(operation, e)
    <3> DEFINE call == CallOf(operation, e, again)
    <3>1. call.operation = operation /\ call.event = e
      BY DEF CallOf
    <3>2. CallApplied(call)
      BY <2>3, <2>4
    <3> HIDE DEF call
    <3> QED
      BY <3>1, <3>2, Zenon DEF CallApplied
  <2>7. CASE operation = "running"
    <3>1. SetAttemptExecution(Attempted(e), "RUNNING")
      BY <2>6, <2>7 DEF CoreCall
    <3>2. attempts'[a].authority = attempts[a].authority
      BY <2>1, <3>1 DEF SetAttemptExecution, MayReport, TypeOK, Attempt
    <3> QED
      BY <3>2
  <2>8. CASE operation = "start_attempt"
    <3>1. StartAttempt(Attempted(e), e.request, {}) /\ StillCurrent(e)
      BY <2>4, <2>5, <2>6, <2>8 DEF CoreCall, NextCall
    <3>2. Attempted(e) \in AttemptIds /\ e.request \in RequestIds
      BY <2>5, EventFields DEF Attempted, Deliverable
    <3>3. Started(Attempted(e), e.request)
      BY <2>1, <3>1, <3>2, StartEffect
    <3> QED
      BY <2>5, <3>1, <3>3 DEF Started, StillCurrent
  <2> QED
    BY <2>4, <2>5, <2>7, <2>8 DEF NextCall, SuccessKinds, ObservationKinds
<1> QED
  BY <1>1, LinkInvariant, PTL DEF LinkedSpec, RetriesFenceTheirAttempt

---------------------------------------------------------------------------
(* Deliveries are idempotent.  An identifier that is taken stays taken, an *)
(* attempt that has lost the request never gets it back.                   *)
Taken(id) == id \in FencingIds \cup DOMAIN evidence

(* What a step of the core keeps: collections grow, and a request turns to *)
(* a new attempt only.                                                     *)
CoreGrows ==
  /\ DOMAIN requests \subseteq DOMAIN requests'
  /\ DOMAIN attempts \subseteq DOMAIN attempts'
  /\ DOMAIN outputs \subseteq DOMAIN outputs'
  /\ DOMAIN evidence \subseteq DOMAIN evidence'
  /\ \A r \in DOMAIN requests : requests'[r].current # requests[r].current
       => requests'[r].current \notin DOMAIN attempts

LEMMA GrowsStep == IInv /\ [Next]_vars => CoreGrows
<1> SUFFICES ASSUME IInv, Next
             PROVE  CoreGrows
  BY DEF CoreGrows, vars
<1> USE DEF IInv, CoreGrows
<1>1. ASSUME NEW r \in RequestIds, NEW c \in ContinuationIds, CreateRequest(r, c, {})
      PROVE  CoreGrows
  BY <1>1 DEF CreateRequest, Put, Unique, FencingIds
<1>2. ASSUME NEW a \in AttemptIds, NEW r \in RequestIds, StartAttempt(a, r, {})
      PROVE  CoreGrows
  <2>1. Started(a, r)
    BY <1>2, StartEffect
  <2>2. requests'[r].current = a
    BY <1>2 DEF StartAttempt, MayStart, TypeOK, LogicalRequest
  <2> QED
    BY <2>1, <2>2 DEF Started
<1>3. ASSUME NEW a \in AttemptIds, NEW status \in ExecutionStatus, SetAttemptExecution(a, status)
      PROVE  CoreGrows
  BY <1>3 DEF SetAttemptExecution
<1>4. ASSUME NEW o \in OutputIds, NEW a \in AttemptIds, NEW terminal \in BOOLEAN,
             NEW ids \in SUBSET EvidenceIds, CreateOutput(o, a, terminal, ids, {})
      PROVE  CoreGrows
  BY <1>4 DEF CreateOutput, Put
<1>5. ASSUME NEW r \in RequestIds, NEW o \in OutputIds, NEW t \in Times, FinalizeRequest(r, o, t)
      PROVE  CoreGrows
  <2>1. Finalized(r, o)
    BY <1>5, FinalizeEffect
  <2>2. NULL \notin DOMAIN attempts
    BY IdAssumption DEF TypeOK
  <2> QED
    BY <2>1, <2>2 DEF Finalized
<1>6. ASSUME NEW i \in EvidenceIds, NEW x \in EvidenceRecords,
             RecordEvidence(i, x, FencingIds \cup {}), UNCHANGED fencingVars
      PROVE  CoreGrows
  BY <1>6 DEF RecordEvidence, fencingVars
<1>7. ASSUME NEW a \in AttemptIds, NEW succeeded \in BOOLEAN, CompleteAttempt(a, succeeded)
      PROVE  CoreGrows
  BY <1>3, <1>7 DEF CompleteAttempt, ExecutionStatus
<1> QED
  BY <1>1, <1>2, <1>3, <1>4, <1>5, <1>6, <1>7 DEF Next, AttemptStep

(* Nothing an event's handler would still do changes the core.  An         *)
(* observation is settled once both identifiers are taken and it either    *)
(* cannot complete the request any more or stumbles over an output that is *)
(* not its own.                                                            *)
ObservationSettled(e) ==
  /\ e.request \in DOMAIN requests /\ e.attempt \in DOMAIN attempts
  /\ Taken(e.evidence) /\ Taken(e.output)
  /\ \/ requests[e.request].current # e.attempt
     \/ e.output \in DOMAIN outputs => outputs[e.output] # TerminalOutputOf(e)

Settled(e) ==
  /\ e.kind = "REQUEST_CREATED" => Taken(e.request)
  /\ e.kind \in {"ATTEMPT_STARTED", "RETRY_STARTED"} => Taken(Attempted(e))
  /\ e.kind \in SuccessKinds \cup {"ATTEMPT_FAILED"} =>
       e.attempt \in DOMAIN attempts /\ attempts[e.attempt].execution \in TerminalExecution
  /\ e.kind \in ObservationKinds => ObservationSettled(e)

(* Whatever is settled stays settled.                                      *)
LEMMA SettledStays ==
  ASSUME IInv, [Next]_vars, NEW e, Settled(e)
  PROVE  Settled(e)'
<1>1. CoreGrows /\ Final /\ StoreWellFormed'
  BY GrowsStep, FinalStep, Inductive DEF IInv
<1>2. \A id : Taken(id) => Taken(id)'
  BY <1>1 DEF Taken, FencingIds, CoreGrows
<1>3. ObservationSettled(e) => ObservationSettled(e)'
  <2> SUFFICES ASSUME ObservationSettled(e)
               PROVE  ObservationSettled(e)'
    OBVIOUS
  <2>1. /\ e.request \in DOMAIN requests' /\ e.attempt \in DOMAIN attempts'
        /\ Taken(e.evidence)' /\ Taken(e.output)'
    BY <1>1, <1>2 DEF ObservationSettled, CoreGrows
  <2>2. CASE requests[e.request].current # e.attempt
    <3>1. requests'[e.request].current # e.attempt
      BY <1>1, <2>2 DEF ObservationSettled, CoreGrows
    <3> QED
      BY <2>1, <3>1 DEF ObservationSettled
  <2>3. CASE e.output \in DOMAIN outputs /\ outputs[e.output] # TerminalOutputOf(e)
    <3>1. outputs'[e.output] = outputs[e.output]
      BY <1>1, <2>3 DEF Final
    <3> QED
      BY <2>1, <2>3, <3>1 DEF ObservationSettled, TerminalOutputOf
  <2>4. CASE e.output \notin DOMAIN outputs
    <3>1. e.output \in DOMAIN requests \cup DOMAIN attempts \cup DOMAIN evidence
      BY <2>4 DEF ObservationSettled, Taken, FencingIds
    <3>2. e.output \in DOMAIN requests' \cup DOMAIN attempts' \cup DOMAIN evidence'
      BY <1>1, <3>1 DEF CoreGrows
    <3>3. e.output \notin DOMAIN outputs'
      BY <1>1, <3>2 DEF StoreWellFormed, FencingIds
    <3> QED
      BY <2>1, <3>3 DEF ObservationSettled
  <2> QED
    BY <2>2, <2>3, <2>4 DEF ObservationSettled
<1>4. e.attempt \in DOMAIN attempts /\ attempts[e.attempt].execution \in TerminalExecution
        => e.attempt \in DOMAIN attempts' /\ attempts'[e.attempt].execution \in TerminalExecution
  BY <1>1 DEF Final
<1> QED
  BY <1>2, <1>3, <1>4 DEF Settled, Attempted

(* What a repeated delivery's handler, and one whose event has changed the *)
(* core on this delivery, know of their calls.                             *)
HandlerKnows(operation, e, again) ==
  /\ again => e \in applied /\ operation # "running"
  /\ operation = "record_evidence" /\ ~again => e \notin applied
  /\ operation = "create_output" =>
       Taken(e.evidence) /\ (e \in applied /\ ~again => e.evidence \in DOMAIN evidence)
  /\ operation = "finalize_request" =>
       /\ Taken(e.evidence)
       /\ e.output \in DOMAIN outputs => outputs[e.output] = TerminalOutputOf(e)
       /\ e \in applied => Taken(e.output)

Busy(e) == todo # << >> /\ Head(todo).event = e /\ ~Head(todo).again

RepeatInv ==
  /\ \A e \in applied : Settled(e) \/ (e.kind \in ObservationKinds /\ Busy(e))
  /\ todo # << >> => HandlerKnows(Head(todo).operation, Head(todo).event, Head(todo).again)

(* A call whose handler repeats a delivery changes nothing.                *)
LEMMA RepeatedCall ==
  ASSUME AdapterInv, NEW operation \in Operations, NEW e \in Deliverable,
         NextCall(operation, e, TRUE), Settled(e), HandlerKnows(operation, e, TRUE),
         CoreCall(operation, e)
  PROVE  UNCHANGED coreVars
<1>1. TypeOK /\ IInv
  BY DEF AdapterInv, IInv
<1>2. \A id : Unique(id, {}) => ~Taken(id)
  BY DEF Taken, Unique
<1>3. CASE operation = "create_request"
  BY <1>2, <1>3 DEF CoreCall, CreateRequest, Settled, NextCall
<1>4. CASE operation = "start_attempt"
  BY <1>2, <1>4 DEF CoreCall, StartAttempt, MayStart, Settled, NextCall
<1>5. CASE operation = "running"
  BY <1>5 DEF HandlerKnows
<1>6. ASSUME NEW status, SetAttemptExecution(e.attempt, status), e.attempt \in DOMAIN attempts,
             attempts[e.attempt].execution \in TerminalExecution
      PROVE  UNCHANGED coreVars
  <2>1. status = attempts[e.attempt].execution
    BY <1>6 DEF SetAttemptExecution, MayReport, MayBecome
  <2>2. attempts' = attempts
    BY <1>1, <1>6, <2>1 DEF SetAttemptExecution, TypeOK, Attempt
  <2> QED
    BY <1>6, <2>2 DEF SetAttemptExecution, coreVars
<1>7. CASE operation \in {"succeed", "fail"}
  <2>1. \E status : SetAttemptExecution(e.attempt, status)
    BY <1>7 DEF CoreCall, CompleteAttempt
  <2> QED
    BY <1>6, <1>7, <2>1 DEF Settled, NextCall
<1>8. CASE operation = "record_evidence"
  BY <1>8 DEF CoreCall, RecordEvidence, MayRecord, NotYetRecorded, Settled, NextCall,
              ObservationSettled, Taken
<1>9. CASE operation = "create_output"
  BY <1>2, <1>9 DEF CoreCall, CreateOutput, MayCreateOutput, Settled, NextCall, ObservationSettled
<1>10. CASE operation = "finalize_request"
  <2>1. MayFinalize(e.request, e.output, now)
    BY <1>10 DEF CoreCall, FinalizeRequest
  <2>2. e.output \in DOMAIN outputs /\ outputs[e.output].attempt = requests[e.request].current
    BY <2>1 DEF MayFinalize
  <2>3. outputs[e.output] = TerminalOutputOf(e)
    BY <1>10, <2>2 DEF HandlerKnows
  <2>4. requests[e.request].current # e.attempt
    BY <1>10, <2>2, <2>3 DEF Settled, ObservationSettled, NextCall
  <2> QED
    BY <2>2, <2>3, <2>4 DEF TerminalOutputOf
<1> QED
  BY <1>3, <1>4, <1>5, <1>7, <1>8, <1>9, <1>10 DEF Operations

(* What an applied call of another event than an observation settles.      *)
LEMMA AppliedSettles ==
  ASSUME AdapterInv, NEW operation \in Operations, NEW e \in Deliverable, NEW again \in BOOLEAN,
         NextCall(operation, e, again), CoreCall(operation, e), e.kind \notin ObservationKinds
  PROVE  Settled(e)'
<1>1. TypeOK /\ e \in AdapterEvents
  BY DEF AdapterInv, IInv, Deliverable
<1>2. CASE operation = "create_request"
  <2>1. e.kind = "REQUEST_CREATED" /\ e.request \in DOMAIN requests'
    BY <1>2 DEF NextCall, CoreCall, CreateRequest, Put
  <2> QED
    BY <2>1 DEF Settled, Taken, FencingIds, SuccessKinds, ObservationKinds
<1>3. CASE operation = "start_attempt"
  <2>1. Attempted(e) \in DOMAIN attempts'
    BY <1>3 DEF CoreCall, StartAttempt, Put
  <2>2. e.kind \in {"ATTEMPT_STARTED", "RETRY_STARTED"}
    BY <1>3 DEF NextCall
  <2> QED
    BY <2>1, <2>2 DEF Settled, Taken, FencingIds, Attempted, SuccessKinds, ObservationKinds
<1>4. CASE operation = "running"
  <2>1. Attempted(e) \in DOMAIN attempts'
    BY <1>4 DEF CoreCall, SetAttemptExecution, MayReport
  <2>2. e.kind \in {"ATTEMPT_STARTED", "RETRY_STARTED"}
    BY <1>4 DEF NextCall
  <2> QED
    BY <2>1, <2>2 DEF Settled, Taken, FencingIds, Attempted, SuccessKinds, ObservationKinds
<1>5. CASE operation \in {"succeed", "fail"}
  <2>1. \E status \in TerminalExecution : SetAttemptExecution(e.attempt, status)
    BY <1>5 DEF CoreCall, CompleteAttempt, TerminalExecution
  <2>2. e.attempt \in DOMAIN attempts' /\ attempts'[e.attempt].execution \in TerminalExecution
    BY <1>1, <2>1 DEF SetAttemptExecution, MayReport, TypeOK, Attempt
  <2>3. e.kind \in SuccessKinds \cup {"ATTEMPT_FAILED"}
    BY <1>5 DEF NextCall
  <2> QED
    BY <2>2, <2>3 DEF Settled, SuccessKinds, ObservationKinds
<1> QED
  BY <1>2, <1>3, <1>4, <1>5 DEF NextCall, Operations

(* The core refuses Evidence of an observation only when its identifier is *)
(* taken.                                                                  *)
LEMMA RecordRefused ==
  ASSUME NEW e, ~CoreAccepts("record_evidence", e)
  PROVE  Taken(e.evidence)
<1>1. ~MayRecord(e.evidence, TerminalEvidence(e), FencingIds)
  BY DEF CoreAccepts
<1>2. DerivationAdmissible(TerminalEvidence(e))
  BY DEF DerivationAdmissible, TerminalEvidence, EXACT_OBSERVATION, DERIVED
<1> QED
  BY <1>1, <1>2 DEF MayRecord, NotYetRecorded, Taken

(* It refuses the Output of an observation of a success only when its      *)
(* identifier is taken or the Evidence is not there.                       *)
LEMMA CreateRefused ==
  ASSUME NEW e, ~CoreAccepts("create_output", e), e.attempt \in DOMAIN attempts,
         e.evidence \in DOMAIN evidence
  PROVE  Taken(e.output)
<1>1. ~MayCreateOutput(e.output, e.attempt, {e.evidence}, {})
  BY DEF CoreAccepts
<1> QED
  BY <1>1 DEF MayCreateOutput, EvidenceKnown, Unique, Taken

(* And it refuses to complete the request with the Output of an            *)
(* observation of a success only when the attempt has lost the request.    *)
LEMMA FinalizeRefused ==
  ASSUME AdapterInv, NEW e \in Deliverable, e.kind \in ObservationKinds, ObservesSuccess(e, now),
         e.evidence \in DOMAIN evidence => evidence[e.evidence] = TerminalEvidence(e),
         e.output \in DOMAIN outputs, outputs[e.output] = TerminalOutputOf(e),
         ~CoreAccepts("finalize_request", e)
  PROVE  requests[e.request].current # e.attempt
<1> SUFFICES ASSUME requests[e.request].current = e.attempt
             PROVE  MayFinalize(e.request, e.output, now)
  BY DEF CoreAccepts
<1>1. /\ outputs[e.output].attempt = e.attempt /\ outputs[e.output].terminal
      /\ outputs[e.output].evidence = {e.evidence}
  BY DEF TerminalOutputOf
<1>2. /\ e.attempt \in DOMAIN attempts /\ attempts[e.attempt].request = e.request
      /\ attempts[e.attempt].execution = "SUCCEEDED"
  BY DEF ObservesSuccess
<1>3. e.request \in DOMAIN requests /\ e.attempt # NULL
  BY <1>2, IdAssumption DEF AdapterInv, IInv, StoreWellFormed, TypeOK
<1>4. requests[e.request].status = "RUNNING"
  BY <1>3 DEF AdapterInv, IInv, CommitConsistent
<1>5. attempts[e.attempt].authority = "CURRENT"
  BY <1>2 DEF AdapterInv, IInv, AuthorityMatchesPointers
<1>6. e.evidence \in DOMAIN evidence
  BY <1>1 DEF AdapterInv, IInv, StoreWellFormed
<1>7. evidence[e.evidence] = TerminalEvidence(e)
  BY <1>6
<1>8. /\ evidence[e.evidence].status = "VALID" /\ evidence[e.evidence].authority = EXACT_OBSERVATION
      /\ evidence[e.evidence].until = NULL /\ evidence[e.evidence].key = NULL
      /\ evidence[e.evidence].scope = {<<"attempt", e.attempt>>}
  BY <1>7 DEF TerminalEvidence
<1>9. Presented({e.evidence}) = {e.evidence}
  BY <1>6 DEF Presented
<1>10. Usable(e.evidence, "finalize", now, NULL)
  BY <1>8 DEF Usable, RequiredAuthority, CorrectnessSensitive, EXACT_OBSERVATION
<1>11. RequireEvidence("finalize", {e.evidence}, now, FinalizeScope(e.attempt), NULL)
  <2>1. ~AnyAmbiguous({e.evidence})
    BY <1>8, <1>9 DEF AnyAmbiguous
  <2>2. ~ConflictingClaims("finalize", {e.evidence}, now, NULL)
    BY <1>9 DEF ConflictingClaims
  <2>3. e.evidence \in Good("finalize", {e.evidence}, now, FinalizeScope(e.attempt), NULL)
    BY <1>8, <1>9, <1>10 DEF Good, FinalizeScope
  <2> QED
    BY <2>1, <2>2, <2>3 DEF RequireEvidence
<1> QED
  BY <1>1, <1>2, <1>3, <1>4, <1>5, <1>11 DEF MayFinalize, TerminalSuccess, TerminalRequest

(* How a call may end: it is applied, or rejected, or skipped because what *)
(* it would create exists.                                                 *)
CallEnds(operation, e) ==
  \/ /\ ~Exists(operation, e) /\ CoreCall(operation, e)
     /\ applied' = IF coreVars' = coreVars THEN applied ELSE applied \cup {e}
     /\ todo' = Tail(todo)
  \/ /\ ~Exists(operation, e) /\ ~CoreAccepts(operation, e)
     /\ UNCHANGED <<coreVars, applied>>
     /\ todo' = IF operation = "start_attempt" THEN << >> ELSE Tail(todo)
  \/ /\ Exists(operation, e)
     /\ UNCHANGED <<coreVars, applied>>
     /\ todo' = IF Expected(operation, e) THEN Tail(todo) ELSE << >>

LEMMA CallEndsSo ==
  ASSUME NEW operation, NEW e, NEW again, Head(todo) = CallOf(operation, e, again),
         CallApplied(Head(todo)) \/ CallRejected(Head(todo)) \/ CallSkipped(Head(todo))
  PROVE  CallEnds(operation, e)
<1> DEFINE call == CallOf(operation, e, again)
<1>1. call.operation = operation /\ call.event = e
  BY DEF CallOf
<1>2. CallApplied(call) \/ CallRejected(call) \/ CallSkipped(call)
  OBVIOUS
<1> HIDE DEF call
<1>3. CASE CallApplied(call)
  BY <1>1, <1>3, Zenon DEF CallApplied, CallEnds
<1>4. CASE CallRejected(call)
  BY <1>1, <1>4 DEF CallRejected, CallEnds
<1>5. CASE CallSkipped(call)
  BY <1>1, <1>5 DEF CallSkipped, CallEnds
<1> QED
  BY <1>2, <1>3, <1>4, <1>5

(* The first call of the handlers that make one or two.                    *)
LEMMA HeadOfTuple ==
  \A x, y, z : Head(<<x>>) = x /\ Head(<<x, y>>) = x /\ Head(<<x, y, z>>) = x
OBVIOUS

(* Every call keeps what is known of repeated deliveries, and one of a     *)
(* repeated delivery leaves the core alone.                                *)
LEMMA RepeatCallStep ==
  ASSUME AdapterInv, RepeatInv, todo # << >>,
         CallApplied(Head(todo)) \/ CallRejected(Head(todo)) \/ CallSkipped(Head(todo))
  PROVE  RepeatInv' /\ (Head(todo).again => UNCHANGED coreVars)
<1>1. PICK operation \in Operations, e \in Deliverable, again \in BOOLEAN :
        Head(todo) = CallOf(operation, e, again) /\ NextCall(operation, e, again)
  BY RunningHasCall DEF AdapterInv
<1>2. Head(todo).operation = operation /\ Head(todo).event = e /\ Head(todo).again = again
  BY <1>1 DEF CallOf
<1>3. CallEnds(operation, e)
  BY <1>1, CallEndsSo
<1>4. [Next]_vars
  <2>1. CASE CoreCall(operation, e)
    BY <1>1, <2>1, CallIsStep
  <2>2. CASE UNCHANGED coreVars
    BY <2>2 DEF coreVars, vars
  <2> QED
    BY <1>3, <2>1, <2>2 DEF CallEnds
<1>5. HandlerKnows(operation, e, again)
  BY <1>2 DEF RepeatInv
<1>6. \A x \in applied : \/ Settled(x)
                         \/ x = e /\ ~again /\ e.kind \in ObservationKinds
  BY <1>2 DEF RepeatInv, Busy
<1>7. \A x \in applied : Settled(x) => Settled(x)'
  BY <1>4, SettledStays DEF AdapterInv
<1>8. again => UNCHANGED coreVars
  <2> SUFFICES ASSUME again = TRUE, CoreCall(operation, e)
               PROVE  UNCHANGED coreVars
    BY <1>3 DEF CallEnds
  <2>1. Settled(e) /\ HandlerKnows(operation, e, TRUE) /\ NextCall(operation, e, TRUE)
    BY <1>1, <1>5, <1>6 DEF HandlerKnows
  <2> QED
    BY <2>1, RepeatedCall
<1>9. \A id : Taken(id) => Taken(id)'
  <2>1. CoreGrows
    BY <1>4, GrowsStep DEF AdapterInv
  <2> QED
    BY <2>1 DEF CoreGrows, Taken, FencingIds
<1>10. /\ applied' = applied \/ applied' = applied \cup {e}
       /\ applied' # applied => CoreCall(operation, e) /\ ~again
  BY <1>3, <1>8 DEF CallEnds
<1>11. CASE todo' = << >>
  <2>1. ASSUME NEW x \in applied'
        PROVE  Settled(x)'
    <3>1. CASE x \in applied /\ Settled(x)
      BY <1>7, <3>1
    <3>2. CASE x = e /\ e.kind \notin ObservationKinds /\ CoreCall(operation, e)
      BY <1>1, <3>2, AppliedSettles
    <3>3. CASE x = e /\ ~again /\ e.kind \in ObservationKinds
      <4>0. /\ ObservesSuccess(e, now)
            /\ operation \in {"record_evidence", "create_output", "finalize_request"}
            /\ operation # "record_evidence" =>
                 (e.evidence \in DOMAIN evidence => evidence[e.evidence] = TerminalEvidence(e))
        BY <1>1, <3>3 DEF NextCall, SuccessKinds, ObservationKinds
      <4>1. /\ e.attempt \in DOMAIN attempts /\ attempts[e.attempt].request = e.request
            /\ e.request \in DOMAIN requests
        BY <4>0 DEF ObservesSuccess, AdapterInv, IInv, StoreWellFormed
      <4>2. CASE operation = "record_evidence"
        <5>1. Tail(todo) # << >>
          BY <1>1, <4>2 DEF NextCall
        <5>2. UNCHANGED applied
          BY <1>3, <1>11, <4>2, <5>1 DEF CallEnds
        <5> QED
          BY <1>5, <3>3, <2>1, <4>2, <5>2 DEF HandlerKnows
      <4>3. CASE operation = "create_output"
        <5>1. Tail(todo) # << >>
          BY <1>1, <4>3 DEF NextCall
        <5>2. Exists(operation, e) /\ ~Expected(operation, e) /\ UNCHANGED <<coreVars, applied>>
          BY <1>3, <1>11, <4>3, <5>1 DEF CallEnds
        <5>3. e.output \in DOMAIN outputs /\ outputs[e.output] # TerminalOutputOf(e)
          BY <4>3, <5>2 DEF Exists, Expected
        <5>4. ObservationSettled(e)
          BY <1>5, <4>1, <4>3, <5>3 DEF ObservationSettled, HandlerKnows, Taken, FencingIds
        <5>5. Settled(e)
          BY <3>3, <5>4 DEF Settled, SuccessKinds, ObservationKinds
        <5> QED
          BY <1>4, <3>3, <5>5, SettledStays DEF AdapterInv
      <4>4. CASE operation = "finalize_request" /\ CoreCall(operation, e)
        <5>1. FinalizeRequest(e.request, e.output, now)
          BY <4>4 DEF CoreCall
        <5>2. e.output \in DOMAIN outputs /\ requests'[e.request].current = NULL
              /\ DOMAIN requests' = DOMAIN requests /\ DOMAIN attempts' = DOMAIN attempts
          BY <4>1, <5>1 DEF FinalizeRequest, MayFinalize, AdapterInv, IInv, TypeOK, LogicalRequest
        <5>3. e.attempt # NULL
          BY <4>1, IdAssumption DEF AdapterInv, IInv, TypeOK
        <5>4. Taken(e.evidence)' /\ Taken(e.output)'
          BY <1>5, <1>9, <4>4, <5>2 DEF HandlerKnows, Taken, FencingIds
        <5>5. ObservationSettled(e)'
          BY <4>1, <5>2, <5>3, <5>4 DEF ObservationSettled
        <5> QED
          BY <3>3, <5>5 DEF Settled, SuccessKinds, ObservationKinds
      <4>5. CASE operation = "finalize_request" /\ ~CoreAccepts(operation, e)
                   /\ UNCHANGED <<coreVars, applied>>
        <5>1. e \in applied /\ Taken(e.evidence) /\ Taken(e.output)
          BY <1>5, <2>1, <3>3, <4>5 DEF HandlerKnows
        <5>2. e.output \in DOMAIN outputs => requests[e.request].current # e.attempt
          BY <1>5, <3>3, <4>0, <4>5, FinalizeRefused DEF HandlerKnows
        <5>3. ObservationSettled(e)
          BY <4>1, <5>1, <5>2 DEF ObservationSettled
        <5>4. Settled(e)
          BY <3>3, <5>3 DEF Settled, SuccessKinds, ObservationKinds
        <5> QED
          BY <1>4, <3>3, <5>4, SettledStays DEF AdapterInv
      <4> QED
        BY <1>3, <4>0, <4>2, <4>3, <4>4, <4>5 DEF CallEnds, Exists
    <3> QED
      BY <1>6, <1>10, <2>1, <3>1, <3>2, <3>3
  <2> QED
    BY <1>2, <1>8, <1>11, <2>1 DEF RepeatInv
<1>12. CASE todo' # << >>
  <2> DEFINE next(op) == Head(todo)' = CallOf(op, e, again) /\ HandlerKnows(op, e, again)'
  <2>1. \E op \in Operations : Head(todo)' = CallOf(op, e, again) /\ HandlerKnows(op, e, again)'
    <3>1. CASE operation = "start_attempt"
      <4>1. Tail(todo) = <<CallOf("running", e, again)>>
        BY <1>1, <3>1 DEF NextCall
      <4>2. CoreCall(operation, e) /\ todo' = Tail(todo)
        BY <1>3, <1>12, <3>1 DEF CallEnds, Exists
      <4>3. ~again
        <5>1. coreVars' # coreVars
          <6>1. Attempted(e) \notin DOMAIN attempts /\ Attempted(e) \in DOMAIN attempts'
            BY <3>1, <4>2 DEF CoreCall, StartAttempt, MayStart, Unique, FencingIds, Put
          <6> QED
            BY <6>1 DEF coreVars
        <5> QED
          BY <1>8, <5>1
      <4>4. Head(todo') = CallOf("running", e, again)
        BY <4>1, <4>2, HeadOfTuple, Zenon
      <4> QED
        BY <4>3, <4>4 DEF HandlerKnows, Operations
    <3>2. CASE operation = "record_evidence"
      <4>1. /\ Tail(todo) = <<CallOf("create_output", e, again), CallOf("finalize_request", e, again)>>
            /\ todo' = Tail(todo)
        BY <1>1, <1>3, <1>12, <3>2 DEF NextCall, CallEnds
      <4>2. Head(todo') = CallOf("create_output", e, again)
        BY <4>1, HeadOfTuple, Zenon
      <4>3. CASE CoreCall(operation, e)
        <5>1. e.evidence \in DOMAIN evidence'
          BY <3>2, <4>3 DEF CoreCall, RecordEvidence
        <5> QED
          BY <1>5, <1>10, <4>2, <5>1 DEF HandlerKnows, Taken, Operations
      <4>4. CASE UNCHANGED <<coreVars, applied>>
                   /\ (~CoreAccepts(operation, e) \/ Exists(operation, e))
        <5>1. Taken(e.evidence)
          BY <3>2, <4>4, RecordRefused DEF Exists, Taken
        <5>2. ~again => e \notin applied
          BY <1>5, <3>2 DEF HandlerKnows
        <5> QED
          BY <1>5, <1>9, <4>2, <4>4, <5>1, <5>2 DEF HandlerKnows, Operations
      <4> QED
        BY <1>3, <4>3, <4>4 DEF CallEnds
    <3>3. CASE operation = "create_output"
      <4>1. /\ Tail(todo) = <<CallOf("finalize_request", e, again)>> /\ todo' = Tail(todo)
            /\ e.kind \in ObservationKinds /\ ObservesSuccess(e, now)
        BY <1>1, <1>3, <1>12, <3>3 DEF NextCall, CallEnds
      <4>2. Head(todo') = CallOf("finalize_request", e, again)
        BY <4>1, HeadOfTuple, Zenon
      <4>3. Taken(e.evidence)'
        BY <1>5, <1>9, <3>3 DEF HandlerKnows
      <4>4. again => e \in applied'
        BY <1>5, <1>10 DEF HandlerKnows
      <4>5. /\ e.output \in DOMAIN outputs' => outputs'[e.output] = TerminalOutputOf(e)
            /\ e \in applied' => Taken(e.output)'
        <5>1. CASE CoreCall(operation, e)
          <6>1. outputs' = Put(outputs, e.output, TerminalOutputOf(e))
            BY <3>3, <5>1 DEF CoreCall, CreateOutput, TerminalOutputOf
          <6> QED
            BY <6>1 DEF Put, Taken, FencingIds
        <5>2. CASE UNCHANGED <<coreVars, applied>> /\ Exists(operation, e)
          <6>1. e.output \in DOMAIN outputs /\ outputs[e.output] = TerminalOutputOf(e)
            <7>1. Expected(operation, e)
              BY <1>3, <1>12, <5>2 DEF CallEnds
            <7> QED
              BY <3>3, <5>2, <7>1 DEF Exists, Expected
          <6> QED
            BY <1>9, <5>2, <6>1 DEF Taken, FencingIds, coreVars
        <5>3. CASE UNCHANGED <<coreVars, applied>> /\ ~Exists(operation, e)
                     /\ ~CoreAccepts(operation, e)
          <6>1. e.output \notin DOMAIN outputs
            BY <3>3, <5>3 DEF Exists
          <6>2. e \in applied => Taken(e.output)
            <7>1. CASE Settled(e)
              BY <4>1, <7>1 DEF Settled, ObservationSettled
            <7>2. CASE e \in applied /\ ~again
              <8>1. e.evidence \in DOMAIN evidence /\ e.attempt \in DOMAIN attempts
                BY <1>5, <3>3, <4>1, <7>2 DEF HandlerKnows, ObservesSuccess
              <8> QED
                BY <3>3, <5>3, <8>1, CreateRefused
            <7> QED
              BY <1>6, <7>1, <7>2
          <6> QED
            BY <1>9, <5>3, <6>1, <6>2 DEF coreVars
        <5> QED
          BY <1>3, <5>1, <5>2, <5>3 DEF CallEnds
      <4> QED
        BY <4>2, <4>3, <4>4, <4>5 DEF HandlerKnows, Operations
    <3>4. CASE operation \notin {"start_attempt", "record_evidence", "create_output"}
      <4>1. Tail(todo) = << >>
        BY <1>1, <3>4 DEF NextCall
      <4> QED
        BY <1>3, <1>12, <3>4, <4>1 DEF CallEnds, Exists
    <3> QED
      BY <3>1, <3>2, <3>3, <3>4
  <2>2. PICK op \in Operations : Head(todo)' = CallOf(op, e, again) /\ HandlerKnows(op, e, again)'
    BY <2>1
  <2>3. Head(todo').operation = op /\ Head(todo').event = e /\ Head(todo').again = again
    BY <2>2 DEF CallOf
  <2>4. ASSUME NEW x \in applied'
        PROVE  Settled(x)' \/ (x.kind \in ObservationKinds /\ Busy(x)')
    <3>1. CASE x \in applied /\ Settled(x)
      BY <1>7, <3>1
    <3>2. CASE x = e /\ e.kind \notin ObservationKinds /\ CoreCall(operation, e)
      BY <1>1, <3>2, AppliedSettles
    <3>3. CASE x = e /\ ~again /\ e.kind \in ObservationKinds
      BY <1>12, <2>3, <3>3 DEF Busy
    <3> QED
      BY <1>6, <1>10, <2>4, <3>1, <3>2, <3>3
  <2> QED
    BY <1>2, <1>8, <2>2, <2>3, <2>4 DEF RepeatInv
<1> QED
  BY <1>2, <1>8, <1>11, <1>12

(* The first call of a handler is not the last of an observation's, and    *)
(* the handler of a success always makes one.                              *)
LEMMA DeliveryHead ==
  ASSUME NEW e \in Deliverable, Deliver(e)
  PROVE  /\ e.kind \in SuccessKinds => todo' # << >>
         /\ todo' # << >> =>
              \E operation \in {"create_request", "start_attempt", "succeed", "fail",
                               "record_evidence"} :
                Head(todo') = CallOf(operation, e, e \in applied)
<1>1. PICK t \in now..MaxTime : todo' = Calls(e, OperationsOf(e, t))
  BY DEF Deliver
<1>2. e.kind # "ATTEMPT_TIMEOUT" /\ e \in AdapterEvents
  BY DEF Deliver, Deliverable
<1>3. OperationsOf(e, t) \in {<< >>, <<"create_request">>, <<"start_attempt", "running">>,
        <<"succeed">>, <<"fail">>, <<"record_evidence", "create_output", "finalize_request">>}
  BY <1>2, EventFields DEF OperationsOf, SuccessKinds, ObservationKinds
<1>4. ASSUME NEW x
      PROVE  Head(Calls(e, <<x>>)) = CallOf(x, e, e \in applied)
  <2>1. Calls(e, <<x>>) = <<CallOf(x, e, e \in applied)>>
    BY CallsWritten, Zenon
  <2> QED
    BY <2>1, HeadOfTuple, Zenon
<1>5. ASSUME NEW x, NEW y
      PROVE  Head(Calls(e, <<x, y>>)) = CallOf(x, e, e \in applied)
  <2>1. Calls(e, <<x, y>>)
          = <<CallOf(x, e, e \in applied), CallOf(y, e, e \in applied)>>
    BY CallsWritten, Zenon
  <2> QED
    BY <2>1, HeadOfTuple, Zenon
<1>6. ASSUME NEW x, NEW y, NEW z
      PROVE  Head(Calls(e, <<x, y, z>>)) = CallOf(x, e, e \in applied)
  <2>1. Calls(e, <<x, y, z>>)
          = <<CallOf(x, e, e \in applied), CallOf(y, e, e \in applied),
              CallOf(z, e, e \in applied)>>
    BY CallsWritten, Zenon
  <2> QED
    BY <2>1
<1>7. Calls(e, << >>) = << >>
  BY CallsWritten
<1>8. ASSUME todo' # << >>
      PROVE  \E operation \in {"create_request", "start_attempt", "succeed", "fail",
                              "record_evidence"} :
               Head(todo') = CallOf(operation, e, e \in applied)
  <2>1. CASE OperationsOf(e, t) = << >>
    BY <1>1, <1>7, <1>8, <2>1
  <2>2. CASE OperationsOf(e, t) = <<"create_request">>
    BY <1>1, <1>4, <2>2, Zenon
  <2>3. CASE OperationsOf(e, t) = <<"start_attempt", "running">>
    BY <1>1, <1>5, <2>3, Zenon
  <2>4. CASE OperationsOf(e, t) = <<"succeed">>
    BY <1>1, <1>4, <2>4, Zenon
  <2>5. CASE OperationsOf(e, t) = <<"fail">>
    BY <1>1, <1>4, <2>5, Zenon
  <2>6. CASE OperationsOf(e, t) = <<"record_evidence", "create_output", "finalize_request">>
    BY <1>1, <1>6, <2>6, Zenon
  <2> QED
    BY <1>3, <2>1, <2>2, <2>3, <2>4, <2>5, <2>6
<1>9. ASSUME e.kind \in SuccessKinds
      PROVE  todo' # << >>
  <2>1. OperationsOf(e, t) = <<"succeed">>
    <3>1. e.kind = "ATTEMPT_COMPLETED" \/ e.kind = "LATE_RESULT"
      BY <1>9 DEF SuccessKinds
    <3>2. CASE e.kind = "ATTEMPT_COMPLETED"
      BY <3>2 DEF OperationsOf, SuccessKinds, ObservationKinds
    <3>3. CASE e.kind = "LATE_RESULT"
      BY <3>3 DEF OperationsOf, SuccessKinds, ObservationKinds
    <3> QED
      BY <3>1, <3>2, <3>3
  <2>2. Calls(e, <<"succeed">>) = <<CallOf("succeed", e, e \in applied)>>
    BY CallsWritten, Zenon
  <2> QED
    BY <1>1, <2>1, <2>2
<1> QED
  BY <1>8, <1>9

(* A delivery knows whether its event has changed the core before.         *)
LEMMA RepeatDelivery ==
  ASSUME AdapterInv, RepeatInv, NEW e \in Deliverable, Deliver(e) \/ DeliverTimeout(e)
  PROVE  RepeatInv'
<1>1. todo = << >> /\ UNCHANGED <<coreVars, applied>>
  BY DEF Deliver, DeliverTimeout
<1>2. \A x \in applied : Settled(x)
  BY <1>1 DEF RepeatInv, Busy
<1>3. \A x \in applied : Settled(x)'
  <2>1. [Next]_vars
    BY <1>1 DEF coreVars, vars
  <2> QED
    BY <1>2, <2>1, SettledStays DEF AdapterInv
<1>4. CASE todo' = << >>
  BY <1>1, <1>3, <1>4 DEF RepeatInv
<1>5. CASE Deliver(e) /\ todo' # << >>
  <2>1. PICK operation \in {"create_request", "start_attempt", "succeed", "fail",
                            "record_evidence"} :
          Head(todo') = CallOf(operation, e, e \in applied)
    BY <1>5, DeliveryHead
  <2>2. /\ Head(todo').operation = operation /\ Head(todo').event = e
        /\ Head(todo').again = (e \in applied)
    BY <2>1 DEF CallOf
  <2>3. HandlerKnows(operation, e, e \in applied)'
    BY <1>1, <2>1 DEF HandlerKnows
  <2> QED
    BY <1>1, <1>3, <2>2, <2>3 DEF RepeatInv
<1> QED
  BY <1>4, <1>5 DEF DeliverTimeout, Deliver

(* What is known of repeated deliveries holds in every reachable state.    *)
LEMMA RepeatStep == LinkInv /\ RepeatInv /\ [LinkedNext]_linkVars => RepeatInv'
<1> SUFFICES ASSUME LinkInv, RepeatInv, [LinkedNext]_linkVars
             PROVE  RepeatInv'
  OBVIOUS
<1>1. AdapterInv /\ \A i \in DOMAIN faults : faults[i].event \in Deliverable
  <2>1. AdapterInv /\ \A i \in DOMAIN faults : faults[i] \in FaultRecords
    BY DEF LinkInv
  <2> QED
    BY <2>1 DEF FaultRecords
<1>2. ASSUME UNCHANGED adapterVars
      PROVE  RepeatInv'
  <2>1. UNCHANGED <<requests, attempts, outputs, evidence, applied, todo>>
    BY <1>2 DEF adapterVars, coreVars
  <2> QED
    BY <2>1
       DEF RepeatInv, Settled, ObservationSettled, Taken, FencingIds, HandlerKnows, Busy,
           Attempted
<1>3. ASSUME NEW e \in Script \cup retries, Deliver(e) \/ DeliverTimeout(e)
      PROVE  RepeatInv'
  <2>1. e \in Deliverable
    BY <1>1, AdapterAssumption DEF AdapterInv, Deliverable
  <2> QED
    BY <1>1, <1>3, <2>1, RepeatDelivery
<1>4. ASSUME NEW i \in DOMAIN faults, DeliverFault(i)
      PROVE  RepeatInv'
  <2>1. Deliver(faults[i].event) \/ DeliverTimeout(faults[i].event)
    BY <1>4 DEF DeliverFault
  <2> QED
    BY <1>1, <2>1, RepeatDelivery
<1>5. CASE LinkedCall
  <2>1. todo # << >>
        /\ (CallApplied(Head(todo)) \/ CallRejected(Head(todo)) \/ CallSkipped(Head(todo)))
    BY <1>5, Zenon DEF LinkedCall
  <2> QED
    BY <1>1, <2>1, RepeatCallStep
<1> QED
  BY <1>2, <1>3, <1>4, <1>5
     DEF LinkedNext, InjectAttemptTimeout, InjectLateAttemptResult,
         InjectStaleAttemptObservation, Injected, Disturb, linkVars

(* Deliveries are idempotent (_apply, semantic_adapter.py): once an event  *)
(* has changed the core, the calls of its later deliveries find their      *)
(* identifiers taken, their attempt ended or out of authority, or an       *)
(* output that is not theirs, whatever has been delivered in between.      *)
THEOREM RepeatsAreIdempotent == LinkedSpec => RepeatsChangeNothing
<1>1. LinkedInit => RepeatInv
  BY DEF LinkedInit, AdapterInit, RepeatInv
<1>2. LinkedSpec => []RepeatInv
  BY <1>1, RepeatStep, LinkInvariant, PTL DEF LinkedSpec
<1> DEFINE Repeats == todo # << >> /\ Head(todo).again => UNCHANGED coreVars
<1>3. LinkInv /\ RepeatInv /\ [LinkedNext]_linkVars => [Repeats]_adapterVars
  <2> SUFFICES ASSUME LinkInv, RepeatInv, [LinkedNext]_linkVars, todo # << >>, Head(todo).again
               PROVE  UNCHANGED coreVars
    OBVIOUS
  <2>1. CASE LinkedCall
    <3>1. CallApplied(Head(todo)) \/ CallRejected(Head(todo)) \/ CallSkipped(Head(todo))
      BY <2>1, Zenon DEF LinkedCall
    <3> QED
      BY <3>1, RepeatCallStep DEF LinkInv
  <2>2. CASE UNCHANGED coreVars
    BY <2>2
  <2> QED
    BY <2>1, <2>2
       DEF LinkedNext, InjectAttemptTimeout, InjectLateAttemptResult,
           InjectStaleAttemptObservation, Injected, DeliverFault, Disturb, Deliver,
           DeliverTimeout, linkVars, adapterVars
<1> QED
  BY <1>2, <1>3, LinkInvariant, PTL DEF LinkedSpec, RepeatsChangeNothing

---------------------------------------------------------------------------
(* The faults.  What a record says of the event it has produced or         *)
(* replaced: the event of a timeout, or one about an attempt that had lost *)
(* its authority when the fault was injected and so has lost it for good.  *)
CarriesSo(f) ==
  /\ f.carries = "ATTEMPT_TIMEOUT" =>
       f.event.kind = "ATTEMPT_TIMEOUT" /\ f.event.request \in DOMAIN requests
  /\ f.carries = "LATE_ATTEMPT_RESULT" => f.event.kind = "LATE_RESULT"
  /\ f.carries = "STALE_ATTEMPT_OBSERVATION" => f.event.kind \in ObservationKinds
  /\ f.carries # "ATTEMPT_TIMEOUT" => IsSuperseded(f.event.attempt)
  /\ f.class = "DELIVERY_DROP" => f.produced = "none"

(* The outcomes of a delivery that has been handled.  Those of a late      *)
(* result go with the execution of the attempt, now and later.             *)
EndedSo(f) ==
  /\ f.carries = "ATTEMPT_TIMEOUT" => f.outcomes \in {{"APPLIED"}, {"IGNORED"}}
  /\ f.carries = "STALE_ATTEMPT_OBSERVATION" => "REJECTED" \in f.outcomes
  /\ f.carries = "LATE_ATTEMPT_RESULT" =>
       \/ /\ f.outcomes \in {{"APPLIED"}, {"IDEMPOTENT"}}
          /\ attempts[f.event.attempt].execution = "SUCCEEDED"
       \/ /\ f.outcomes = {"REJECTED"}
          /\ attempts[f.event.attempt].execution \in TerminalExecution \ {"SUCCEEDED"}

(* And of one that is being handled: the calls it has still to make are    *)
(* its event's, and an observation is about to complete the request only   *)
(* with an Output of its own attempt, or has been rejected before.         *)
UnderWay(f) ==
  /\ f.produced = "delivered" /\ Head(todo).event = f.event
  /\ f.carries # "ATTEMPT_TIMEOUT"
  /\ f.carries = "LATE_ATTEMPT_RESULT" => f.outcomes = {}
  /\ f.carries = "STALE_ATTEMPT_OBSERVATION" /\ Head(todo).operation = "finalize_request" =>
       \/ "REJECTED" \in f.outcomes
       \/ f.event.output \in DOMAIN outputs /\ outputs[f.event.output].attempt = f.event.attempt

FaultInv ==
  /\ \A i \in DOMAIN faults :
       /\ CarriesSo(faults[i])
       /\ faults[i].produced = "delivered" /\ i # running => EndedSo(faults[i])
  /\ running # 0 => running \in DOMAIN faults /\ todo # << >> /\ UnderWay(faults[running])

(* A copy is about the attempt of the event it copies, and of its kind.    *)
LEMMA CopySame ==
  ASSUME NEW e \in Deliverable
  PROVE  \/ CopyOf(e) = e
         \/ /\ e.kind \in ObservationKinds /\ CopyOf(e).kind \in ObservationKinds
            /\ CopyOf(e).attempt = e.attempt
<1>1. CASE e.kind # "OBSERVATION_CREATED"
  BY <1>1 DEF CopyOf
<1>2. CASE e.kind = "OBSERVATION_CREATED"
  <2>1. e \in [kind : ObservationKinds, request : RequestIds, attempt : AttemptIds,
               evidence : EvidenceIds, output : OutputIds, observed : 0..MaxTime]
    BY <1>2 DEF Deliverable, AdapterEvents, SuccessKinds, ObservationKinds
  <2> QED
    BY <1>2, <2>1 DEF CopyOf, ObservationKinds
<1> QED
  BY <1>1, <1>2

(* No step of the core takes back what a record says.                      *)
LEMMA RecordStays ==
  ASSUME IInv, [Next]_vars, NEW f \in FaultRecords, CarriesSo(f)
  PROVE  CarriesSo(f)' /\ (EndedSo(f) => EndedSo(f)')
<1>1. Final /\ CoreGrows
  BY FinalStep, GrowsStep
<1>2. CarriesSo(f)'
  BY <1>1 DEF CarriesSo, IsSuperseded, Final, CoreGrows
<1>3. ASSUME EndedSo(f)
      PROVE  EndedSo(f)'
  <2>1. CASE f.carries = "LATE_ATTEMPT_RESULT"
    <3>1. f.event.attempt \in DOMAIN attempts
      BY <2>1 DEF CarriesSo, IsSuperseded
    <3> QED
      BY <1>1, <1>3, <2>1, <3>1 DEF EndedSo, Final, TerminalExecution
  <2>2. CASE f.carries # "LATE_ATTEMPT_RESULT"
    BY <1>3, <2>2 DEF EndedSo
  <2> QED
    BY <2>1, <2>2
<1> QED
  BY <1>2, <1>3

(* The outcome that is noted of a call.                                    *)
CallNoted(operation, e, again, outcome) ==
  \/ /\ ~Exists(operation, e) /\ CoreCall(operation, e)
     /\ todo' = Tail(todo)
     /\ outcome = IF coreVars' = coreVars THEN "IDEMPOTENT" ELSE "APPLIED"
  \/ /\ ~Exists(operation, e) /\ ~CoreAccepts(operation, e)
     /\ UNCHANGED coreVars
     /\ todo' = IF operation = "start_attempt" THEN << >> ELSE Tail(todo)
     /\ outcome = IF CommittedAlready(CallOf(operation, e, again)) THEN "IDEMPOTENT"
                                                                   ELSE "REJECTED"
  \/ /\ Exists(operation, e)
     /\ UNCHANGED coreVars
     /\ todo' = IF Expected(operation, e) THEN Tail(todo) ELSE << >>
     /\ outcome = IF Expected(operation, e) THEN "IDEMPOTENT" ELSE "REJECTED"

LEMMA CallIsNoted ==
  ASSUME LinkedCall, NEW operation, NEW e, NEW again, Head(todo) = CallOf(operation, e, again)
  PROVE  \E outcome \in Outcomes : CallNoted(operation, e, again, outcome) /\ Noted(outcome)
<1> DEFINE call == CallOf(operation, e, again)
<1>1. call.operation = operation /\ call.event = e
  BY DEF CallOf
<1>2. \/ CallApplied(call) /\ Noted(IF coreVars' = coreVars THEN "IDEMPOTENT" ELSE "APPLIED")
      \/ CallRejected(call) /\ Noted(IF CommittedAlready(call) THEN "IDEMPOTENT" ELSE "REJECTED")
      \/ CallSkipped(call) /\ Noted(IF Expected(call.operation, call.event) THEN "IDEMPOTENT"
                                                                            ELSE "REJECTED")
  BY Zenon DEF LinkedCall
<1>3. \A outcome : CallNoted(operation, e, again, outcome) =
        (\/ /\ ~Exists(operation, e) /\ CoreCall(operation, e)
            /\ todo' = Tail(todo)
            /\ outcome = IF coreVars' = coreVars THEN "IDEMPOTENT" ELSE "APPLIED"
         \/ /\ ~Exists(operation, e) /\ ~CoreAccepts(operation, e)
            /\ UNCHANGED coreVars
            /\ todo' = IF operation = "start_attempt" THEN << >> ELSE Tail(todo)
            /\ outcome = IF CommittedAlready(call) THEN "IDEMPOTENT" ELSE "REJECTED"
         \/ /\ Exists(operation, e)
            /\ UNCHANGED coreVars
            /\ todo' = IF Expected(operation, e) THEN Tail(todo) ELSE << >>
            /\ outcome = IF Expected(operation, e) THEN "IDEMPOTENT" ELSE "REJECTED")
  BY DEF CallNoted
<1> HIDE DEF call
<1>4. CASE CallApplied(call) /\ Noted(IF coreVars' = coreVars THEN "IDEMPOTENT" ELSE "APPLIED")
  <2> DEFINE outcome == IF coreVars' = coreVars THEN "IDEMPOTENT" ELSE "APPLIED"
  <2>1. outcome \in Outcomes
    BY DEF Outcomes
  <2>2. CallNoted(operation, e, again, outcome)
    BY <1>1, <1>3, <1>4, Zenon DEF CallApplied
  <2> QED
    BY <1>4, <2>1, <2>2, Zenon
<1>5. CASE CallRejected(call) /\ Noted(IF CommittedAlready(call) THEN "IDEMPOTENT" ELSE "REJECTED")
  <2> DEFINE outcome == IF CommittedAlready(call) THEN "IDEMPOTENT" ELSE "REJECTED"
  <2>1. outcome \in Outcomes
    BY DEF Outcomes
  <2>2. CallNoted(operation, e, again, outcome)
    BY <1>1, <1>3, <1>5, Zenon DEF CallRejected
  <2> QED
    BY <1>5, <2>1, <2>2, Zenon
<1>6. CASE CallSkipped(call) /\ Noted(IF Expected(call.operation, call.event) THEN "IDEMPOTENT"
                                                                              ELSE "REJECTED")
  <2> DEFINE outcome == IF Expected(operation, e) THEN "IDEMPOTENT" ELSE "REJECTED"
  <2>1. outcome \in Outcomes
    BY DEF Outcomes
  <2>2. CallNoted(operation, e, again, outcome)
    BY <1>1, <1>3, <1>6, Zenon DEF CallSkipped
  <2> QED
    BY <1>1, <1>6, <2>1, <2>2, Zenon
<1> QED
  BY <1>2, <1>4, <1>5, <1>6

(* A late result ends with one call, which goes as the execution says.     *)
LEMMA LateVerdict ==
  ASSUME AdapterInv, NEW operation \in Operations, NEW e \in Deliverable, NEW again,
         NextCall(operation, e, again), NEW outcome, CallNoted(operation, e, again, outcome),
         NEW f \in FaultRecords, CarriesSo(f), f.carries = "LATE_ATTEMPT_RESULT",
         f.outcomes = {}, f.event = e
  PROVE  /\ todo' = << >>
         /\ EndedSo([f EXCEPT !.outcomes = @ \cup {outcome}])'
<1>1. e.kind = "LATE_RESULT" /\ IsSuperseded(e.attempt)
  BY DEF CarriesSo
<1>2. operation = "succeed" /\ Tail(todo) = << >>
  BY <1>1 DEF NextCall, ObservationKinds
<1>3. ~Exists(operation, e) /\ ~CommittedAlready(CallOf(operation, e, again))
  BY <1>2 DEF Exists, CommittedAlready, CallOf
<1> DEFINE g == [f EXCEPT !.outcomes = @ \cup {outcome}]
<1>4. g.outcomes = {outcome} /\ g.event = e /\ g.carries = "LATE_ATTEMPT_RESULT"
  BY DEF FaultRecords
<1>5. todo' = << >>
  BY <1>2, <1>3 DEF CallNoted
<1> HIDE DEF g
<1>6. CASE CoreCall(operation, e) /\ outcome \in {"APPLIED", "IDEMPOTENT"}
  <2>1. attempts'[e.attempt].execution = "SUCCEEDED"
    BY <1>2, <1>6
       DEF CoreCall, CompleteAttempt, SetAttemptExecution, MayReport, AdapterInv, IInv, TypeOK,
           Attempt
  <2> QED
    BY <1>4, <1>5, <1>6, <2>1 DEF EndedSo, g
<1>7. CASE ~CoreAccepts(operation, e) /\ UNCHANGED coreVars /\ outcome = "REJECTED"
  <2>1. ~MayBecome(attempts[e.attempt].execution, "SUCCEEDED")
    BY <1>1, <1>2, <1>7 DEF CoreAccepts, MayReport, IsSuperseded
  <2>2. attempts'[e.attempt].execution \in TerminalExecution \ {"SUCCEEDED"}
    BY <1>7, <2>1 DEF MayBecome, TerminalExecution, coreVars
  <2> QED
    BY <1>4, <1>5, <1>7, <2>2 DEF EndedSo, g
<1> QED
  BY <1>3, <1>6, <1>7 DEF CallNoted

(* The Output of an attempt that has lost its authority completes nothing, *)
(* and nothing has been completed with it.                                 *)
LEMMA StaleFinalize ==
  ASSUME AdapterInv, NEW e \in Deliverable, NEW again, ObservesSuccess(e, now),
         IsSuperseded(e.attempt), outputs[e.output].attempt = e.attempt, e.output \in DOMAIN outputs
  PROVE  /\ ~CoreCall("finalize_request", e)
         /\ ~CommittedAlready(CallOf("finalize_request", e, again))
<1>1. attempts[e.attempt].authority = "SUPERSEDED" /\ attempts[e.attempt].request = e.request
  BY DEF IsSuperseded, ObservesSuccess
<1>2. e.request \in DOMAIN requests
  BY <1>1 DEF AdapterInv, IInv, StoreWellFormed, IsSuperseded
<1>3. requests[e.request].committed # e.attempt
  BY <1>1 DEF AdapterInv, IInv, AuthorityMatchesPointers, IsSuperseded
<1>4. ~CoreCall("finalize_request", e)
  BY <1>1 DEF CoreCall, FinalizeRequest, MayFinalize
<1>5. requests[e.request].output # e.output
  <2> SUFFICES ASSUME requests[e.request].output = e.output
               PROVE  FALSE
    OBVIOUS
  <2>1. e.output # NULL
    BY IdAssumption DEF AdapterInv, IInv, TypeOK
  <2> QED
    BY <1>2, <1>3, <2>1 DEF AdapterInv, IInv, CommitConsistent
<1>6. CallOf("finalize_request", e, again).event = e
  BY DEF CallOf
<1> QED
  BY <1>4, <1>5, <1>6 DEF CommittedAlready

(* Handling a stale observation ends with a rejection, whatever has been   *)
(* recorded on the way.                                                    *)
LEMMA StaleVerdict ==
  ASSUME AdapterInv, NEW operation \in Operations, NEW e \in Deliverable, NEW again,
         Head(todo) = CallOf(operation, e, again), NextCall(operation, e, again),
         NEW outcome, CallNoted(operation, e, again, outcome),
         NEW f \in FaultRecords, CarriesSo(f), f.carries = "STALE_ATTEMPT_OBSERVATION",
         UnderWay(f)
  PROVE  /\ todo' = << >> => "REJECTED" \in f.outcomes \cup {outcome}
         /\ todo' # << >> =>
              /\ Head(todo').event = e
              /\ Head(todo').operation = "finalize_request" =>
                   \/ "REJECTED" \in f.outcomes \cup {outcome}
                   \/ e.output \in DOMAIN outputs' /\ outputs'[e.output].attempt = e.attempt
<1>1. Head(todo).operation = operation /\ Head(todo).event = e
  BY DEF CallOf
<1>2. f.event = e /\ IsSuperseded(e.attempt) /\ e.kind \in ObservationKinds
  BY <1>1 DEF UnderWay, CarriesSo
<1>3. operation \in {"record_evidence", "create_output", "finalize_request"}
        /\ ObservesSuccess(e, now)
  BY <1>2 DEF NextCall, ObservationKinds, SuccessKinds
<1>4. CASE operation = "record_evidence"
  <2>1. todo' = << >> => outcome = "REJECTED"
    BY <1>4 DEF NextCall, CallNoted
  <2>2. todo' # << >> => Head(todo') = CallOf("create_output", e, again)
    <3>1. todo' # << >> => todo' = Tail(todo)
      BY <1>4 DEF CallNoted
    <3>2. Tail(todo) = <<CallOf("create_output", e, again), CallOf("finalize_request", e, again)>>
      BY <1>4 DEF NextCall
    <3>3. Head(Tail(todo)) = CallOf("create_output", e, again)
      BY <3>2, HeadOfTuple, Zenon
    <3> QED
      BY <3>1, <3>3
  <2>3. /\ CallOf("create_output", e, again).event = e
        /\ CallOf("create_output", e, again).operation = "create_output"
    BY DEF CallOf
  <2> QED
    BY <2>1, <2>2, <2>3
<1>5. CASE operation = "create_output"
  <2>1. /\ Tail(todo) # << >>
        /\ Head(Tail(todo)).event = e /\ Head(Tail(todo)).operation = "finalize_request"
    <3>1. Tail(todo) = <<CallOf("finalize_request", e, again)>>
      BY <1>5 DEF NextCall
    <3>2. Head(Tail(todo)) = CallOf("finalize_request", e, again)
      BY <3>1, HeadOfTuple, Zenon
    <3> QED
      BY <3>1, <3>2 DEF CallOf
  <2>2. CASE ~Exists(operation, e) /\ CoreCall(operation, e) /\ todo' = Tail(todo)
    <3>1. outputs' = Put(outputs, e.output,
                         [attempt |-> e.attempt, terminal |-> TRUE, evidence |-> {e.evidence}])
      BY <1>5, <2>2 DEF CoreCall, CreateOutput
    <3>2. e.output \in DOMAIN outputs' /\ outputs'[e.output].attempt = e.attempt
      BY <3>1 DEF Put
    <3> QED
      BY <2>1, <2>2, <3>2
  <2>3. CASE outcome = "REJECTED" /\ todo' \in {Tail(todo), << >>}
    BY <2>1, <2>3
  <2>4. CASE Exists(operation, e) /\ Expected(operation, e) /\ UNCHANGED coreVars
               /\ todo' = Tail(todo)
    <3>1. e.output \in DOMAIN outputs /\ outputs[e.output].attempt = e.attempt
      BY <1>5, <2>4 DEF Exists, Expected, TerminalOutputOf
    <3> QED
      BY <2>1, <2>4, <3>1 DEF coreVars
  <2>5. ~CommittedAlready(CallOf(operation, e, again))
    BY <1>5 DEF CommittedAlready, CallOf
  <2> QED
    BY <1>5, <2>2, <2>3, <2>4, <2>5 DEF CallNoted
<1>6. CASE operation = "finalize_request"
  <2>1. todo' = << >>
    BY <1>6 DEF NextCall, CallNoted, Exists
  <2>2. \/ "REJECTED" \in f.outcomes
        \/ e.output \in DOMAIN outputs /\ outputs[e.output].attempt = e.attempt
    BY <1>1, <1>2, <1>6 DEF UnderWay
  <2>3. CASE e.output \in DOMAIN outputs /\ outputs[e.output].attempt = e.attempt
    <3>1. /\ ~CoreCall("finalize_request", e)
          /\ ~CommittedAlready(CallOf("finalize_request", e, again))
      BY <1>2, <1>3, <2>3, StaleFinalize
    <3> QED
      BY <1>6, <2>1, <3>1 DEF CallNoted, Exists
  <2> QED
    BY <2>1, <2>2, <2>3
<1> QED
  BY <1>3, <1>4, <1>5, <1>6

(* The verdict of a call of the fault that is being handled.               *)
LEMMA CallVerdict ==
  ASSUME AdapterInv, NEW operation \in Operations, NEW e \in Deliverable, NEW again,
         Head(todo) = CallOf(operation, e, again), NextCall(operation, e, again),
         NEW outcome, CallNoted(operation, e, again, outcome),
         NEW f \in FaultRecords, CarriesSo(f), UnderWay(f)
  PROVE  IF todo' = << >> THEN EndedSo([f EXCEPT !.outcomes = @ \cup {outcome}])'
                          ELSE UnderWay([f EXCEPT !.outcomes = @ \cup {outcome}])'
<1> DEFINE g == [f EXCEPT !.outcomes = @ \cup {outcome}]
<1>1. /\ g.outcomes = f.outcomes \cup {outcome} /\ g.event = f.event /\ g.carries = f.carries
      /\ g.produced = f.produced
  BY DEF FaultRecords
<1>2. f.carries \in AttemptFaultClasses /\ f.carries # "ATTEMPT_TIMEOUT"
        /\ f.produced = "delivered" /\ f.event = e
  BY DEF FaultRecords, UnderWay, CallOf
<1>3. CASE f.carries = "LATE_ATTEMPT_RESULT"
  <2>1. f.outcomes = {}
    BY <1>3 DEF UnderWay
  <2> QED
    BY <1>2, <1>3, <2>1, LateVerdict
<1>4. CASE f.carries = "STALE_ATTEMPT_OBSERVATION"
  <2>1. /\ todo' = << >> => "REJECTED" \in g.outcomes
        /\ todo' # << >> =>
             /\ Head(todo').event = e
             /\ Head(todo').operation = "finalize_request" =>
                  \/ "REJECTED" \in g.outcomes
                  \/ e.output \in DOMAIN outputs' /\ outputs'[e.output].attempt = e.attempt
    BY <1>1, <1>4, StaleVerdict
  <2> HIDE DEF g
  <2>2. IF todo' = << >> THEN EndedSo(g)' ELSE UnderWay(g)'
    BY <1>1, <1>2, <1>4, <2>1 DEF EndedSo, UnderWay
  <2> QED
    BY <2>2 DEF g
<1> QED
  BY <1>2, <1>3, <1>4 DEF AttemptFaultClasses

(* A step that leaves the adapter alone and appends a record, replacing    *)
(* or cancelling at most one that is pending.                              *)
LEMMA RecordAdded ==
  ASSUME LinkInv, FaultInv, UNCHANGED <<adapterVars, running>>, todo = << >>,
         NEW old \in Seq(FaultRecords), DOMAIN old = DOMAIN faults,
         \A i \in DOMAIN faults :
           old[i] = faults[i] \/ (old[i].produced # "delivered" /\ CarriesSo(old[i])),
         NEW f \in FaultRecords, f.produced # "delivered", CarriesSo(f),
         faults' = Append(old, f)
  PROVE  FaultInv'
<1>1. running = 0 /\ running' = 0
  BY DEF FaultInv
<1>2. UNCHANGED <<requests, attempts>>
  BY DEF adapterVars, coreVars
<1>3. ASSUME NEW i \in DOMAIN faults'
      PROVE  /\ CarriesSo(faults'[i])
             /\ faults'[i].produced = "delivered" => EndedSo(faults'[i])
  <2>1. CASE i \in DOMAIN old
    <3>1. faults'[i] = old[i]
      BY <2>1
    <3>2. /\ CarriesSo(faults[i])
          /\ faults[i].produced = "delivered" => EndedSo(faults[i])
      BY <1>1, <2>1 DEF FaultInv
    <3> QED
      BY <2>1, <3>1, <3>2
  <2>2. CASE i \notin DOMAIN old
    <3>1. faults'[i] = f
      BY <2>2
    <3> QED
      BY <3>1
  <2> QED
    BY <2>1, <2>2
<1> QED
  BY <1>1, <1>2, <1>3 DEF FaultInv, CarriesSo, EndedSo, IsSuperseded

(* A call of the core keeps what the records say.                          *)
LEMMA FaultCall == ASSUME LinkInv, FaultInv, LinkedCall PROVE FaultInv'
<1>1. AdapterInv /\ IInv /\ todo # << >> /\ faults \in Seq(FaultRecords)
  BY DEF LinkInv, AdapterInv, LinkedCall
<1>2. [Next]_vars
  BY LinkStep DEF LinkedNext
<1>3. \A i \in DOMAIN faults : faults[i] \in FaultRecords
  BY <1>1
<1>4. \A i \in DOMAIN faults :
        /\ CarriesSo(faults[i])
        /\ faults[i].produced = "delivered" /\ i # running => EndedSo(faults[i])
  BY DEF FaultInv
<1>5. \A f \in FaultRecords : CarriesSo(f) => CarriesSo(f)' /\ (EndedSo(f) => EndedSo(f)')
  BY <1>1, <1>2, RecordStays
<1>6. PICK operation \in Operations, e \in Deliverable, again \in BOOLEAN :
        Head(todo) = CallOf(operation, e, again) /\ NextCall(operation, e, again)
  BY <1>1, RunningHasCall DEF AdapterInv
<1>7. PICK outcome \in Outcomes : CallNoted(operation, e, again, outcome) /\ Noted(outcome)
  BY <1>6, CallIsNoted
<1>8. CASE running = 0
  <2>1. faults' = faults /\ running' = 0
    BY <1>7, <1>8 DEF Noted
  <2> QED
    BY <1>3, <1>4, <1>5, <1>8, <2>1 DEF FaultInv, CarriesSo, EndedSo, IsSuperseded
<1>9. CASE running # 0
  <2>1. running \in DOMAIN faults /\ UnderWay(faults[running])
    BY <1>9 DEF FaultInv
  <2> DEFINE f == faults[running]
             g == [f EXCEPT !.outcomes = @ \cup {outcome}]
  <2>2. /\ faults' = [faults EXCEPT ![running] = g]
        /\ running' = IF todo' = << >> THEN 0 ELSE running
    BY <1>7, <1>9 DEF Noted
  <2>3. f \in FaultRecords /\ CarriesSo(f)
    BY <1>3, <1>4, <2>1
  <2>4. \A h \in FaultRecords : CarriesSo(h) /\ UnderWay(h) =>
          IF todo' = << >> THEN EndedSo([h EXCEPT !.outcomes = @ \cup {outcome}])'
                           ELSE UnderWay([h EXCEPT !.outcomes = @ \cup {outcome}])'
    BY <1>1, <1>6, <1>7, CallVerdict
  <2>5. g.class = f.class /\ g.event = f.event /\ g.produced = f.produced /\ g.carries = f.carries
    BY <2>3 DEF FaultRecords
  <2>6. DOMAIN faults' = DOMAIN faults /\ faults'[running] = g
          /\ \A i \in DOMAIN faults : i # running => faults'[i] = faults[i]
    BY <2>1, <2>2
  <2>7. ASSUME NEW i \in DOMAIN faults, i # running
        PROVE  CarriesSo(faults[i])' /\ (faults'[i].produced = "delivered" => EndedSo(faults[i])')
    BY <1>3, <1>4, <1>5, <2>6, <2>7 DEF CarriesSo, EndedSo, IsSuperseded
  <2>8. ASSUME NEW i, i = running
        PROVE  CarriesSo(faults[i])'
    <3>1. faults'[i] = g
      BY <2>6, <2>8
    <3> QED
      BY <1>5, <2>3, <2>5, <3>1 DEF CarriesSo, IsSuperseded
  <2>9. ASSUME NEW i, i = running
        PROVE  IF todo' = << >> THEN EndedSo(faults[i])' ELSE UnderWay(faults[i])'
    <3>1. faults'[i] = [faults[i] EXCEPT !.outcomes = @ \cup {outcome}]
      BY <2>6, <2>9
    <3>2. faults[i] \in FaultRecords /\ CarriesSo(faults[i]) /\ UnderWay(faults[i])
      BY <2>1, <2>3, <2>9
    <3> QED
      BY <2>4, <3>1, <3>2 DEF EndedSo, UnderWay
  <2>10. CASE todo' = << >>
    BY <2>2, <2>6, <2>7, <2>8, <2>9, <2>10 DEF FaultInv
  <2>11. CASE todo' # << >>
    <3>1. running' = running
      BY <2>2, <2>11
    <3>2. UnderWay(faults[running])'
      BY <2>9, <2>11, <3>1 DEF UnderWay
    <3> QED
      BY <2>1, <2>6, <2>7, <2>8, <2>11, <3>1, <3>2 DEF FaultInv
  <2> QED
    BY <2>10, <2>11
<1> QED
  BY <1>8, <1>9

(* The delivery of a fault's event.                                        *)
LEMMA FaultDelivered ==
  ASSUME LinkInv, FaultInv, NEW i \in DOMAIN faults, DeliverFault(i)
  PROVE  FaultInv'
<1> DEFINE e == faults[i].event
<1>1. todo = << >> /\ UNCHANGED coreVars /\ (Deliver(e) \/ DeliverTimeout(e))
  BY DEF DeliverFault, Deliver, DeliverTimeout
<1>2. running = 0 /\ \A j \in DOMAIN faults : CarriesSo(faults[j])
        /\ (faults[j].produced = "delivered" => EndedSo(faults[j]))
  <2>1. running = 0
    BY <1>1 DEF FaultInv
  <2> QED
    BY <2>1 DEF FaultInv, LinkInv
<1>3. faults \in Seq(FaultRecords) /\ faults[i] \in FaultRecords
  BY DEF LinkInv
<1>4. e \in Deliverable /\ faults[i].carries \in AttemptFaultClasses
  BY <1>3 DEF FaultRecords
<1>5. UNCHANGED <<requests, attempts>>
  BY <1>1 DEF coreVars
<1>6. ASSUME NEW outcomes,
             faults' = [faults EXCEPT ![i].produced = "delivered", ![i].outcomes = outcomes],
             faults[i].produced = "pending"
      PROVE  /\ DOMAIN faults' = DOMAIN faults
             /\ \A j \in DOMAIN faults : j # i => faults'[j] = faults[j]
             /\ faults'[i].produced = "delivered" /\ faults'[i].outcomes = outcomes
             /\ faults'[i].event = e /\ faults'[i].carries = faults[i].carries
             /\ faults'[i].class = faults[i].class
             /\ \A j \in DOMAIN faults : CarriesSo(faults[j])'
             /\ \A j \in DOMAIN faults : j # i /\ faults'[j].produced = "delivered"
                                           => EndedSo(faults[j])'
  <2>1. /\ DOMAIN faults' = DOMAIN faults
        /\ \A j \in DOMAIN faults : j # i => faults'[j] = faults[j]
        /\ faults'[i].produced = "delivered" /\ faults'[i].outcomes = outcomes
        /\ faults'[i].event = e /\ faults'[i].carries = faults[i].carries
        /\ faults'[i].class = faults[i].class
    BY <1>3, <1>6 DEF FaultRecords
  <2>2. faults[i].class # "DELIVERY_DROP"
    BY <1>2, <1>6 DEF CarriesSo
  <2>3. ASSUME NEW j \in DOMAIN faults
        PROVE  CarriesSo(faults[j])'
    BY <1>2, <1>5, <2>1, <2>2 DEF CarriesSo, IsSuperseded
  <2>4. ASSUME NEW j \in DOMAIN faults, j # i, faults'[j].produced = "delivered"
        PROVE  EndedSo(faults[j])'
    BY <1>2, <1>5, <2>1, <2>4 DEF EndedSo
  <2> QED
    BY <2>1, <2>3, <2>4
<1>7. CarriesSo(faults[i])
  BY <1>2
<1>8. CASE DeliverTimeout(e)
  <2>1. faults[i].carries = "ATTEMPT_TIMEOUT" /\ e.kind = "ATTEMPT_TIMEOUT"
          /\ e.request \in DOMAIN requests
    BY <1>4, <1>7, <1>8 DEF DeliverTimeout, CarriesSo, AttemptFaultClasses, ObservationKinds
  <2>2. WithoutCall(e) = "IGNORED"
    BY <2>1 DEF WithoutCall, ObservationKinds
  <2>3. /\ faults[i].produced = "pending" /\ running' = 0
        /\ \E outcomes \in {{"APPLIED"}, {"IGNORED"}} :
             faults' = [faults EXCEPT ![i].produced = "delivered", ![i].outcomes = outcomes]
    BY <1>2, <2>1, <2>2 DEF DeliverFault, Deliver
  <2>4. EndedSo(faults[i])'
    BY <1>6, <2>1, <2>3 DEF EndedSo
  <2> QED
    BY <1>6, <2>3, <2>4 DEF FaultInv
<1>9. CASE Deliver(e)
  <2>1. faults[i].carries # "ATTEMPT_TIMEOUT" /\ e.kind # "ATTEMPT_TIMEOUT"
    BY <1>7, <1>9 DEF Deliver, CarriesSo
  <2>2. /\ faults[i].produced = "pending"
        /\ faults' = [faults EXCEPT ![i].produced = "delivered",
                        ![i].outcomes = IF todo' = << >> THEN {WithoutCall(e)} ELSE {}]
        /\ running' = IF todo' = << >> THEN 0 ELSE i
    BY <2>1 DEF DeliverFault, DeliverTimeout
  <2>3. CASE todo' = << >>
    <3>1. faults[i].carries = "STALE_ATTEMPT_OBSERVATION" /\ e.kind \in ObservationKinds
      BY <1>4, <1>7, <1>9, <2>1, <2>3, DeliveryHead
         DEF CarriesSo, AttemptFaultClasses, SuccessKinds
    <3>2. WithoutCall(e) = "REJECTED"
      BY <3>1 DEF WithoutCall
    <3>3. EndedSo(faults[i])'
      <4>1. faults'[i].outcomes = {"REJECTED"} /\ faults'[i].carries = faults[i].carries
        BY <1>6, <2>2, <2>3, <3>2
      <4> QED
        BY <3>1, <4>1 DEF EndedSo
    <3> QED
      BY <1>6, <2>2, <2>3, <3>3 DEF FaultInv
  <2>4. CASE todo' # << >>
    <3>1. PICK operation \in {"create_request", "start_attempt", "succeed", "fail",
                              "record_evidence"} :
            Head(todo') = CallOf(operation, e, e \in applied)
      BY <1>4, <1>9, <2>4, DeliveryHead
    <3>2. Head(todo').event = e /\ Head(todo').operation # "finalize_request"
      BY <3>1 DEF CallOf
    <3>3. running' = i /\ i # 0
      BY <1>3, <2>2, <2>4
    <3>4. UnderWay(faults[running])'
      BY <1>6, <2>1, <2>2, <2>4, <3>2, <3>3 DEF UnderWay
    <3> QED
      BY <1>6, <2>2, <2>4, <3>3, <3>4 DEF FaultInv
  <2> QED
    BY <2>3, <2>4
<1> QED
  BY <1>1, <1>8, <1>9

(* What the records say is inductive.                                      *)
LEMMA FaultStep == LinkInv /\ FaultInv /\ [LinkedNext]_linkVars => FaultInv'
<1> SUFFICES ASSUME LinkInv, FaultInv, [LinkedNext]_linkVars
             PROVE  FaultInv'
  OBVIOUS
<1>1. faults \in Seq(FaultRecords)
  BY DEF LinkInv
<1>2. \A i \in DOMAIN faults :
        /\ faults[i] \in FaultRecords /\ CarriesSo(faults[i])
        /\ faults[i].event \in Deliverable /\ faults[i].carries \in AttemptFaultClasses
  <2>1. \A i \in DOMAIN faults : faults[i] \in FaultRecords /\ CarriesSo(faults[i])
    BY <1>1 DEF FaultInv
  <2> QED
    BY <2>1 DEF FaultRecords
<1>3. ASSUME NEW e \in AttemptFaults,
             InjectAttemptTimeout(e) \/ InjectLateAttemptResult(e)
               \/ InjectStaleAttemptObservation(e)
      PROVE  FaultInv'
  <2>1. PICK class \in AttemptFaultClasses :
          /\ Injected(class, e)
          /\ class = "ATTEMPT_TIMEOUT" =>
               e.kind = "ATTEMPT_TIMEOUT" /\ e.request \in DOMAIN requests
          /\ class = "LATE_ATTEMPT_RESULT" => e.kind = "LATE_RESULT"
          /\ class = "STALE_ATTEMPT_OBSERVATION" => e.kind \in ObservationKinds
          /\ class # "ATTEMPT_TIMEOUT" => IsSuperseded(e.attempt)
    BY <1>3
       DEF InjectAttemptTimeout, InjectLateAttemptResult, InjectStaleAttemptObservation,
           AttemptFaultClasses, ObservationKinds
  <2>2. e \in Deliverable
    BY LinkageAssumption DEF Deliverable, ObservationKinds
  <2>3. Fault(class, e, "pending", class) \in FaultRecords
    BY <2>2, FaultTyped
  <2>4. CarriesSo(Fault(class, e, "pending", class))
    BY <2>1 DEF CarriesSo, Fault, AttemptFaultClasses
  <2>5. Fault(class, e, "pending", class).produced # "delivered"
    BY DEF Fault
  <2>6. /\ UNCHANGED <<adapterVars, running>> /\ todo = << >>
        /\ faults' = Append(faults, Fault(class, e, "pending", class))
    BY <2>1 DEF Injected
  <2> QED
    BY <1>1, <2>3, <2>4, <2>5, <2>6, RecordAdded
<1>4. ASSUME NEW i \in DOMAIN faults, NEW class \in DeliveryFaults, Disturb(class, i)
      PROVE  FaultInv'
  <2> DEFINE hit == faults[i]
             copied == class = "DELIVERY_DUPLICATE"
             old == IF copied THEN faults ELSE [faults EXCEPT ![i].produced = "cancelled"]
             f == Fault(class, IF copied THEN CopyOf(hit.event) ELSE hit.event,
                        IF class = "DELIVERY_DROP" THEN "none" ELSE "pending", hit.carries)
  <2>1. /\ hit \in FaultRecords /\ CarriesSo(hit) /\ hit.event \in Deliverable
        /\ hit.carries \in AttemptFaultClasses
    BY <1>2
  <2>2. faults' = Append(old, f)
    BY <1>4 DEF Disturb
  <2>3. old \in Seq(FaultRecords) /\ DOMAIN old = DOMAIN faults
    BY <1>1, <1>2 DEF FaultRecords
  <2>4. \A j \in DOMAIN faults :
          old[j] = faults[j] \/ (old[j].produced # "delivered" /\ CarriesSo(old[j]))
    <3>1. ASSUME NEW j \in DOMAIN faults, j = i, ~copied
          PROVE  old[j].produced # "delivered" /\ CarriesSo(old[j])
      <4>1. /\ old[j].produced = "cancelled" /\ old[j].event = hit.event
            /\ old[j].carries = hit.carries /\ old[j].class = hit.class
        BY <1>1, <2>1, <3>1 DEF FaultRecords
      <4>2. hit.class # "DELIVERY_DROP"
        BY <1>4, <2>1 DEF Disturb, CarriesSo
      <4> HIDE DEF old, hit
      <4> QED
        BY <2>1, <4>1, <4>2 DEF CarriesSo
    <3> QED
      BY <1>1, <3>1
  <2>5. f \in FaultRecords
    <3>1. CopyOf(hit.event) \in Deliverable
      BY <2>1, CopyDeliverable
    <3> QED
      BY <2>1, <3>1, FaultTyped
  <2>6. f.produced # "delivered" /\ CarriesSo(f)
    <3>1. \/ CopyOf(hit.event) = hit.event
          \/ /\ hit.event.kind \in ObservationKinds /\ CopyOf(hit.event).kind \in ObservationKinds
             /\ CopyOf(hit.event).attempt = hit.event.attempt
      BY <2>1, CopySame
    <3>2. /\ f.class = class /\ f.carries = hit.carries
          /\ f.produced = (IF class = "DELIVERY_DROP" THEN "none" ELSE "pending")
          /\ f.event \in {hit.event, CopyOf(hit.event)}
      BY DEF Fault
    <3>3. f.event = hit.event \/
            (hit.event.kind \in ObservationKinds /\ f.event.kind \in ObservationKinds
               /\ f.event.attempt = hit.event.attempt)
      BY <3>1, <3>2
    <3> HIDE DEF f, hit
    <3>4. hit.carries # "ATTEMPT_TIMEOUT" \/ f.event = hit.event
      BY <2>1, <3>3 DEF CarriesSo, ObservationKinds
    <3>5. CarriesSo(f)
      BY <2>1, <3>2, <3>3, <3>4 DEF CarriesSo, ObservationKinds
    <3> QED
      BY <3>2, <3>5
  <2>7. UNCHANGED <<adapterVars, running>> /\ todo = << >>
    BY <1>4 DEF Disturb
  <2> HIDE DEF f, old
  <2> QED
    BY <2>2, <2>3, <2>4, <2>5, <2>6, <2>7, RecordAdded
<1>5. ASSUME UNCHANGED <<faults, running, coreVars>>, running = 0 \/ UNCHANGED todo
      PROVE  FaultInv'
  BY <1>5 DEF FaultInv, CarriesSo, EndedSo, UnderWay, IsSuperseded, coreVars
<1>6. ASSUME NEW e \in Script \cup retries, Deliver(e) \/ DeliverTimeout(e),
             UNCHANGED <<faults, running>>
      PROVE  FaultInv'
  <2>1. todo = << >> /\ UNCHANGED coreVars
    BY <1>6 DEF Deliver, DeliverTimeout
  <2>2. running = 0
    BY <2>1 DEF FaultInv
  <2> QED
    BY <1>5, <1>6, <2>1, <2>2
<1>7. CASE UNCHANGED linkVars
  BY <1>5, <1>7 DEF linkVars, adapterVars
<1> QED
  BY <1>3, <1>4, <1>6, <1>7, FaultDelivered, FaultCall DEF LinkedNext

(* Attempt faults are safe (_classify, fault_linkage.py): a timeout is     *)
(* followed or ignored, a late result counts as the execution of its       *)
(* attempt says, a stale observation is rejected, and none of them gives   *)
(* an attempt back the authority it has lost, however the faults and the   *)
(* callers' events are delayed, dropped, copied and reordered.             *)
THEOREM FaultsAlwaysSafe == LinkedSpec => []FaultsAreSafe
<1>1. LinkedInit => FaultInv
  BY DEF LinkedInit, FaultInv
<1>2. LinkedSpec => []FaultInv
  BY <1>1, FaultStep, LinkInvariant, PTL DEF LinkedSpec
<1>3. LinkInv /\ FaultInv => FaultsAreSafe
  <2> SUFFICES ASSUME LinkInv, FaultInv, todo = << >>, NEW i \in DOMAIN faults
               PROVE  LET fault == faults[i]
                          observed == Observe(fault)
                          target == fault.event.attempt
                          about == observed.outcome.attempts[target]
                      IN
                      /\ fault.carries # "ATTEMPT_TIMEOUT" =>
                           /\ about.authority = "SUPERSEDED"
                           /\ target \notin {observed.outcome.current, observed.outcome.committed}
                      /\ fault.produced = "delivered" =>
                           /\ fault.carries = "ATTEMPT_TIMEOUT" =>
                                observed.class \in {"SEMANTIC_APPLIED", "SEMANTIC_IGNORED"}
                           /\ fault.carries = "STALE_ATTEMPT_OBSERVATION" =>
                                observed.class = "SEMANTIC_REJECTED"
                           /\ fault.carries = "LATE_ATTEMPT_RESULT" => observed.class \in
                                IF about.execution = "SUCCEEDED"
                                  THEN {"SEMANTIC_APPLIED", "SEMANTIC_IDEMPOTENT"}
                                  ELSE {"SEMANTIC_REJECTED"}
    BY DEF FaultsAreSafe
  <2> DEFINE fault == faults[i]
             target == fault.event.attempt
             r == attempts[target].request
             about == Observe(fault).outcome.attempts[target]
  <2>1. fault \in FaultRecords /\ CarriesSo(fault) /\ (fault.produced = "delivered" => EndedSo(fault))
    BY DEF FaultInv, LinkInv
  <2>2. fault.carries \in AttemptFaultClasses
    BY <2>1 DEF FaultRecords
  <2>3. Observe(fault).class = OutcomeClass(fault)
          /\ Observe(fault).outcome = AuthoritativeOutcome(r)
    BY DEF Observe
  <2>4. ASSUME fault.carries # "ATTEMPT_TIMEOUT"
        PROVE  /\ target \in DOMAIN attempts /\ about.execution = attempts[target].execution
               /\ about.authority = "SUPERSEDED"
               /\ target \notin {Observe(fault).outcome.current, Observe(fault).outcome.committed}
    <3>1. target \in DOMAIN attempts /\ attempts[target].authority = "SUPERSEDED"
      BY <2>1, <2>4 DEF CarriesSo, IsSuperseded
    <3>2. requests[r].current # target /\ requests[r].committed # target
      BY <3>1 DEF LinkInv, AdapterInv, IInv, AuthorityMatchesPointers
    <3>3. target \in AttemptsOf(r)
      BY <3>1 DEF AttemptsOf
    <3> HIDE DEF fault, target, r
    <3>4. /\ AuthoritativeOutcome(r).current = requests[r].current
          /\ AuthoritativeOutcome(r).committed = requests[r].committed
          /\ AuthoritativeOutcome(r).attempts[target].execution = attempts[target].execution
          /\ AuthoritativeOutcome(r).attempts[target].authority = attempts[target].authority
      BY <3>3 DEF AuthoritativeOutcome
    <3> QED
      BY <2>3, <3>1, <3>2, <3>4
  <2>5. ASSUME fault.produced = "delivered", fault.outcomes # {}
        PROVE  OutcomeClass(fault) = SemanticOutcome(fault.outcomes)
    <3>1. fault.class # "DELIVERY_DROP"
      BY <2>1, <2>5 DEF CarriesSo
    <3> HIDE DEF fault
    <3> QED
      BY <2>5, <3>1 DEF OutcomeClass
  <2>6. ASSUME fault.produced = "delivered"
        PROVE  /\ fault.outcomes # {} /\ EndedSo(fault)
               /\ Observe(fault).class = SemanticOutcome(fault.outcomes)
    <3>1. EndedSo(fault)
      BY <2>1, <2>6
    <3>2. fault.outcomes # {}
      BY <2>2, <3>1 DEF EndedSo, AttemptFaultClasses
    <3> QED
      BY <2>3, <2>5, <2>6, <3>1, <3>2
  <2> HIDE DEF fault, r
  <2>7. ASSUME fault.produced = "delivered", fault.carries = "ATTEMPT_TIMEOUT"
        PROVE  Observe(fault).class \in {"SEMANTIC_APPLIED", "SEMANTIC_IGNORED"}
    BY <2>6, <2>7 DEF EndedSo, SemanticOutcome
  <2>8. ASSUME fault.produced = "delivered", fault.carries = "STALE_ATTEMPT_OBSERVATION"
        PROVE  Observe(fault).class = "SEMANTIC_REJECTED"
    BY <2>6, <2>8 DEF EndedSo, SemanticOutcome
  <2>9. ASSUME fault.produced = "delivered", fault.carries = "LATE_ATTEMPT_RESULT"
        PROVE  Observe(fault).class \in
                 IF about.execution = "SUCCEEDED"
                   THEN {"SEMANTIC_APPLIED", "SEMANTIC_IDEMPOTENT"}
                   ELSE {"SEMANTIC_REJECTED"}
    <3>1. about.execution = attempts[target].execution
      BY <2>4, <2>9
    <3> HIDE DEF about
    <3> QED
      BY <2>6, <2>9, <3>1 DEF EndedSo, SemanticOutcome
  <2> QED
    BY <2>4, <2>7, <2>8, <2>9 DEF fault
<1> QED
  BY <1>2, <1>3, LinkInvariant, PTL
===========================================================================
