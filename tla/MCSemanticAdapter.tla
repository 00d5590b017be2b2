------------------------- MODULE MCSemanticAdapter -------------------------
(* A small instance of FaultLinkage for TLC.                            *)
EXTENDS FaultLinkage

CONSTANTS r1, r2, a1, a2, a3, e1, e2, o1, c1

MCTimes == 0..MaxTime

Observation(kind, a, i, o, t) ==
  [kind |-> kind, request |-> r1, attempt |-> a, evidence |-> i, output |-> o, observed |-> t]

(* A request with one attempt, which may time out twice with different     *)
(* retries, the first of which may time out too, and another attempt of it *)
(* that is started meanwhile; successes and a failure; observations that   *)
(* share identifiers of Evidence, and one that names the wrong request.    *)
MCScript ==
  {[kind |-> "REQUEST_CREATED", request |-> r1, continuation |-> c1],
   [kind |-> "ATTEMPT_STARTED", request |-> r1, attempt |-> a1],
   [kind |-> "ATTEMPT_STARTED", request |-> r1, attempt |-> a3],
   [kind |-> "ATTEMPT_TIMEOUT", request |-> r1, attempt |-> a1, retry |-> a2],
   [kind |-> "ATTEMPT_TIMEOUT", request |-> r1, attempt |-> a1, retry |-> a3],
   [kind |-> "ATTEMPT_TIMEOUT", request |-> r1, attempt |-> a2, retry |-> a3],
   [kind |-> "LATE_RESULT", attempt |-> a1],
   [kind |-> "ATTEMPT_COMPLETED", attempt |-> a2],
   [kind |-> "ATTEMPT_FAILED", attempt |-> a1]}
    \cup {Observation("OBSERVATION_CREATED", a1, e1, o1, t) : t \in 0..MaxTime}
    \cup {Observation("OBSERVATION_CREATED", a2, e1, e2, 1),
          Observation("OBSERVATION_DUPLICATED", a2, e2, o1, 1),
          [Observation("OBSERVATION_CREATED", a1, e2, o1, 1) EXCEPT !.request = r2]}

(* Faults: a timeout and the late result of the first attempt, and stale   *)
(* observations of it, which share identifiers with others.                 *)
MCAttemptFaults ==
  {[kind |-> "ATTEMPT_TIMEOUT", request |-> r1, attempt |-> a1, retry |-> a2],
   [kind |-> "LATE_RESULT", attempt |-> a1],
   Observation("OBSERVATION_CREATED", a1, e1, o1, 2),
   Observation("OBSERVATION_CREATED", a1, e2, o1, 1)}

MCEvidenceRecords ==
  {TerminalEvidence(e) : e \in {x \in MCScript \cup MCAttemptFaults : x.kind \in ObservationKinds}}
===========================================================================
