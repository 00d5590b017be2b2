-------------------------- MODULE MCStateLineage --------------------------
(* A small instance of the whole graph for TLC.                           *)
EXTENDS InvariantOracle, TLC

CONSTANTS p1, s1, s2, c1, c2, c3, r1, r2, a1, a2, a3, o1, e1, f1, f2, x1, x2, k1

(* An exact observation of an attempt's result.                            *)
MCEvidenceRecords ==
  {[authority |-> EXACT_OBSERVATION, status |-> "VALID", observed |-> 0, until |-> NULL,
    scope |-> {<<"attempt", a>>}, key |-> NULL, value |-> NULL,
    support |-> {}, rule |-> FALSE] : a \in AttemptIds}

MCTimes == {0}

(* Identifiers of one kind are interchangeable.                            *)
Symmetry ==
  UNION {Permutations(S) : S \in {SessionIds, ContinuationIds, RequestIds, AttemptIds,
                                  PhaseIds, StateIds}}

(* The default callback accepts every State.                               *)
MCSemanticValidity(s, ctx) == TRUE

(* Callers who fork, join and wait in two sessions and withdraw States;    *)
(* who retry and commit requests on one continuation; and who run phases.  *)
GraphCallers ==
  [sessions |-> 2, continuations |-> 3, requests |-> 0, attempts |-> 0, outputs |-> 0,
   evidence |-> 0, phases |-> 0, states |-> 2, programStatus |-> {},
   lifecycles |-> {"ACTIVE", "WAITING", "SPECULATIVE"},
   executions |-> {}, phaseStatus |-> {}, validity |-> StateValidity, replicaStatus |-> {}]
RetryCallers ==
  [sessions |-> 1, continuations |-> 1, requests |-> 2, attempts |-> 3, outputs |-> 1,
   evidence |-> 1, phases |-> 0, states |-> 2, programStatus |-> {}, lifecycles |-> {"ACTIVE"},
   executions |-> {"SUCCEEDED"}, phaseStatus |-> {}, validity |-> {}, replicaStatus |-> {}]
PhaseCallers ==
  [sessions |-> 1, continuations |-> 1, requests |-> 1, attempts |-> 2, outputs |-> 0,
   evidence |-> 0, phases |-> 2, states |-> 2, programStatus |-> {"RUNNING", "COMPLETED"},
   lifecycles |-> {"ACTIVE"}, executions |-> {}, phaseStatus |-> {"RUNNING", "COMPLETED"},
   validity |-> StateValidity, replicaStatus |-> {"VALID"}]

MCCallers == {GraphCallers, RetryCallers, PhaseCallers}
===========================================================================
