--------------------------- MODULE MCExperiments ---------------------------
(* The experiments of all families.  The cases fix the identifiers, so the *)
(* constants name them.                                                    *)
EXTENDS Experiments

(* No State carries a semantic validity callback.                          *)
AnySemantics(s, ctx) == TRUE

(* The calls come from the experiments and from nobody else.               *)
NoCallers ==
  {[sessions |-> 0, continuations |-> 0, requests |-> 0, attempts |-> 0, outputs |-> 0,
    evidence |-> 0, phases |-> 0, states |-> 0, programStatus |-> {}, lifecycles |-> {},
    executions |-> {}, phaseStatus |-> {}, validity |-> {}, replicaStatus |-> {}]}
=============================================================================
