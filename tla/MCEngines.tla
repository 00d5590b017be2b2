----------------------------- MODULE MCEngines -----------------------------
(***************************************************************************)
(* Small instances of the four engines that run on their own: the evidence *)
(* gate, the fault scheduler of the harness, the event kernel of the       *)
(* simulator and the retention engine.  A behaviour is a behaviour of one  *)
(* of them, which a variable names; the others stay where they start.      *)
(***************************************************************************)
EXTENDS EvidenceGate, FaultQueue, EventKernel, RetentionEngine, TLC

CONSTANTS
  e1, e2, e3, x, y,   \* Evidence identifiers and scopes
  a, b, c, s1,        \* States and their Session
  MaxScript           \* bound: directives in a script

VARIABLE engine   \* the engine that runs

engineVars == <<engine, evidence, vars, sim, rvars>>

---------------------------------------------------------------------------
(* Observations of one of two things with a claim about one question, and  *)
(* Evidence derived from them.                                             *)
Observation(authority, status, until, scope, key, value) ==
  [authority |-> authority, status |-> status, observed |-> 0, until |-> until,
   scope |-> scope, key |-> key, value |-> value, support |-> {}, rule |-> FALSE]

Derivation(status, scope, support) ==
  [authority |-> DERIVED, status |-> status, observed |-> 0, until |-> NULL,
   scope |-> scope, key |-> NULL, value |-> NULL, support |-> support, rule |-> TRUE]

MCEvidenceRecords ==
  {Observation(EXACT_OBSERVATION, status, NULL, {s}, NULL, NULL) :
      status \in {"VALID", "STALE", "AMBIGUOUS"}, s \in {x, y}}
    \cup {Observation(EXACT_OBSERVATION, "VALID", until, {x}, "location", value) :
      until \in {NULL, 0}, value \in {"here", "there"}}
    \cup {Observation(ESTIMATED, "VALID", NULL, {x, y}, "location", "there")}
    \cup {Derivation(status, scope, support) :
      status \in {"VALID", "STALE"}, scope \in {{x}, {y}, {x, y}}, support \in SUBSET EvidenceIds}

(* All scripts up to a length.                                             *)
MCScripts ==
  {script \in UNION {[1..n -> DeliveryAction] : n \in 0..MaxScript} : PairedReorders(script)}

MCIdentifiers == {<<"a">>, <<"b">>}

OneSession == [s \in RStates |-> s1]

(* The States of the retention engine are alike.                           *)
AlikeStates == Permutations(RStates)

---------------------------------------------------------------------------
RetentionIdle ==
  /\ RetentionInit /\ Is({"LRU"}) /\ \A x1 \in RSessions : sessions[x1]
  /\ \A s \in RStates : truth[s].lifecycle = "TERMINAL"
QueueIdle == Init /\ queue = NewScheduler(<<>>)

EnginesInit ==
  /\ EvidenceInit /\ KernelInit
  /\ \/ engine \in {"gate", "kernel"} /\ QueueIdle /\ RetentionIdle
     \/ engine = "queue" /\ Init /\ RetentionIdle
     \/ engine = "retention" /\ RetentionInit /\ QueueIdle

EnginesNext ==
  /\ UNCHANGED engine
  /\ \/ engine = "gate" /\ EvidenceNext /\ UNCHANGED <<vars, sim, rvars>>
     \/ engine = "queue" /\ Next /\ UNCHANGED <<evidence, sim, rvars>>
     \/ engine = "kernel" /\ KernelNext /\ UNCHANGED <<evidence, vars, rvars>>
     \/ engine = "retention" /\ RetentionNext /\ UNCHANGED <<evidence, vars, sim>>

EnginesSpec == EnginesInit /\ [][EnginesNext]_engineVars

RetentionSpec ==
  /\ RetentionInit /\ EvidenceInit /\ KernelInit /\ QueueIdle /\ engine = "retention"
  /\ [][EnginesNext]_engineVars
=============================================================================
