---------------------------- MODULE Experiments ----------------------------
(***************************************************************************)
(* The correctness experiments: one case of one of the five families, or a *)
(* migration cell, on the core it uses, with the coordinator and the       *)
(* workers of Trials.  What each promises is promised here of all of them. *)
(***************************************************************************)
EXTENDS InvariantOracle, Trials

CONSTANTS Script, MaxTime  \* of the adapter that S1 drives

VARIABLES
  now, retries, reserved, success, applied, todo,  \* the adapter of S1
  events, eventOrder,                              \* the event log of S5
  results                                          \* the finished trials of the case

S1 == INSTANCE AttemptTrials
S2 == INSTANCE LineageTrials
S3 == INSTANCE BindingTrials
S4 == INSTANCE EvidenceTrials
S5 == INSTANCE OrderingTrials
C74 == INSTANCE MigrationTrials

adapterOnlyVars == <<now, retries, reserved, success, applied, todo>>
logVars == <<events, eventOrder>>
experimentVars ==
  <<vars, lineageVars, callers, bindingVars, adapterOnlyVars, logVars, harnessVars, results>>

NoAdapter ==
  now = 0 /\ retries = {} /\ reserved = {} /\ success = <<>> /\ applied = {} /\ todo = <<>>
NoLog == events = <<>> /\ eventOrder = <<>>

(* _scaffold_core: the program, the session and the continuation of a core *)
(* whose experiment does nothing else with its graph.                      *)
ScaffoldCore ==
  /\ programs = [p \in {"p"} |-> "CREATED"]
  /\ sessions = [s \in {"s"} |-> "p"]
  /\ continuations = [c \in {"c"} |-> [session |-> "s", parents |-> {}, lifecycle |-> "ACTIVE"]]
  /\ phases = <<>> /\ states = <<>> /\ replicas = <<>>
  /\ callers \in Callers

ExperimentsInit ==
  \/ S1!AttemptTrialsInit /\ ScaffoldCore /\ BindingInit /\ NoLog
  \/ S2!LineageTrialsInit /\ BindingInit /\ NoAdapter /\ NoLog
  \/ S3!BindingTrialsInit /\ FencingInit /\ ScaffoldCore /\ NoAdapter /\ NoLog
  \/ S4!EvidenceTrialsInit /\ ScaffoldCore /\ BindingInit /\ NoAdapter /\ NoLog
  \/ S5!OrderingTrialsInit /\ NoAdapter
  \/ C74!MigrationTrialsInit /\ FencingInit /\ ScaffoldCore /\ NoAdapter /\ NoLog

Of(family) == trial.family = family

ExperimentsCoordinator ==
  \/ Of("S1") /\ S1!AttemptCoordinator /\ UNCHANGED <<lineageVars, callers, bindingVars, logVars>>
  \/ Of("S2") /\ S2!LineageCoordinator /\ UNCHANGED <<bindingVars, adapterOnlyVars, logVars>>
  \/ /\ Of("S3") /\ S3!BindingCoordinator
     /\ UNCHANGED <<fencingVars, lineageVars, callers, adapterOnlyVars, logVars>>
  \/ /\ Of("C7.4") /\ C74!MigrationCoordinator
     /\ UNCHANGED <<fencingVars, lineageVars, callers, adapterOnlyVars, logVars>>
  \/ /\ Of("S4") /\ S4!EvidenceCoordinator
     /\ UNCHANGED <<lineageVars, callers, bindingVars, adapterOnlyVars, logVars>>
  \/ Of("S5") /\ S5!OrderingCoordinator /\ UNCHANGED <<callers, adapterOnlyVars>>

ExperimentsWorkers ==
  /\ \/ ProcessStep
     \/ Of("S1") /\ S1!AttemptWorkerStep
     \/ Of("S2") /\ S2!LineageWorkerStep
     \/ Of("S3") /\ S3!BindingWorkerStep
     \/ Of("S4") /\ S4!EvidenceWorkerStep
     \/ Of("S5") /\ S5!OrderingWorkerStep
  /\ UNCHANGED <<vars, lineageVars, callers, bindingVars, adapterOnlyVars, logVars, results>>

ExperimentsNext == ExperimentsCoordinator \/ ExperimentsWorkers

(* The coordinator is one program that is scheduled again and again; the   *)
(* workers may be as slow as they like, or stop.                           *)
ExperimentsSpec ==
  /\ ExperimentsInit /\ [][ExperimentsNext]_experimentVars
  /\ WF_experimentVars(ExperimentsCoordinator)

---------------------------------------------------------------------------
(* Every trial of every family ends as its scenario declares: the          *)
(* superseded attempt is not committed, the wrong State not consumed under *)
(* the continuity-aware policy, the unauthorized binding not advanced, the *)
(* ambiguous outcome not committed, the repeated call without effect.  On  *)
(* the way the oracle, which the trials call between their steps, accepts  *)
(* the core after every one of them, and after an injected divergence too: *)
(* what is wrong then only the declared end can tell.  Only the output S5  *)
(* injects, which does not exist, is seen by it.                           *)
TrialsEndAsDeclared ==
  /\ OracleAccepts \/ (Of("S5") /\ trial.injected)
  /\ Of("S5") => S5!EventIdentity
  /\ Of("S1") => S1!AttemptTrialsEndAsDeclared
  /\ Of("S2") => S2!LineageTrialsEndAsDeclared
  /\ Of("S3") => S3!BindingTrialsEndAsDeclared
  /\ Of("S4") => S4!EvidenceTrialsEndAsDeclared
  /\ Of("S5") => S5!OrderingTrialsEndAsDeclared
  /\ Of("C7.4") => C74!MigrationTrialsEndAsDeclared

(* The metrics of every family report a violation exactly when there was   *)
(* one, also when it is injected: the zeros the experiments report are not *)
(* zeros of a blind instrument.                                            *)
VerdictsAreTruthful ==
  /\ Of("S1") => S1!AttemptVerdictsAreTruthful
  /\ Of("S2") => S2!LineageVerdictsAreTruthful
  /\ Of("S3") => S3!BindingVerdictsAreTruthful
  /\ Of("S4") => S4!EvidenceVerdictsAreTruthful
  /\ Of("S5") => S5!OrderingVerdictsAreTruthful
  /\ Of("C7.4") => C74!MigrationVerdictsAreTruthful

(* Workers are reused from one trial to the next: nothing of an earlier    *)
(* trial, scenario or delivery shows up as something of this one, neither  *)
(* in what a worker holds nor in what the coordinator reads.               *)
NothingLeaksBetweenTrials ==
  /\ HandshakeHolds
  /\ Of("S3") => S3!CopiesAreOfThisTrial
  /\ Of("S4") => S4!ObservationsAreOfThisScenario
  /\ Of("S5") => S5!RepeatsAreIdentical

LeftBehind == {w \in DOMAIN workers : workers[w].alive}

(* Every case ends, even if its workers hang: a wait for an answer is      *)
(* bounded.  It leaves no worker behind but when one it started was not    *)
(* ready: that one then, which it does not hold yet, and the ones before   *)
(* it only if this was at the start of the case, before its first trial    *)
(* (the workers are spawned before the try that stops them in the end).    *)
CasesEnd ==
  <>(/\ script = <<>>
     /\ LeftBehind # {} => raised = "not ready"
     /\ Cardinality({w \in LeftBehind : ~workers[w].held}) <= 1
     /\ (\E w \in LeftBehind : workers[w].held) => results = <<>>)
=============================================================================
