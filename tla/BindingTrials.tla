--------------------------- MODULE BindingTrials ---------------------------
(***************************************************************************)
(* Experiment family S3: a migration commit is presented late, without     *)
(* sufficient Evidence, or by a loser, and must not move the authority.    *)
(* EV0 and the adversarial cases drive the core alone; in EV1 the copies   *)
(* are made by worker processes, one per location.  Under every policy the *)
(* same core decides; only B4 has a view of bindings, and only advises.    *)
(***************************************************************************)
EXTENDS BindingEpochs, PlacementPolicies, Trials, SequencesExt

VARIABLE results   \* the finished trials of the case

bindingTrialVars == <<bindingCoreVars, harnessVars, results>>

Policies == <<"B0", "B1", "B2", "B3", "B4">>
Workers == {"w1", "w2", "w3"}
Subject == "state:x"

---------------------------------------------------------------------------
(* Steps of the coordinator on the core.                                   *)
Scaffold(policy) == [op |-> "scaffold", policy |-> policy]
Propose(b, location) == [op |-> "propose", binding |-> b, location |-> location]
Begin(b) == [op |-> "begin", binding |-> b]
Decide(b, reconciliation) ==
  [op |-> "decide", binding |-> b, reconciliation |-> reconciliation]
Observe(b, i, scope) == [op |-> "observe", binding |-> b, evidence |-> i, scope |-> scope]
CommitSetup(b, i) == [op |-> "commit", binding |-> b, ids |-> {i}]
RejectSetup(b, i) == [op |-> "reject", binding |-> b, ids |-> {i}]
Present(b, ids) == [op |-> "present", binding |-> b, ids |-> ids]
Evaluate == [op |-> "evaluate"]

ProposeBegin(b, location) == <<Propose(b, location), Begin(b)>>
CommitSetupWinner(b) == <<Observe(b, "setup-" \o b, "GOOD"), CommitSetup(b, "setup-" \o b)>>

Scenario(id, expected, epoch, faulted, waits) ==
  [id |-> id, expected |-> expected, epoch |-> epoch, faulted |-> faulted, waits |-> waits]

---------------------------------------------------------------------------
(* EV0: the five canonical sequences.                                      *)
PartialMigration ==
  ProposeBegin("b2", "w2") \o <<Decide("b2", "WAIT"), Present("b2", {})>>

StaleEpochCandidate ==
  ProposeBegin("b2", "w2") \o ProposeBegin("b3", "w3") \o CommitSetupWinner("b2")
    \o <<Observe("b3", "final", "GOOD"), Decide("b3", "MATCHED"), Present("b3", {"final"})>>

LateOldOwner ==
  ProposeBegin("b2", "w2") \o CommitSetupWinner("b2")
    \o <<Observe("b1", "final", "GOOD"), Decide("b1", "MATCHED"), Present("b1", {"final"})>>

ConcurrentMigration ==
  ProposeBegin("b2", "w2") \o ProposeBegin("b3", "w3")
    \o <<Decide("b2", "MATCHED"), Decide("b3", "MATCHED")>> \o CommitSetupWinner("b2")
    \o <<Observe("b3", "final", "GOOD"), Present("b3", {"final"})>>

SuccessControl ==
  ProposeBegin("b2", "w2")
    \o <<Decide("b2", "MATCHED"), Observe("b2", "final", "GOOD"), CommitSetup("b2", "final")>>

E0Cases ==
  {<<Scenario("PARTIAL", "b1", 1, TRUE, TRUE), PartialMigration>>,
   <<Scenario("STALE", "b2", 2, TRUE, FALSE), StaleEpochCandidate>>,
   <<Scenario("LATE", "b2", 2, TRUE, FALSE), LateOldOwner>>,
   <<Scenario("CONCURRENT", "b2", 2, TRUE, FALSE), ConcurrentMigration>>,
   <<Scenario("CONTROL", "b2", 2, FALSE, FALSE), SuccessControl>>}

---------------------------------------------------------------------------
(* The adversarial cases: a setup profile, then one presentation.          *)
SetupProfile(profile) ==
  LET Hop(b, w) == ProposeBegin(b, w) \o CommitSetupWinner(b)
      Race == ProposeBegin("b2", "w2") \o ProposeBegin("b3", "w3")
      Race3 == Race \o ProposeBegin("b4", "w4")
      Hops2 == Hop("b2", "w2") \o Hop("b3", "w3")
      Hops3 == Hops2 \o Hop("b4", "w4")
  IN CASE profile \in {"SINGLE", "DESTINATION_FAIL"} -> ProposeBegin("b2", "w2")
       [] profile = "SEQUENTIAL_TWO" -> Hops2
       [] profile = "SEQUENTIAL_THREE" -> Hops3
       [] profile = "LOWEST_OF_THREE" -> Race3 \o CommitSetupWinner("b2")
       [] profile = "HIGHER_OF_TWO" -> Race \o CommitSetupWinner("b3")
       [] profile = "MIDDLE_OF_THREE" -> Race3 \o CommitSetupWinner("b3")
       [] profile = "PARTIAL_THEN_ALTERNATE" -> Race \o CommitSetupWinner("b3")
       [] profile = "COMMIT_B2" -> Hop("b2", "w2")
       [] profile = "REJECT_B3_ONCE" ->
            Race \o CommitSetupWinner("b2")
              \o <<Observe("b3", "old", "GOOD"), RejectSetup("b3", "old")>>
       [] profile = "REJECT_B1_AFTER_DEPTH3" ->
            Hops3 \o <<Observe("b1", "old", "GOOD"), RejectSetup("b1", "old")>>
       [] profile = "COMMIT_B2_THEN_PROPOSE_B3" -> Hop("b2", "w2") \o ProposeBegin("b3", "w3")

(* The Evidence of a presentation: good, of another binding or epoch, or   *)
(* none at all.                                                            *)
EvidenceForPresentation(b, mode) ==
  IF mode = "NONE" THEN <<Present(b, {})>>
  ELSE <<Observe(b, "final", mode), Present(b, {"final"})>>

AdversarialCase(id, profile, b, mode, reconciliation, expected, epoch, faulted, waits) ==
  <<Scenario(id, expected, epoch, faulted, waits),
    SetupProfile(profile) \o <<Decide(b, reconciliation)>> \o EvidenceForPresentation(b, mode)>>

AdversarialCases ==
  LET Late(id, profile, b, expected, epoch) ==
        AdversarialCase(id, profile, b, "GOOD", "MATCHED", expected, epoch, TRUE, FALSE)
      Waiting(id, profile, mode) ==
        AdversarialCase(id, profile, "b2", mode, "WAIT", "b1", 1, TRUE, TRUE)
  IN {Late("A1", "SEQUENTIAL_TWO", "b1", "b3", 3),
      Late("A2", "SEQUENTIAL_TWO", "b2", "b3", 3),
      Late("A3", "SEQUENTIAL_THREE", "b1", "b4", 4),
      Late("B1", "LOWEST_OF_THREE", "b4", "b2", 2),
      Late("B2", "HIGHER_OF_TWO", "b2", "b3", 3),
      Late("B3", "MIDDLE_OF_THREE", "b4", "b3", 3),
      Waiting("C1", "SINGLE", "NONE"),
      Waiting("C2", "SINGLE", "WRONG_BINDING"),
      Waiting("C3", "SINGLE", "WRONG_EPOCH"),
      AdversarialCase("C4", "SINGLE", "b2", "GOOD", "MATCHED", "b2", 2, FALSE, FALSE),
      Waiting("D1", "DESTINATION_FAIL", "NONE"),
      Late("D2", "PARTIAL_THEN_ALTERNATE", "b2", "b3", 3),
      Late("E1", "COMMIT_B2", "b2", "b2", 2),
      Late("E2", "REJECT_B3_ONCE", "b3", "b2", 2),
      Late("E3", "REJECT_B1_AFTER_DEPTH3", "b1", "b4", 4),
      AdversarialCase("E4", "COMMIT_B2_THEN_PROPOSE_B3", "b3", "GOOD", "MATCHED", "b3", 3, FALSE, FALSE)}

---------------------------------------------------------------------------
(* EV1: commands to the workers.                                           *)
Arm(w, b, epoch) == Command(w, [op |-> "ARM", binding |-> b, epoch |-> epoch], "ARMED")
Go(w) == <<Send(w, [op |-> "GO"])>>
Materialize(w, b, epoch) ==
  Arm(w, b, epoch) \o Go(w) \o <<Receive(w, "MATERIALIZED")>>
MaterializeConcurrently ==
  Arm("w2", "b2", 2) \o Arm("w3", "b3", 3) \o Go("w2") \o Go("w3")
    \o <<Receive("w2", "MATERIALIZED"), Receive("w3", "MATERIALIZED")>>
PhysicalInitialOwner == Materialize("w1", "b1", 1)
PresentationMessage(w, b) == Command(w, [op |-> "PRESENT", binding |-> b], "PRESENTATION")
ResetWorkers ==
  Command("w1", [op |-> "RESET"], "RESET") \o Command("w2", [op |-> "RESET"], "RESET")
    \o Command("w3", [op |-> "RESET"], "RESET")
SpawnWorkers == Spawn("w1") \o Spawn("w2") \o Spawn("w3")
EnsureWorkers == <<Ensure("w1"), Ensure("w2"), Ensure("w3")>>

PartialE1 ==
  ProposeBegin("b2", "w2") \o Materialize("w2", "b2", 2) \o <<Decide("b2", "WAIT")>>
    \o PresentationMessage("w2", "b2") \o <<Present("b2", {})>>

DestinationCrash ==
  ProposeBegin("b2", "w2") \o Materialize("w2", "b2", 2) \o <<Decide("b2", "WAIT")>>
    \o Command("w2", [op |-> "CRASH"], "CRASHING") \o <<Join("w2"), Present("b2", {})>>

(* The measured message of the last presenter is the final Evidence.       *)
PresentMeasured(w, b) ==
  PresentationMessage(w, b) \o <<Observe(b, "final", "GOOD"), Present(b, {"final"})>>

LateOldOwnerE1 ==
  ProposeBegin("b2", "w2") \o Materialize("w2", "b2", 2) \o <<Decide("b2", "MATCHED")>>
    \o CommitSetupWinner("b2") \o PresentationMessage("w1", "b1") \o <<Decide("b1", "MATCHED")>>
    \o <<Observe("b1", "final", "GOOD"), Present("b1", {"final"})>>

ConcurrentE1 ==
  ProposeBegin("b2", "w2") \o ProposeBegin("b3", "w3") \o MaterializeConcurrently
    \o <<Decide("b2", "MATCHED"), Decide("b3", "MATCHED")>>
    \o CommitSetupWinner("b2") \o PresentMeasured("w3", "b3")

(* The loser still computes while the winner is committed.                 *)
DelayedStaleLoser ==
  ProposeBegin("b2", "w2") \o ProposeBegin("b3", "w3") \o MaterializeConcurrently
    \o <<Decide("b2", "MATCHED"), Decide("b3", "MATCHED"), Send("w3", [op |-> "CPU"])>>
    \o CommitSetupWinner("b2") \o <<Receive("w3", "CPU_RESULT")>> \o PresentMeasured("w3", "b3")

MultiEpochLateOwner ==
  ProposeBegin("b2", "w2") \o Materialize("w2", "b2", 2) \o <<Decide("b2", "MATCHED")>>
    \o CommitSetupWinner("b2")
    \o ProposeBegin("b3", "w3") \o Materialize("w3", "b3", 3) \o <<Decide("b3", "MATCHED")>>
    \o CommitSetupWinner("b3") \o PresentationMessage("w1", "b1") \o <<Decide("b1", "MATCHED")>>
    \o <<Observe("b1", "final", "GOOD"), Present("b1", {"final"})>>

SuccessE1 ==
  ProposeBegin("b2", "w2") \o Materialize("w2", "b2", 2) \o <<Decide("b2", "MATCHED")>>
    \o PresentMeasured("w2", "b2")

E1Cases ==
  {<<Scenario("E1-A", "b1", 1, TRUE, TRUE), PartialE1>>,
   <<Scenario("E1-B", "b1", 1, TRUE, TRUE), DestinationCrash>>,
   <<Scenario("E1-C", "b2", 2, TRUE, FALSE), LateOldOwnerE1>>,
   <<Scenario("E1-D", "b2", 2, TRUE, FALSE), ConcurrentE1>>,
   <<Scenario("E1-E", "b2", 2, TRUE, FALSE), DelayedStaleLoser>>,
   <<Scenario("E1-F", "b3", 3, TRUE, FALSE), MultiEpochLateOwner>>,
   <<Scenario("E1-G", "b2", 2, FALSE, FALSE), SuccessE1>>}

---------------------------------------------------------------------------
(* A worker holds copies of bindings, each of the epoch it was made for,   *)
(* and at most one armed materialization.                                  *)
WithCopy(worker, b, epoch) ==
  [worker EXCEPT !.store = With(@, b, epoch), !.pending = Nothing]

(* Mutant: RESET keeps the copies.                                         *)
ResetKeepingCopies(worker) == [worker EXCEPT !.pending = Nothing]

Reset(worker) == [worker EXCEPT !.store = <<>>, !.pending = Nothing]

HandleBindingCommand(worker, command) ==
  CASE command.op = "RESET" -> Answer(Reset(worker), [kind |-> "RESET"])
    [] command.op = "ARM" ->
         IF worker.pending # Nothing THEN Exit(worker)
         ELSE Answer([worker EXCEPT !.pending = command], [kind |-> "ARMED"])
    [] command.op = "GO" ->
         IF worker.pending = Nothing THEN Exit(worker)
         ELSE Answer(WithCopy(worker, worker.pending.binding, worker.pending.epoch),
                     [kind |-> "MATERIALIZED"])
    [] command.op = "CPU" -> Answer(worker, [kind |-> "CPU_RESULT"])
    [] command.op = "PRESENT" ->
         IF command.binding \notin DOMAIN worker.store THEN Exit(worker)
         ELSE Answer(worker, [kind |-> "PRESENTATION", binding |-> command.binding,
                              epoch |-> worker.store[command.binding]])
    [] command.op = "CRASH" -> AnnounceCrash(worker)

---------------------------------------------------------------------------
(* The steps on the core.  Setup that is refused raises out of the trial.  *)
BindingDone == Continue(<<>>) /\ UNCHANGED <<workers, raised>>
BindingRefused == Raise("refused") /\ UNCHANGED <<trial, workers, results, bindingCoreVars>>

(* A core of its own for every trial, with x bound to w1.                  *)
ScaffoldStep ==
  /\ At("scaffold")
  /\ bindings' = [b \in {"b1"} |-> [subject |-> Subject, location |-> "w1", base |-> 0,
                                     epoch |-> 1, status |-> "ACTIVE"]]
  /\ currentBinding' = [s \in {Subject} |-> "b1"]
  /\ currentEpoch' = [s \in {Subject} |-> 1]
  /\ lastAllocatedEpoch' = [s \in {Subject} |-> 1]
  /\ evidence' = <<>>
  /\ trial' = [trial EXCEPT !.policy = Step.policy, !.decisions = <<>>, !.outcome = "NONE"]
  /\ BindingDone /\ UNCHANGED results

ProposeStep ==
  /\ At("propose")
  /\ ProposeBinding(Step.binding, Subject, Step.location, {})
  /\ BindingDone /\ UNCHANGED <<trial, results>>

BeginStep ==
  /\ At("begin")
  /\ BeginMigration(Step.binding)
  /\ BindingDone /\ UNCHANGED <<trial, results>>

(* Only B4 sees a binding, its epoch and the reconciliation.               *)
BindingObservation(b, reconciliation) ==
  PolicyObservation([request |-> <<"binding-op">>, binding |-> <<b>>,
                     epoch |-> <<bindings[b].epoch>>, reconciliation |-> <<reconciliation>>])

DecideStep ==
  /\ At("decide")
  /\ trial' = IF trial.policy # "B4" THEN trial
              ELSE [trial EXCEPT !.decisions = Append(@,
                      DecideMigration(Project(BindingObservation(Step.binding, Step.reconciliation),
                                              "B4")))]
  /\ BindingDone /\ UNCHANGED <<results, bindingCoreVars>>

(* Evidence that a copy is in place; a wrong scope names another binding   *)
(* or an epoch far from the binding's.                                     *)
Readiness(b, scope) ==
  [authority |-> EXACT_OBSERVATION, status |-> "VALID", observed |-> 0, until |-> NULL,
   scope |-> {<<"binding", IF scope = "WRONG_BINDING" THEN "b1" ELSE b>>,
              <<"epoch", bindings[b].epoch + IF scope = "WRONG_EPOCH" THEN 100 ELSE 0>>},
   key |-> NULL, value |-> NULL, support |-> {}, rule |-> FALSE]

ObserveStep ==
  /\ At("observe")
  /\ RecordEvidence(Step.evidence, Readiness(Step.binding, Step.scope), DOMAIN bindings)
  /\ BindingDone /\ UNCHANGED <<trial, results, bindingVars>>

CommitStep ==
  /\ At("commit")
  /\ IF CanCommitMigration(Step.binding, Step.ids, 0)
     THEN CommitMigration(Step.binding, Step.ids, 0) /\ BindingDone /\ UNCHANGED <<trial, results>>
     ELSE BindingRefused

(* A presentation of the setup that has to be rejected.                    *)
RejectStep ==
  /\ At("reject")
  /\ IF CanCommitMigration(Step.binding, Step.ids, 0) THEN BindingRefused
     ELSE BindingDone /\ UNCHANGED <<trial, results, bindingCoreVars>>

(* The divergence the self-test of the metric injects: the core is         *)
(* overwritten as if it had believed the presentation.                     *)
Diverged(b) ==
  [x \in DOMAIN bindings |->
     IF x = b THEN [bindings[x] EXCEPT !.status = "ACTIVE"]
     ELSE IF x = currentBinding[Subject] THEN [bindings[x] EXCEPT !.status = "SUPERSEDED"]
     ELSE bindings[x]]

(* Mutant: the presented binding is taken at its word.                     *)
PresentTrusting(b, ids) ==
  /\ bindings' = Diverged(b)
  /\ currentBinding' = [currentBinding EXCEPT ![Subject] = b]
  /\ currentEpoch' = [currentEpoch EXCEPT ![Subject] = bindings[b].epoch]
  /\ UNCHANGED <<lastAllocatedEpoch, evidence>>

PresentToCore(b, ids) ==
  \/ CommitMigration(b, ids, 0)
  \/ ~CanCommitMigration(b, ids, 0) /\ UNCHANGED bindingCoreVars

PresentStep ==
  /\ At("present")
  /\ LET b == Step.binding
         applied == CanCommitMigration(b, Step.ids, 0) IN
     /\ IF trial.injected /\ ~applied
        THEN /\ bindings' = Diverged(b)
             /\ currentBinding' = [currentBinding EXCEPT ![Subject] = b]
             /\ currentEpoch' = [currentEpoch EXCEPT ![Subject] = bindings[b].epoch]
             /\ UNCHANGED <<lastAllocatedEpoch, evidence>>
        ELSE PresentToCore(b, Step.ids)
     /\ trial' = [trial EXCEPT !.outcome = IF applied THEN "APPLIED" ELSE "REJECTED"]
  /\ BindingDone /\ UNCHANGED results

IsDivergence(scenario, b, epoch) == b # scenario.expected \/ epoch # scenario.epoch

(* The trial's record: the final authority against the declared one.       *)
EvaluateStep ==
  /\ At("evaluate")
  /\ LET b == currentBinding[Subject]
         epoch == currentEpoch[Subject]
         diverged == IsDivergence(trial.scenario, b, epoch) IN
     results' = Append(results,
       [policy |-> trial.policy, binding |-> b, epoch |-> epoch, outcome |-> trial.outcome,
        decisions |-> trial.decisions,
        violations |-> IF trial.scenario.faulted /\ diverged THEN 1 ELSE 0,
        semantic |-> IF trial.injected THEN "WRONG"
                     ELSE IF trial.scenario.waits THEN "WAIT"
                     ELSE IF diverged THEN "WRONG" ELSE "CORRECT"])
  /\ BindingDone /\ UNCHANGED <<trial, bindingCoreVars>>

BindingCoreStep ==
  \/ ScaffoldStep \/ ProposeStep \/ BeginStep \/ DecideStep \/ ObserveStep \/ CommitStep
  \/ RejectStep \/ PresentStep \/ EvaluateStep

---------------------------------------------------------------------------
(* A case: the same script under each policy, between the start and the    *)
(* end of the workers if it has any.                                       *)
DeterministicTrial(policy, steps) == <<Scaffold(policy)>> \o steps \o <<Evaluate>>
MeasuredTrial(policy, steps) ==
  EnsureWorkers \o ResetWorkers \o PhysicalInitialOwner \o DeterministicTrial(policy, steps)

DeterministicCases == E0Cases \cup AdversarialCases

BindingScript(case) ==
  IF case \in E1Cases
  THEN SpawnWorkers \o <<Try>>
         \o FlattenSeq([i \in 1..Len(Policies) |-> MeasuredTrial(Policies[i], case[2])])
         \o <<StopAll>>
  ELSE FlattenSeq([i \in 1..Len(Policies) |-> DeterministicTrial(Policies[i], case[2])])

(* The divergence is injected into faulted scenarios, and the self-tests   *)
(* inject it where the presented binding is not the declared one.          *)
Injectable(scenario) == scenario.faulted /\ scenario.id # "E1"

BindingTrialsInit ==
  /\ BindingCoreInit
  /\ \E case \in DeterministicCases \cup E1Cases, injected \in BOOLEAN :
       /\ injected => Injectable(case[1])
       /\ trial = [family |-> "S3", scenario |-> case[1], injected |-> injected, policy |-> "none",
                   answers |-> [w \in Workers |-> Nothing], decisions |-> <<>>,
                   outcome |-> "NONE"]
       /\ script = BindingScript(case)
  /\ workers = [w \in Workers |-> NoWorker]
  /\ raised = "none"
  /\ results = <<>>

BindingWorkerStep ==
  \E w \in Workers :
    /\ workers[w].alive /\ workers[w].inbox # <<>>
    /\ WorkerHandles(w, HandleBindingCommand(Taken(w), workers[w].inbox[1]))

BindingCoordinator ==
  BindingCoreStep \/ (CoordinatorStep /\ UNCHANGED <<bindingCoreVars, results>>)

BindingTrialsNext ==
  \/ BindingCoordinator
  \/ (ProcessStep \/ BindingWorkerStep) /\ UNCHANGED <<bindingCoreVars, results>>

---------------------------------------------------------------------------
(* Every trial that is reported ends with the authority its scenario       *)
(* declared before any policy ran, under every policy and in whatever      *)
(* order the workers materialize, present and crash: a faulted             *)
(* presentation is never applied (zero silent binding divergence) and the  *)
(* controls advance.                                                       *)
BindingTrialsEndAsDeclared ==
  \A i \in 1..Len(results) :
    LET r == results[i] IN
      ~trial.injected =>
        /\ r.binding = trial.scenario.expected /\ r.epoch = trial.scenario.epoch
        /\ trial.scenario.faulted => r.outcome = "REJECTED"
        /\ r.semantic \notin {"WRONG"}

(* The metric is not blind: a violation is counted exactly when the final  *)
(* authority of a faulted trial is not the declared one, and an injected   *)
(* divergence is always counted.                                           *)
BindingVerdictsAreTruthful ==
  \A i \in 1..Len(results) :
    LET r == results[i] IN
      /\ (r.violations = 1) = (r.binding # trial.scenario.expected)
      /\ trial.injected => r.violations = 1 /\ r.semantic = "WRONG"

(* Nothing of an earlier trial is left in the workers: once the core of a  *)
(* trial exists, every copy a worker holds, and every copy it presents, is *)
(* of a binding of that core, made at its location and of its epoch        *)
(* (_reset_workers, and the processes started anew by _ensure_workers).    *)
InTrial == \E i \in 1..Len(script) : script[i] = Evaluate
                                    /\ \A j \in 1..i : script[j].op # "scaffold"
CopiesAreOfThisTrial ==
  InTrial =>
    \A w \in DOMAIN workers : \A b \in DOMAIN workers[w].store :
      /\ b \in DOMAIN bindings
      /\ bindings[b].location = w /\ bindings[b].epoch = workers[w].store[b]
=============================================================================
