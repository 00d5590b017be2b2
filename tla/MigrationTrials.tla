-------------------------- MODULE MigrationTrials --------------------------
(***************************************************************************)
(* The migration and failover cells of the efficiency experiments          *)
(* (experiments/c74_migration_engine.py).  After a failure, or for a       *)
(* planned migration, a policy moves a State or recomputes it, whichever   *)
(* it believes cheaper; a transfer counts only when its binding commits    *)
(* through the semantic core, and what does not commit is recomputed.      *)
(* A cell is sequential and has no worker processes.                       *)
(***************************************************************************)
EXTENDS InvariantOracle, PlacementPolicies, Trials

VARIABLE results   \* the finished cells

migrationTrialVars == <<bindingCoreVars, harnessVars, results>>

MigrationPolicies == {"B0", "B1", "B2", "B3", "B4"}
MigratingSubject == "state:x"

(* Whether moving the State is cheaper than recomputing it.                *)
Crossovers == {"TRANSFER_FASTER", "RECOMPUTE_FASTER", "TIE"}

(* ReconcileOutcome, as the policy is told of it.                          *)
Reconciliations == {"MATCHED", "WAIT", "AMBIGUOUS", "FAIL"}

---------------------------------------------------------------------------
(* C74_SCENARIO_SPECS: whether a complete State is there to be moved, what *)
(* the reconciliation is, whether the destination fails before the commit. *)
MigrationScenario(id, available, expected, fails, candidate, setup) ==
  [id |-> id, available |-> available, expected |-> expected, destinationFails |-> fails,
   candidate |-> candidate, setup |-> setup]

Initial(b) == [op |-> "initial", binding |-> b]
Candidate(b, w) == <<[op |-> "propose", binding |-> b, location |-> w],
                     [op |-> "begin", binding |-> b]>>
Winner(b) == <<[op |-> "evidence", binding |-> b], [op |-> "commit", binding |-> b]>>

MigrationScenarios ==
  LET One == Candidate("b2", "w2") IN
  {MigrationScenario("MATCHED_PLANNED_MIGRATION", TRUE, "MATCHED", FALSE, "b2", One),
   MigrationScenario("SOURCE_FAILURE_VALID_REMOTE", TRUE, "MATCHED", FALSE, "b2", One),
   MigrationScenario("DESTINATION_FAILURE", TRUE, "MATCHED", TRUE, "b2", One),
   MigrationScenario("STALE_BINDING_RESIDUAL", TRUE, "WAIT", FALSE, "b2",
                     One \o Candidate("b3", "w3") \o Winner("b3")),
   MigrationScenario("CONCURRENT_CANDIDATE_LOSER", TRUE, "WAIT", FALSE, "b3",
                     One \o Candidate("b3", "w3") \o Winner("b2")),
   MigrationScenario("PARTIAL_MATERIALIZATION", FALSE, "WAIT", FALSE, "b2", One)}

---------------------------------------------------------------------------
Done == Continue(<<>>) /\ UNCHANGED <<workers, raised>>

(* _record_commit_evidence: readiness of the binding's own epoch.          *)
Readiness(b) ==
  [authority |-> EXACT_OBSERVATION, status |-> "VALID", observed |-> 0, until |-> NULL,
   scope |-> {<<"binding", b>>, <<"epoch", bindings[b].epoch>>}, key |-> b, value |-> "ready",
   support |-> {}, rule |-> FALSE]
RecordReadiness(b) ==
  RecordEvidence("e:" \o b, Readiness(b), DOMAIN bindings) /\ UNCHANGED bindingVars

(* _scaffold_core and _build_scenario_runtime.                             *)
SetupStep ==
  /\ \/ At("initial") /\ ActivateInitialBinding(Step.binding, MigratingSubject, "w1", {})
     \/ At("propose") /\ ProposeBinding(Step.binding, MigratingSubject, Step.location, {})
     \/ At("begin") /\ BeginMigration(Step.binding)
     \/ At("evidence") /\ RecordReadiness(Step.binding)
     \/ At("commit") /\ CommitMigration(Step.binding, {"e:" \o Step.binding}, 0)
  /\ Done /\ UNCHANGED <<trial, results>>

(* What the result is compared with is read before anything is done.       *)
SnapshotStep ==
  /\ At("snapshot")
  /\ trial' = [trial EXCEPT !.expectedBinding = currentBinding[MigratingSubject],
                            !.expectedEpoch = currentEpoch[MigratingSubject]]
  /\ Done /\ UNCHANGED <<bindingCoreVars, results>>

(* _policy_observation: what there is to be seen of the State.             *)
MigrationObservation ==
  LET b == trial.scenario.candidate IN
  PolicyObservation(
    [request |-> <<trial.scenario.id>>, program |-> <<"p">>, session |-> <<"s">>,
     continuation |-> <<"c">>, binding |-> <<b>>, epoch |-> <<bindings[b].epoch>>,
     reconciliation |-> <<trial.reconciliation>>,
     exact |-> IF trial.scenario.available THEN <<"x">> ELSE Absent,
     locations |-> IF trial.scenario.available THEN {"w1"} ELSE {}])

(* _select_action: the baselines recompute; B3 moves what is there if that *)
(* is not slower; B4 also wants the migration reconciled.                  *)
SelectsTransfer(policy) ==
  LET view == Project(MigrationObservation, policy) IN
  /\ \/ policy = "B3" /\ view.exact # Absent /\ view.locations # {}
     \/ policy = "B4" /\ DecideMigration(view) = "ALLOW_COMMIT" /\ trial.scenario.available
  /\ trial.crossover # "RECOMPUTE_FASTER"

SelectStep ==
  /\ At("select")
  /\ trial' = [trial EXCEPT !.transfers = SelectsTransfer(trial.policy),
                            !.recomputes = ~SelectsTransfer(trial.policy)]
  /\ Continue(IF SelectsTransfer(trial.policy) THEN <<[op |-> "ready"], [op |-> "move"]>> ELSE <<>>)
  /\ UNCHANGED <<workers, raised, bindingCoreVars, results>>

(* Which cells have evidence for the commit: those whose destination is    *)
(* ready, and those that only the epoch keeps from committing.             *)
EvidenceAtCommit ==
  \/ trial.scenario.id \in {"STALE_BINDING_RESIDUAL", "CONCURRENT_CANDIDATE_LOSER"}
  \/ /\ trial.scenario.expected = "MATCHED" /\ ~trial.scenario.destinationFails
     /\ trial.reconciliation = "MATCHED"

ReadyStep ==
  /\ At("ready")
  /\ IF EvidenceAtCommit
     THEN RecordReadiness(trial.scenario.candidate)
     ELSE UNCHANGED bindingCoreVars
  /\ Done /\ UNCHANGED <<trial, results>>

(* The commit of the transfer, which the core may reject.                  *)
MovesThroughCore(b, ids) ==
  IF CanCommitMigration(b, ids, 2) THEN CommitMigration(b, ids, 2) ELSE UNCHANGED bindingCoreVars

(* _attempt_transfer_commit, and the fallback when it is rejected.         *)
MoveStep ==
  /\ At("move")
  /\ LET b == trial.scenario.candidate
         ids == {"e:" \o b} \cap DOMAIN evidence
         moved == CanCommitMigration(b, ids, 2) IN
     /\ MovesThroughCore(b, ids)
     /\ trial' = [trial EXCEPT !.moved = moved, !.recomputes = ~moved,
                    !.expectedBinding = IF moved THEN b ELSE @,
                    !.expectedEpoch = IF moved THEN bindings[b].epoch ELSE @]
  /\ Done /\ UNCHANGED results

(* _inject_authority_corruption: the candidate is made current behind the  *)
(* core's back.                                                            *)
CorruptStep ==
  /\ At("corrupt")
  /\ LET b == trial.scenario.candidate
         was == currentBinding[MigratingSubject] IN
     /\ bindings' = [[bindings EXCEPT ![was].status = "SUPERSEDED"] EXCEPT ![b].status = "ACTIVE"]
     /\ currentBinding' = [currentBinding EXCEPT ![MigratingSubject] = b]
     /\ currentEpoch' = [currentEpoch EXCEPT ![MigratingSubject] = bindings[b].epoch]
  /\ UNCHANGED <<lastAllocatedEpoch, evidence>>
  /\ Done /\ UNCHANGED <<trial, results>>

(* The accounts of the cell, and whether it may be used to compare         *)
(* policies.                                                               *)
MigrationEvaluate ==
  /\ At("evaluate")
  /\ LET violated == \/ currentBinding[MigratingSubject] # trial.expectedBinding
                     \/ currentEpoch[MigratingSubject] # trial.expectedEpoch
                     \/ ~OracleAccepts
         authorizable == /\ trial.scenario.expected = "MATCHED" /\ ~trial.scenario.destinationFails
                         /\ trial.reconciliation = "MATCHED" IN
     results' = Append(results,
       [current |-> currentBinding[MigratingSubject], violation |-> violated,
        transferred |-> trial.transfers, moved |-> trial.moved, recomputed |-> trial.recomputes,
        wastedTransfer |-> trial.transfers /\ ~trial.moved,
        wastedRecompute |-> /\ ~trial.transfers /\ authorizable
                            /\ trial.crossover = "TRANSFER_FASTER",
        eligible |-> /\ ~violated /\ trial.scenario.available
                     /\ trial.reconciliation = trial.scenario.expected])
  /\ Done /\ UNCHANGED <<trial, bindingCoreVars>>

MigrationCoordinator ==
  \/ SetupStep \/ SnapshotStep \/ SelectStep \/ ReadyStep \/ MoveStep \/ CorruptStep
  \/ MigrationEvaluate

---------------------------------------------------------------------------
MigrationScript(scenario, injected) ==
  <<Initial("b1")>> \o scenario.setup \o <<[op |-> "snapshot"], [op |-> "select"]>>
    \o (IF injected THEN <<[op |-> "corrupt"]>> ELSE <<>>) \o <<[op |-> "evaluate"]>>

MigrationTrialsInit ==
  /\ BindingCoreInit
  /\ \E scenario \in MigrationScenarios, policy \in MigrationPolicies,
        reconciliation \in Reconciliations, crossover \in Crossovers, injected \in BOOLEAN :
       /\ trial = [family |-> "C7.4", scenario |-> scenario, policy |-> policy,
                   reconciliation |-> reconciliation, crossover |-> crossover,
                   injected |-> injected, transfers |-> FALSE, moved |-> FALSE,
                   recomputes |-> FALSE, expectedBinding |-> NULL, expectedEpoch |-> 0]
       /\ script = MigrationScript(scenario, injected)
  /\ workers = <<>>
  /\ raised = "none"
  /\ results = <<>>

---------------------------------------------------------------------------
(* A State gets to its consumer exactly one way: by a transfer that has    *)
(* committed or by being recomputed, and the binding has advanced exactly  *)
(* in the first case, whatever the policy was told.  A policy that was     *)
(* told the truth wastes a transfer only when the destination fails later, *)
(* except B3, which does not see the reconciliation; B4 alone wastes       *)
(* neither, whenever it can be compared at all.                            *)
MigrationTrialsEndAsDeclared ==
  \A i \in 1..Len(results) :
    LET r == results[i] IN
      /\ r.moved = ~r.recomputed
      /\ ~trial.injected =>
           /\ ~r.violation
           /\ (r.current = trial.scenario.candidate) = r.moved
      /\ r.moved => /\ trial.scenario.expected = "MATCHED" /\ ~trial.scenario.destinationFails
                    /\ trial.reconciliation = "MATCHED"
      /\ r.eligible /\ trial.policy = "B4" =>
           /\ r.wastedTransfer => trial.scenario.destinationFails
           /\ ~r.wastedRecompute

(* An authority that was corrupted is always reported, and keeps the cell  *)
(* out of the comparison, unless the commit had just done the same.        *)
MigrationVerdictsAreTruthful ==
  \A i \in 1..Len(results) :
    trial.injected /\ ~results[i].moved => results[i].violation /\ ~results[i].eligible
=============================================================================
