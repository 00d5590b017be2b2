--------------------------- MODULE EvidenceTrials ---------------------------
(***************************************************************************)
(* Experiment family S4: a request whose attempt has succeeded is          *)
(* finalized with Evidence that is ambiguous, contradictory, stale, too    *)
(* weak, expired, about another attempt, or missing.  In EV0 and the       *)
(* adversarial cases the Evidence is fixed; in EV1 worker processes        *)
(* observe the outcome, one contradicts another, and one dies before it    *)
(* can report.  Time is doubled: a half is one unit.                       *)
(***************************************************************************)
EXTENDS AttemptFencing, Trials, SequencesExt

VARIABLE results   \* the finished trials of the case

evidenceTrialVars == <<vars, harnessVars, results>>

Policies == <<"B0", "B1", "B2", "B3", "B4">>
Workers == {"w1", "w2", "w3"}
EVNow == 4

---------------------------------------------------------------------------
(* The Evidence of a scenario.                                             *)
Observation(authority, status, about) ==
  [authority |-> authority, status |-> status, observed |-> 2, until |-> NULL,
   scope |-> {<<"attempt", about>>}, key |-> NULL, value |-> NULL, support |-> {},
   rule |-> FALSE]
Exact(status) == Observation(EXACT_OBSERVATION, status, "a")
Until(e, t) == [e EXCEPT !.until = t]
Outcome(e, value) == [e EXCEPT !.key = "outcome", !.value = value]
DerivedFromExact == [Observation(DERIVED, "VALID", "a") EXCEPT !.support = {"1"}, !.rule = TRUE]

Record(i, e) == [op |-> "record", id |-> i, evidence |-> e]
(* Record the Evidences and attach them all to the output; the support of  *)
(* a derived one is recorded only.                                         *)
RecordAll(es) == [i \in 1..Len(es) |-> Record(ToString(i), es[i])]
All(es) == {ToString(i) : i \in 1..Len(es)}

EvidenceCase(id, reconciliation, es, ids) ==
  [id |-> id, reconciliation |-> reconciliation, allowed |-> reconciliation = "MATCHED",
   records |-> RecordAll(es), ids |-> ids]
Plain(id, reconciliation, es) == EvidenceCase(id, reconciliation, es, All(es))

EV0Cases ==
  {Plain("AMBIGUOUS", "AMBIGUOUS", <<Exact("AMBIGUOUS")>>),
   Plain("MIXED", "AMBIGUOUS", <<Exact("VALID"), Exact("AMBIGUOUS")>>),
   Plain("STALE", "WAIT", <<Exact("STALE")>>),
   Plain("UNKNOWN", "WAIT", <<Exact("UNKNOWN")>>),
   Plain("FAILED", "WAIT", <<Exact("FAILED")>>),
   Plain("ESTIMATED", "WAIT", <<Observation(ESTIMATED, "VALID", "a")>>),
   EvidenceCase("DERIVED", "WAIT", <<Exact("VALID"), DerivedFromExact>>, {"2"}),
   Plain("WRONG-SCOPE", "WAIT", <<Observation(EXACT_OBSERVATION, "VALID", "other")>>),
   Plain("EXPIRED", "WAIT", <<Until(Exact("VALID"), 3)>>),
   Plain("CONTROL", "MATCHED", <<Exact("VALID")>>)}

AdversarialEvidenceCases ==
  LET Other(status) == Observation(EXACT_OBSERVATION, status, "other") IN
  {Plain("A1", "AMBIGUOUS", <<Outcome(Exact("VALID"), "SUCCEEDED"), Outcome(Exact("VALID"), "FAILED")>>),
   Plain("A2", "MATCHED", <<Outcome(Exact("VALID"), "SUCCEEDED"), Outcome(Exact("VALID"), "SUCCEEDED")>>),
   Plain("A3", "AMBIGUOUS", <<Exact("VALID"), Other("AMBIGUOUS")>>),
   Plain("B1", "MATCHED", <<Until(Exact("VALID"), EVNow)>>),
   Plain("B2", "WAIT", <<Until(Exact("VALID"), EVNow - 1)>>),
   Plain("B3", "MATCHED", <<[Exact("VALID") EXCEPT !.observed = -20000]>>),
   Plain("C1", "MATCHED", <<Observation(AUTHORITATIVE, "VALID", "a")>>),
   EvidenceCase("C2", "WAIT", <<Exact("VALID"), DerivedFromExact>>, {"2"}),
   Plain("D1", "MATCHED", <<Exact("VALID"), Other("VALID")>>),
   Plain("D2", "WAIT", <<Other("VALID")>>),
   Plain("E1", "WAIT", <<>>)}

---------------------------------------------------------------------------
(* EV1: what the coordinator asks of the workers in each scenario.         *)
Measure(scenario) == [op |-> "measure", scenario |-> scenario]
Keep(w) == [op |-> "keep", worker |-> w]
Observe(id, w, value, status, about) ==
  Command(w, [op |-> "OBSERVE", event |-> id, value |-> value, status |-> status,
              about |-> about], "OBSERVATION")
    \o <<Keep(w)>>
CrashAfterCpu(id, w) ==
  Command(w, [op |-> "CRASH_AFTER_CPU", event |-> id], "CRASHING") \o <<Join(w)>>

Measured(id, reconciliation, steps) ==
  [scenario |-> [id |-> id, reconciliation |-> reconciliation,
                 allowed |-> reconciliation = "MATCHED"],
   steps |-> steps]

EV1Scenarios ==
  LET Sees(id, w, value) == Observe(id, w, value, "VALID", "a") IN
  <<Measured("E1-A", "AMBIGUOUS", Sees("E1-A", "w1", "SUCCEEDED") \o Sees("E1-A", "w2", "FAILED")),
    Measured("E1-B", "AMBIGUOUS", Observe("E1-B", "w1", "UNKNOWN", "AMBIGUOUS", "a")),
    Measured("E1-C", "WAIT", Sees("E1-C", "w1", "SUCCEEDED")),
    Measured("E1-D", "WAIT", CrashAfterCpu("E1-D", "w2")),
    Measured("E1-E", "WAIT", Observe("E1-E", "w1", "SUCCEEDED", "VALID", "other")),
    Measured("E1-F", "MATCHED", Sees("E1-F", "w1", "SUCCEEDED") \o Sees("E1-F", "w2", "SUCCEEDED")),
    Measured("E1-G", "MATCHED", Sees("E1-G", "w3", "SUCCEEDED"))>>

EvidenceWorker(worker, command) ==
  IF command.op = "OBSERVE"
  THEN Answer(worker, [kind |-> "OBSERVATION", event |-> command.event, value |-> command.value,
                       status |-> command.status, about |-> command.about])
  ELSE AnnounceCrash(worker)

---------------------------------------------------------------------------
(* The coordinator's steps on the core.                                    *)
Scaffold(policy) == [op |-> "scaffold", policy |-> policy]
RecordMeasured == [op |-> "record measured"]
Judge == [op |-> "reconcile"]
Finalize == [op |-> "finalize"]
Evaluate == [op |-> "evaluate"]

Done == Continue(<<>>) /\ UNCHANGED <<workers, raised>>

MeasureStep ==
  /\ At("measure")
  /\ trial' = [trial EXCEPT !.scenario = Step.scenario, !.observations = <<>>]
  /\ Done /\ UNCHANGED <<vars, results>>

(* The observation is kept with the identity it came with.                 *)
KeepStep ==
  /\ At("keep")
  /\ trial' = [trial EXCEPT !.observations = Append(@, trial.answers[Step.worker])]
  /\ Done /\ UNCHANGED <<vars, results>>

(* _scaffold_core: one attempt that has succeeded and holds authority.     *)
ScaffoldStep ==
  /\ At("scaffold")
  /\ requests' = [r \in {"r"} |-> [NewRequest("c") EXCEPT !.status = "RUNNING", !.current = "a"]]
  /\ attempts' = [a \in {"a"} |-> [request |-> "r", generation |-> 1,
                                  execution |-> "SUCCEEDED", authority |-> "CURRENT"]]
  /\ outputs' = <<>> /\ evidence' = <<>>
  /\ trial' = [trial EXCEPT !.policy = Step.policy, !.reconciliation = "NONE",
                           !.ids = IF trial.measured THEN {} ELSE trial.scenario.ids]
  /\ Done /\ UNCHANGED results

RecordStep ==
  /\ At("record")
  /\ RecordEvidence(Step.id, Step.evidence, FencingIds)
  /\ Done /\ UNCHANGED <<trial, fencingVars, results>>

(* The Evidence made of a worker's observation; in one scenario it expires *)
(* just before it was made.                                                *)
MeasuredEvidence(o) ==
  [Outcome(Observation(EXACT_OBSERVATION, o.status, o.about), o.value) EXCEPT
     !.key = o.about,
     !.until = IF trial.scenario.id = "E1-C" THEN 1 ELSE NULL]

RecordMeasuredStep ==
  /\ At("record measured")
  /\ LET es == [i \in 1..Len(trial.observations) |-> MeasuredEvidence(trial.observations[i])]
     IN /\ trial' = [trial EXCEPT !.ids = All(es)]
        /\ Continue(RecordAll(es))
  /\ UNCHANGED <<vars, workers, raised, results>>

JudgeStep ==
  /\ At("reconcile")
  /\ trial' = [trial EXCEPT !.reconciliation =
                 Reconcile("finalize", trial.ids, EVNow, {<<"attempt", "a">>})]
  /\ Done /\ UNCHANGED <<vars, results>>

(* The output and the attempt to finalize it are the coordinator's next    *)
(* steps whatever reconcile has answered.                                  *)
OutputStep ==
  /\ At("output")
  /\ CreateOutput("o", "a", TRUE, trial.ids, {})
  /\ Done /\ UNCHANGED <<trial, results>>

Finalizes == RequireEvidence("finalize", trial.ids, EVNow, FinalizeScope("a"), NULL)

(* The self-test of the metric overwrites a refused commit.                *)
CommitAnyway ==
  /\ attempts' = [attempts EXCEPT !["a"].authority = "COMMITTED"]
  /\ requests' = [requests EXCEPT !["r"].status = "COMPLETED", !["r"].current = NULL,
                                  !["r"].committed = "a", !["r"].output = "o"]
  /\ UNCHANGED <<outputs, evidence>>

FinalizeStep ==
  /\ At("finalize")
  /\ IF Finalizes THEN FinalizeRequest("r", "o", EVNow)
     ELSE IF trial.injected /\ ~trial.scenario.allowed THEN CommitAnyway
     ELSE UNCHANGED vars
  /\ Done /\ UNCHANGED <<trial, results>>

Committed == requests["r"].status = "COMPLETED" /\ requests["r"].output = "o"
             /\ attempts["a"].authority = "COMMITTED"

(* A commit the oracle does not allow is a violation of a faulted case.    *)
Violations(scenario, committed) ==
  IF ~scenario.allowed /\ committed # scenario.allowed THEN 1 ELSE 0

EvaluateStep ==
  /\ At("evaluate")
  /\ results' = Append(results,
       [scenario |-> trial.scenario.id, allowed |-> trial.scenario.allowed,
        declared |-> trial.scenario.reconciliation, policy |-> trial.policy,
        reconciliation |-> trial.reconciliation, committed |-> Committed,
        violations |-> Violations(trial.scenario, Committed),
        semantic |-> IF Committed # trial.scenario.allowed THEN "WRONG"
                     ELSE IF trial.scenario.allowed THEN "CORRECT"
                     ELSE IF trial.reconciliation = "AMBIGUOUS" THEN "AMBIGUOUS" ELSE "WAIT"])
  /\ Done /\ UNCHANGED <<vars, trial>>

EvidenceCoreStep ==
  \/ MeasureStep \/ KeepStep \/ ScaffoldStep \/ RecordStep \/ RecordMeasuredStep \/ JudgeStep
  \/ OutputStep \/ FinalizeStep \/ EvaluateStep

---------------------------------------------------------------------------
Trial(policy, records) ==
  <<Scaffold(policy)>> \o records \o <<Judge, [op |-> "output"], Finalize, Evaluate>>
EachPolicy(records) == FlattenSeq([i \in 1..Len(Policies) |-> Trial(Policies[i], records)])

EnsureWorkers == <<Ensure("w1"), Ensure("w2"), Ensure("w3")>>

SpawnWorkers == Spawn("w1") \o Spawn("w2") \o Spawn("w3")
MeasuredTrials(scenario) ==
  <<Measure(scenario.scenario)>> \o scenario.steps \o EachPolicy(<<RecordMeasured>>)

(* _run_case: one scenario with workers of its own.                        *)
CaseScript(scenario) == SpawnWorkers \o <<Try>> \o MeasuredTrials(scenario) \o <<StopAll>>

(* run_s4_e1_paired: the same workers serve all the scenarios; one that    *)
(* has crashed is replaced before the next one.                            *)
PairedScript ==
  SpawnWorkers \o <<Try>>
    \o FlattenSeq([i \in 1..Len(EV1Scenarios) |-> EnsureWorkers \o MeasuredTrials(EV1Scenarios[i])])
    \o <<StopAll>>

NewTrial(scenario, injected, measured) ==
  [family |-> "S4", scenario |-> scenario, injected |-> injected, measured |-> measured,
   policy |-> "none", answers |-> [w \in Workers |-> Nothing], observations |-> <<>>,
   reconciliation |-> "NONE", ids |-> {}]

EvidenceTrialsInit ==
  /\ Init
  /\ \/ \E case \in EV0Cases \cup AdversarialEvidenceCases, injected \in BOOLEAN :
          /\ injected => ~case.allowed
          /\ trial = NewTrial(case, injected, FALSE)
          /\ script = EachPolicy(case.records)
     \/ \E i \in 1..Len(EV1Scenarios), injected \in BOOLEAN :
          /\ injected => ~EV1Scenarios[i].scenario.allowed
          /\ trial = NewTrial(EV1Scenarios[i].scenario, injected, TRUE)
          /\ script = CaseScript(EV1Scenarios[i])
     \/ /\ trial = NewTrial(EV1Scenarios[1].scenario, FALSE, TRUE)
        /\ script = PairedScript
  /\ workers = [w \in Workers |-> NoWorker]
  /\ raised = "none"
  /\ results = <<>>

EvidenceWorkerStep ==
  \E w \in Workers :
    /\ workers[w].alive /\ workers[w].inbox # <<>>
    /\ WorkerHandles(w, EvidenceWorker(Taken(w), workers[w].inbox[1]))

EvidenceCoordinator ==
  EvidenceCoreStep \/ (CoordinatorStep /\ UNCHANGED <<vars, results>>)

EvidenceTrialsNext ==
  \/ EvidenceCoordinator
  \/ (ProcessStep \/ EvidenceWorkerStep) /\ UNCHANGED <<vars, results>>

---------------------------------------------------------------------------
(* Whatever the workers do and whenever they die, the reconciliation of    *)
(* every trial is the one its scenario declares, the request is committed  *)
(* exactly when the scenario allows it, under every policy alike, and a    *)
(* trial that is not allowed to commit ends as an explicit non-success     *)
(* (zero ambiguous commits).                                               *)
EvidenceTrialsEndAsDeclared ==
  \A i \in 1..Len(results) :
    LET r == results[i] IN
      /\ r.reconciliation = r.declared
      /\ ~trial.injected => /\ r.committed = r.allowed
                           /\ r.semantic = IF r.allowed THEN "CORRECT" ELSE r.declared

(* A commit that should not have happened is always counted, and only      *)
(* that: the metric is not blind to any of the fault classes.              *)
EvidenceVerdictsAreTruthful ==
  \A i \in 1..Len(results) :
    LET r == results[i] IN
      /\ (r.violations = 1) = (r.committed /\ ~r.allowed)
      /\ trial.injected /\ ~r.allowed => r.violations = 1

(* Each observation a trial rests on was made for its scenario, though     *)
(* _recv compares only the kind of an answer, not the event it answers.    *)
ObservationsAreOfThisScenario ==
  \A i \in 1..Len(trial.observations) : trial.observations[i].event = trial.scenario.id
=============================================================================
