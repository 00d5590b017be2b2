--------------------------- MODULE LineageTrials ---------------------------
(***************************************************************************)
(* Experiment family S2: a State that looks right and lies where it is     *)
(* cheap to use, but was made on another branch, by a superseded attempt,  *)
(* in a later phase or from an invalid State.  Each trial builds a core,   *)
(* lets a policy choose a worker, and the worker consumes the State if it  *)
(* has it: only the policy can keep a wrong one away.  In EV1 two worker   *)
(* processes hold the States, and one may lose its copy after the choice.  *)
(***************************************************************************)
EXTENDS StateLineage, PlacementPolicies, Trials, SequencesExt

VARIABLES
  results  \* the finished trials of the case

lineageTrialVars == <<vars, lineageVars, callers, harnessVars, results>>

LineageWorkers == {"w1", "w2"}

---------------------------------------------------------------------------
(* Calls of the core that set a scenario up.                               *)
Branch(c, parent) == [op |-> "call", call |-> "branch", id |-> c, parent |-> parent]
Abandon(c) == [op |-> "call", call |-> "abandon", id |-> c]
Ask(r, c) == [op |-> "call", call |-> "request", id |-> r, continuation |-> c]
StartOn(a, r) == [op |-> "call", call |-> "start", id |-> a, request |-> r]
PhaseOf(p, a) == [op |-> "call", call |-> "phase", id |-> p, attempt |-> a]
PhaseTo(p, status) == [op |-> "call", call |-> "phase status", id |-> p, status |-> status]
Derive(x, kind, origin, derived) ==
  [op |-> "call", call |-> "state", id |-> x, kind |-> kind, origin |-> origin, derived |-> derived]
MadeIn(x, kind, origin) == Derive(x, kind, origin, {})
Spoil(x) == [op |-> "call", call |-> "invalidate", id |-> x]
ReplicaOf(x) == [op |-> "call", call |-> "replica", id |-> "rho:" \o x, state |-> x]
Lose(x) == [op |-> "call", call |-> "lose", id |-> "rho:" \o x]
CompleteOf(a) == [op |-> "call", call |-> "complete", id |-> a]
Proof(a) == [op |-> "call", call |-> "evidence", id |-> a]
OutputOf(a) == [op |-> "call", call |-> "output", id |-> a]
Finalize(r, a) == [op |-> "call", call |-> "finalize", id |-> r, attempt |-> a]

(* _commit_current_attempt: also how a trial reports its result.           *)
Commit(r, a) == <<CompleteOf(a), Proof(a), OutputOf(a), Finalize(r, a)>>
Consumer(c) == <<Ask("r", c), StartOn("a", "r")>>
Running1(p) == <<PhaseOf(p, "a"), PhaseTo(p, "RUNNING")>>
Completed1(p) == Running1(p) \o <<PhaseTo(p, "COMPLETED")>>

---------------------------------------------------------------------------
(* A scenario: the core it builds, the consumer's continuation and phase,  *)
(* whether the candidate x is compatible, what consuming it would do to    *)
(* the result, and what the metrics count.                                 *)
LineageCase(id, consumer, compatible, effect, faulted, branch, steps) ==
  [id |-> id, consumer |-> consumer, phase |-> NULL, compatible |-> compatible,
   effect |-> effect, faulted |-> faulted, branch |-> branch, located |-> TRUE,
   alternative |-> FALSE, evicted |-> FALSE, steps |-> steps]

Control(id, consumer, steps) ==
  LineageCase(id, consumer, TRUE, "CORRECT_RESULT", FALSE, FALSE, steps)
Fault(id, consumer, effect, steps) ==
  LineageCase(id, consumer, FALSE, effect, TRUE, FALSE, steps)
BranchFault(id, consumer, effect, steps) ==
  LineageCase(id, consumer, FALSE, effect, TRUE, TRUE, steps)

WrongSibling ==
  BranchFault("FTR4", "c2", "WRONG_UNDETECTED",
    <<Branch("c1", "c0"), Branch("c2", "c0"), MadeIn("x", "continuation", "c1"), ReplicaOf("x")>>
      \o Consumer("c2"))
SupersededProducer ==
  Fault("FTR5", "c2", "DETECT_AND_RECOMPUTE",
    <<Branch("c1", "c0"), Ask("rp", "c1"), StartOn("a1", "rp"), MadeIn("x", "attempt", "a1"),
      ReplicaOf("x"), StartOn("a2", "rp")>> \o Commit("rp", "a2")
      \o <<Branch("c2", "c1")>> \o Consumer("c2"))
AbandonedBranch ==
  BranchFault("FTR14", "c2", "WRONG_UNDETECTED",
    <<Branch("c1", "c0"), MadeIn("x", "continuation", "c1"), ReplicaOf("x"), Abandon("c1"),
      Branch("c2", "c0")>> \o Consumer("c2"))
SimilarDifferent ==
  [BranchFault("S2-SIMILAR-DIFFERENT", "c2", "CORRECT_RESULT",
     <<Branch("c1", "c0"), Branch("c2", "c0"), MadeIn("x-compatible", "continuation", "c0"),
       ReplicaOf("x-compatible"), MadeIn("x", "continuation", "c1"), ReplicaOf("x")>>
       \o Consumer("c2"))
   EXCEPT !.alternative = TRUE]
ValidAncestor ==
  Control("S2-VALID-ANCESTOR", "c2",
    <<MadeIn("x", "continuation", "c0"), ReplicaOf("x"), Branch("c2", "c0")>> \o Consumer("c2"))
TotalLoss ==
  [LineageCase("FTR6", "c1", TRUE, "CORRECT_RESULT", TRUE, FALSE,
     <<MadeIn("x", "continuation", "c0"), ReplicaOf("x"), Lose("x"), Branch("c1", "c0")>>
       \o Consumer("c1"))
   EXCEPT !.located = FALSE]

EV0LineageCases ==
  {WrongSibling, SupersededProducer, AbandonedBranch, SimilarDifferent, ValidAncestor, TotalLoss}

---------------------------------------------------------------------------
(* The adversarial cases: deeper branches, producers, phases, derivations. *)
DeepBranches == <<Branch("cb", "c0"), Branch("cb1", "cb")>> \o Consumer("cb1")
DeepState ==
  <<Branch("ca", "c0"), Branch("ca1", "ca"), MadeIn("x", "continuation", "ca1"), ReplicaOf("x")>>

BranchCases ==
  {BranchFault("DEEP-SIBLING", "cb1", "WRONG_UNDETECTED", DeepState \o DeepBranches),
   BranchFault("DEEP-ABANDONED", "cb1", "DETECT_AND_RECOMPUTE",
               DeepState \o <<Abandon("ca1")>> \o DeepBranches),
   Control("DEEP-ANCESTOR-CONTROL", "c3",
     <<Branch("c1", "c0"), Branch("c2", "c1"), MadeIn("x", "continuation", "c2"),
       ReplicaOf("x"), Branch("c3", "c2")>> \o Consumer("c3"))}

Producing(a) == <<Branch("c1", "c0"), Ask("rp", "c1"), StartOn(a, "rp")>>
AfterProducer == <<Branch("c2", "c1")>> \o Consumer("c2")

ProducerCases ==
  {Fault("THREE-GEN-SUPERSEDED", "c2", "CORRECT_RESULT",
     Producing("a1") \o <<MadeIn("x", "attempt", "a1"), ReplicaOf("x"),
                          StartOn("a2", "rp"), StartOn("a3", "rp")>>
       \o Commit("rp", "a3") \o AfterProducer),
   Control("COMMITTED-PRODUCER-CONTROL", "c2",
     Producing("a1") \o <<MadeIn("x", "attempt", "a1"), ReplicaOf("x")>>
       \o Commit("rp", "a1") \o AfterProducer),
   Control("REQUEST-ORIGIN-CONTROL", "c2",
     Producing("a1") \o Commit("rp", "a1")
       \o <<MadeIn("x", "request", "rp"), ReplicaOf("x")>> \o AfterProducer)}

(* The State of a phase of the consuming attempt itself.                   *)
InPhase(case, p) == [case EXCEPT !.phase = p]
PhaseState == Consumer("c0") \o Completed1("p1") \o <<MadeIn("x", "phase", "p1")>>

PhaseCases ==
  {InPhase(Control("PHASE-LATER-CONTROL", "c0",
             PhaseState \o Running1("p2") \o <<ReplicaOf("x")>>), "p2"),
   InPhase(Fault("PHASE-SAME", "c0", "WRONG_UNDETECTED", PhaseState \o <<ReplicaOf("x")>>), "p1"),
   InPhase(Fault("PHASE-EARLIER", "c0", "DETECT_AND_RECOMPUTE",
             Consumer("c0") \o Completed1("p1") \o Completed1("p2")
               \o <<MadeIn("x", "phase", "p2"), ReplicaOf("x")>>), "p1"),
   Fault("PHASE-NO-CONTEXT", "c0", "CORRECT_RESULT", PhaseState \o <<ReplicaOf("x")>>)}

Dependency == <<MadeIn("x0", "continuation", "c0"), Branch("c1", "c0"),
                Derive("x", "continuation", "c1", {"x0"})>>
SupersededDependency(derived) ==
  Producing("a1")
    \o <<MadeIn("x-bad", "attempt", "a1"), Derive("x", "continuation", "c1", derived),
         ReplicaOf("x"), StartOn("a2", "rp")>> \o Commit("rp", "a2") \o AfterProducer
InvalidDependency ==
  Fault("DERIVED-INVALID-DEPENDENCY", "c2", "WRONG_UNDETECTED",
        Dependency \o <<Spoil("x0"), ReplicaOf("x")>> \o AfterProducer)

DerivedCases ==
  {Control("DERIVED-VALID-CONTROL", "c2", Dependency \o <<ReplicaOf("x")>> \o AfterProducer),
   InvalidDependency,
   Fault("DERIVED-SUPERSEDED-DEPENDENCY", "c2", "CORRECT_RESULT",
         SupersededDependency({"x-bad"})),
   Fault("DERIVED-MIXED-DEPENDENCY", "c2", "DETECT_AND_RECOMPUTE",
         <<MadeIn("x0", "continuation", "c0")>> \o SupersededDependency({"x0", "x-bad"}))}

ValidityCases ==
  {Fault("TOP-LEVEL-INVALID", "c1", "WRONG_UNDETECTED",
     <<MadeIn("x", "continuation", "c0"), Spoil("x"), ReplicaOf("x"), Branch("c1", "c0")>>
       \o Consumer("c1")),
   Control("VALID-CONTROL", "c1",
     <<MadeIn("x", "continuation", "c0"), ReplicaOf("x"), Branch("c1", "c0")>>
       \o Consumer("c1"))}

AdversarialLineageCases ==
  UNION {BranchCases, ProducerCases, PhaseCases, DerivedCases, ValidityCases}

(* EV1 runs these with worker processes; in the last, the worker loses the *)
(* State between the policy's choice and the execution.                    *)
PostObservationEviction ==
  [ValidAncestor EXCEPT !.id = "EVICTION", !.faulted = TRUE, !.evicted = TRUE]
EV1LineageCases ==
  {WrongSibling, SupersededProducer, AbandonedBranch, SimilarDifferent, InvalidDependency,
   ValidAncestor, PostObservationEviction}

---------------------------------------------------------------------------
(* The worker's physical store: the States it holds.                       *)
Reset == [op |-> "RESET"]
Install(x) == [op |-> "INSTALL", state |-> x]
Evict(x) == [op |-> "EVICT", state |-> x]
Execute(x, effect) == [op |-> "EXECUTE", state |-> x, effect |-> effect]

(* The result of an execution that consumed the State, or did not.         *)
ExecutionResult(consumed, effect) ==
  [kind |-> "EXECUTION_RESULT", consumed |-> consumed,
   recomputed |-> ~consumed \/ effect = "DETECT_AND_RECOMPUTE",
   correct |-> ~consumed \/ effect # "WRONG_UNDETECTED"]

HandleLineageCommand(worker, command) ==
  LET without(x) == SelectSeq(worker.store, LAMBDA y : y # x) IN
  CASE command.op = "RESET" -> Answer([worker EXCEPT !.store = <<>>], [kind |-> "RESET"])
    [] command.op = "INSTALL" ->
         Answer([worker EXCEPT !.store = Append(without(command.state), command.state)],
                [kind |-> "INSTALLED"])
    [] command.op = "EVICT" ->
         Answer([worker EXCEPT !.store = without(command.state)], [kind |-> "EVICTED"])
    [] command.op = "EXECUTE" ->
         Answer(worker, ExecutionResult(\E i \in 1..Len(worker.store) :
                                          worker.store[i] = command.state, command.effect))

LineageWorkerStep ==
  \E w \in LineageWorkers :
    /\ workers[w].alive /\ workers[w].inbox # <<>>
    /\ WorkerHandles(w, HandleLineageCommand(Taken(w), workers[w].inbox[1]))

---------------------------------------------------------------------------
Done == Continue(<<>>) /\ UNCHANGED <<workers, raised>>

(* _base_core.                                                             *)
LineageScaffold ==
  /\ At("scaffold")
  /\ requests' = <<>> /\ attempts' = <<>> /\ outputs' = <<>> /\ evidence' = <<>>
  /\ programs' = [p \in {"p"} |-> "CREATED"]
  /\ sessions' = [s \in {"s"} |-> "p"]
  /\ continuations' = [c \in {"c0"} |-> [session |-> "s", parents |-> {}, lifecycle |-> "ACTIVE"]]
  /\ phases' = <<>> /\ states' = <<>> /\ replicas' = <<>>
  /\ trial' = [trial EXCEPT !.policy = Step.policy, !.chosen = NoWorkerChosen]
  /\ Done /\ UNCHANGED <<callers, results>>

OriginOf(kind, id) ==
  CASE kind = "continuation" -> ContinuationOrigin(id)
    [] kind = "request" -> RequestOrigin(id)
    [] kind = "attempt" -> AttemptOrigin(id)
    [] kind = "phase" -> PhaseOrigin(id)

TerminalEvidence(a) ==
  [authority |-> EXACT_OBSERVATION, status |-> "VALID", observed |-> 0, until |-> NULL,
   scope |-> {<<"attempt", a>>}, key |-> a, value |-> "SUCCEEDED", support |-> {}, rule |-> FALSE]

GraphCall ==
  CASE Step.call = "branch" -> CreateContinuation(Step.id, "s", {Step.parent}, "ACTIVE")
    [] Step.call = "abandon" -> SetContinuationLifecycle(Step.id, "ABANDONED")
    [] Step.call = "phase" -> CreatePhase(Step.id, Step.attempt)
    [] Step.call = "phase status" -> SetPhaseStatus(Step.id, Step.status)
    [] Step.call = "state" -> CreateState(Step.id, OriginOf(Step.kind, Step.origin), Step.derived)
    [] Step.call = "invalidate" -> SetStateValidity(Step.id, "INVALID")
    [] Step.call = "replica" -> AddReplica(Step.id, Step.state, "VALID")
    [] Step.call = "lose" -> SetReplicaStatus(Step.id, "LOST")

RequestLikeCall ==
  /\ CASE Step.call = "request" -> CreateRequest(Step.id, Step.continuation, LineageIds)
       [] Step.call = "start" -> StartAttempt(Step.id, Step.request, LineageIds)
       [] Step.call = "complete" -> CompleteAttempt(Step.id, TRUE)
       [] Step.call = "evidence" ->
            /\ RecordEvidence("e:" \o Step.id, TerminalEvidence(Step.id), FencingIds \cup LineageIds)
            /\ UNCHANGED fencingVars
       [] Step.call = "output" ->
            CreateOutput("o:" \o Step.id, Step.id, TRUE, {"e:" \o Step.id}, LineageIds)
       [] Step.call = "finalize" -> FinalizeRequest(Step.id, "o:" \o Step.attempt, 1)
  /\ UNCHANGED lineageVars

LineageCallStep ==
  /\ At("call")
  /\ IF Step.call \in {"request", "start", "complete", "evidence", "output", "finalize"}
     THEN RequestLikeCall ELSE GraphCall
  /\ Done /\ UNCHANGED <<callers, trial, results>>

---------------------------------------------------------------------------
Context(phase) ==
  [program |-> "p", session |-> "s", continuation |-> trial.scenario.consumer,
   request |-> "r", attempt |-> "a", phase |-> phase]

(* _independent_compatible, the experiment's own judgement: everything the *)
(* State rests on is VALID, of the consumer's session and on its path, and *)
(* made by no attempt, by the committed one of a completed request or by   *)
(* the consumer, there in an earlier phase.                                *)
IndependentlyAcceptable(x, ctx) ==
  /\ x.validity = "VALID"
  /\ continuations[x.continuation].session = ctx.session
  /\ IsAncestor(x.continuation, ctx.continuation, continuations)
  /\ x.attempt # NULL =>
       /\ attempts[x.attempt].authority # "SUPERSEDED"
       /\ \/ CommittedProducer(x)
          \/ /\ x.attempt = ctx.attempt /\ attempts[x.attempt].authority = "CURRENT"
             /\ requests[x.request].status # "COMPLETED"
  /\ x.phase # NULL =>
       /\ phases[x.phase].status = "COMPLETED"
       /\ x.attempt = ctx.attempt =>
            ctx.phase # NULL /\ phases[ctx.phase].ordinal > phases[x.phase].ordinal

IndependentlyCompatible(s, ctx) ==
  ContextConsistent(ctx) /\ \A d \in Lineage(s) : IndependentlyAcceptable(states[d], ctx)

(* The assertions before a trial: the core and the independent judgement   *)
(* agree, and with what the scenario was made for.                         *)
CheckStep ==
  /\ At("check")
  /\ LET exact == IndependentlyCompatible("x", Context(trial.scenario.phase)) IN
     IF exact = StateCompatible("x", Context(trial.scenario.phase))
        /\ exact = trial.scenario.compatible
     THEN Done ELSE Raise("oracle diverges") /\ UNCHANGED workers
  /\ UNCHANGED <<vars, lineageVars, callers, trial, results>>

(* What the policies see: w1, where the candidate was last seen and the    *)
(* session is at home, is busy and w2 is not.  The phase of the consumer   *)
(* is not in the contract of any policy.                                   *)
LineageObservation ==
  PolicyObservation(
    [workers |-> <<WorkerObservation("w1", TRUE, 1, 1, 0), WorkerObservation("w2", TRUE, 1, 0, 0)>>,
     request |-> <<"r">>, attempt |-> <<"a">>, authority |-> <<"CURRENT">>,
     program |-> <<"p">>, session |-> <<"s">>, continuation |-> <<"c">>, preferred |-> <<"w1">>,
     candidate |-> <<"prefix">>, exact |-> <<"x">>, reconciliation |-> <<"MATCHED">>,
     locations |-> IF trial.scenario.located THEN {"w1"} ELSE {}])

(* CoreContinuityAuthority.                                                *)
AttemptCurrent(r, a) ==
  /\ r \in DOMAIN requests /\ a \in DOMAIN attempts
  /\ attempts[a].request = r
  /\ requests[r].current = a /\ attempts[a].authority = "CURRENT"
CoreContinuityAuthority ==
  [current |-> AttemptCurrent("r", "a"), compatible |-> StateCompatible("x", Context(NULL))]

DecideStep ==
  /\ At("decide")
  /\ trial' = [trial EXCEPT !.chosen = DecidePlacement(trial.policy, LineageObservation, CoreContinuityAuthority)]
  /\ Done /\ UNCHANGED <<vars, lineageVars, callers, results>>

(* EV0: the worker has the candidate if its replica is there and VALID.    *)
(* The self-test of the metrics makes it consume whatever it was given.    *)
ConsumeStep ==
  /\ At("consume")
  /\ LET local == trial.chosen = "w1" /\ replicas["rho:x"].status = "VALID" IN
     trial' = [trial EXCEPT !.execution =
                 ExecutionResult(local \/ trial.forced, trial.scenario.effect)]
  /\ Done /\ UNCHANGED <<vars, lineageVars, callers, results>>

(* EV1: the chosen worker, or the one the self-test asks for, executes.    *)
ExecuteStep ==
  /\ At("execute")
  /\ LET w == IF trial.forced THEN "w1" ELSE trial.chosen IN
     Continue(Command(w, Execute("x", trial.scenario.effect), "EXECUTION_RESULT")
                \o <<[op |-> "measured", worker |-> w]>>)
  /\ UNCHANGED <<vars, lineageVars, callers, trial, workers, raised, results>>

MeasuredStep ==
  /\ At("measured")
  /\ trial' = [trial EXCEPT !.execution = trial.answers[Step.worker]]
  /\ Done /\ UNCHANGED <<vars, lineageVars, callers, results>>

(* Mutant: the wrong reuse of a branch is counted, any other is not.       *)
CountsBranchesOnly(consumed) ==
  trial.scenario.branch /\ consumed /\ ~trial.scenario.compatible

(* The metrics that count a violation: WBRR on the branch scenarios, WSCR  *)
(* on every consumption under a fault.                                     *)
WrongConsumption(consumed) ==
  /\ trial.scenario.branch \/ trial.scenario.faulted
  /\ consumed /\ ~IndependentlyCompatible("x", Context(trial.scenario.phase))

LineageEvaluate ==
  /\ At("evaluate")
  /\ results' = Append(results,
       [policy |-> trial.policy, scenario |-> trial.scenario.id,
        chosen |-> trial.chosen, consumed |-> trial.execution.consumed,
        recomputed |-> trial.execution.recomputed, correct |-> trial.execution.correct,
        committed |-> requests["r"].status = "COMPLETED" /\ requests["r"].committed = "a",
        violation |-> trial.wrong])
  /\ Done /\ UNCHANGED <<vars, lineageVars, callers, trial>>

(* The verdict is reached before the result is committed.                  *)
JudgeStep ==
  /\ At("judge")
  /\ trial' = [trial EXCEPT !.wrong = WrongConsumption(trial.execution.consumed)]
  /\ Done /\ UNCHANGED <<vars, lineageVars, callers, results>>

LineageCoreStep ==
  \/ LineageScaffold \/ LineageCallStep \/ CheckStep \/ DecideStep \/ ConsumeStep
  \/ ExecuteStep \/ MeasuredStep \/ JudgeStep \/ LineageEvaluate
---------------------------------------------------------------------------
Scaffold(policy) == [op |-> "scaffold", policy |-> policy]
Op(op) == [op |-> op]

(* _finalize_measured_result after the metrics have been counted.          *)
Finish == <<Op("judge")>> \o Commit("r", "a") \o <<Op("evaluate")>>

EV0Lineage(scenario, policy) ==
  <<Scaffold(policy)>> \o scenario.steps \o <<Op("check"), Op("decide"), Op("consume")>> \o Finish

(* _reset_and_install, then the choice, then what happens to the worker.   *)
EV1Lineage(scenario, policy) ==
  <<Scaffold(policy)>> \o scenario.steps \o <<Op("check")>>
    \o Command("w1", Reset, "RESET") \o Command("w2", Reset, "RESET")
    \o Command("w1", Install("x"), "INSTALLED")
    \o (IF scenario.alternative
        THEN Command("w2", Install("x-compatible"), "INSTALLED") ELSE <<>>)
    \o <<Op("decide")>>
    \o (IF scenario.evicted THEN Command("w1", Evict("x"), "EVICTED") ELSE <<>>)
    \o <<Op("execute")>> \o Finish

(* The steps of a trial, as a function of the policy: one after the other. *)
PerPolicy(steps) == FlattenSeq([i \in DOMAIN PolicyIds |-> steps[PolicyIds[i]]])

(* Both are started, and held, before either is awaited.                   *)
SpawnWorkers ==
  <<StartProcess("w1"), Hold("w1"), StartProcess("w2"), Hold("w2"),
    Receive("w1", "READY"), Receive("w2", "READY")>>

NewLineageTrial(scenario, forced) ==
  [family |-> "S2", scenario |-> scenario, policy |-> "none", forced |-> forced,
   answers |-> [w \in LineageWorkers |-> Nothing], chosen |-> NoWorkerChosen,
   execution |-> Nothing, wrong |-> FALSE]

(* The self-tests make B4 consume a wrong candidate.                       *)
LineageTrialsInit ==
  /\ CoreInit
  /\ \/ \E scenario \in EV0LineageCases \cup AdversarialLineageCases, forced \in BOOLEAN :
          /\ forced => ~scenario.compatible
          /\ trial = NewLineageTrial(scenario, forced)
          /\ script = IF forced THEN EV0Lineage(scenario, "B4")
                      ELSE PerPolicy([p \in Range(PolicyIds) |-> EV0Lineage(scenario, p)])
     \/ \E scenario \in EV1LineageCases, forced \in BOOLEAN :
          /\ forced => ~scenario.compatible
          /\ trial = NewLineageTrial(scenario, forced)
          /\ script = SpawnWorkers \o <<Try>>
                        \o (IF forced THEN EV1Lineage(scenario, "B4")
                            ELSE PerPolicy([p \in Range(PolicyIds) |-> EV1Lineage(scenario, p)]))
                        \o <<StopAll>>
  /\ workers = [w \in LineageWorkers |-> NoWorker]
  /\ raised = "none"
  /\ results = <<>>

LineageCoordinator ==
  LineageCoreStep \/ (CoordinatorStep /\ UNCHANGED <<vars, lineageVars, callers, results>>)

LineageTrialsNext ==
  \/ LineageCoordinator
  \/ (ProcessStep \/ LineageWorkerStep) /\ UNCHANGED <<vars, lineageVars, callers, results>>

---------------------------------------------------------------------------
(* The continuity-aware policy never lets a wrong State be consumed and    *)
(* never commits a wrong result; what it does not reuse is recomputed.     *)
(* It gives up no State it may use, except one that only the phase of the  *)
(* consumer makes usable.  A State that is gone from the worker is not     *)
(* consumed by anyone, and every trial of every policy ends in the         *)
(* committed request.                                                      *)
LineageTrialsEndAsDeclared ==
  \A i \in 1..Len(results) :
    LET r == results[i] IN
      /\ r.committed
      /\ r.policy = "B4" /\ ~trial.forced =>
           /\ r.consumed => trial.scenario.compatible
           /\ r.correct /\ r.recomputed = ~r.consumed
           /\ r.consumed = (/\ trial.scenario.compatible /\ trial.scenario.located
                            /\ ~trial.scenario.evicted
                            /\ r.scenario # "PHASE-LATER-CONTROL")
      /\ trial.scenario.evicted \/ ~trial.scenario.located => ~r.consumed

(* A wrong result is never committed without a counted violation, and a    *)
(* counted violation is a consumption against the lineage: the metrics     *)
(* neither miss a wrong answer nor blame a right one.  A wrong consumption *)
(* with a right answer (FTR5, SIMILAR) is counted all the same.            *)
LineageVerdictsAreTruthful ==
  \A i \in 1..Len(results) :
    LET r == results[i] IN
      /\ ~r.correct => r.violation
      /\ r.violation = (r.consumed /\ ~trial.scenario.compatible)
=============================================================================
