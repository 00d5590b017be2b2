--------------------------- MODULE OrderingTrials ---------------------------
(***************************************************************************)
(* Experiment family S5: finalizations, semantic events, migration commits *)
(* and terminal updates delivered twice, late, out of order or with a      *)
(* conflicting content.  In EV0 and the permutations the calls are fixed;  *)
(* in EV1 worker processes deliver measured observations, which are then   *)
(* replayed to a core once per policy.                                     *)
(***************************************************************************)
EXTENDS StateLineage, BindingEpochs, Trials, SequencesExt

VARIABLES
  events,      \* self.events: identifier |-> the payload
  eventOrder,  \* self.event_order
  results      \* the finished trials of the case

eventVars == <<events, eventOrder>>
orderingCoreVars == <<vars, lineageVars, bindingVars, eventVars>>
orderingTrialVars == <<orderingCoreVars, harnessVars, results>>

Policies == <<"B0", "B1", "B2", "B3", "B4">>
Workers == {"w1", "w2", "w3"}
Subject == "subject"
OrderingNow == 9

(* _unique over the collections of the whole core.                         *)
CoreIds == LineageIds \cup DOMAIN bindings \cup DOMAIN events

---------------------------------------------------------------------------
(* Calls of the core.                                                      *)
Call(operation, id) == [op |-> "call", call |-> operation, id |-> id]
Request == Call("request", "r")
Start(a) == Call("start", a)
Complete(a) == Call("complete", a)
Produce(o, a, i) == [op |-> "call", call |-> "output", id |-> o, attempt |-> a, evidence |-> i]
ObserveAttempt(a, i, at) == [op |-> "call", call |-> "evidence", id |-> i,
                             scope |-> {<<"attempt", a>>}, key |-> a, at |-> at]
ObserveTransfer(b, epoch, i) == [op |-> "call", call |-> "evidence", id |-> i,
                                 scope |-> {<<"binding", b>>, <<"epoch", epoch>>}, key |-> b, at |-> 0]
Initial(b) == Call("initial", b)
Propose(b, w) == [op |-> "call", call |-> "propose", id |-> b, location |-> w]
Begin(b) == Call("begin", b)
State(x) == Call("state", x)

(* Presentations, whose refusal is caught and noted.                       *)
Finalize(o) == [op |-> "finalize", output |-> o]
Event(i, payload) == [op |-> "event", id |-> i, payload |-> payload]
Migrate(b, i) == [op |-> "migrate", binding |-> b, evidence |-> i]
Lifecycle(to) == [op |-> "lifecycle", to |-> to]
Validity(to) == [op |-> "validity", to |-> to]
Deliver(n) == [op |-> "deliver", number |-> n]
Mark == [op |-> "mark"]
Inject == [op |-> "inject"]
Evaluate == [op |-> "evaluate"]
Scaffold(policy) == [op |-> "scaffold", policy |-> policy]

---------------------------------------------------------------------------
(* The cores the scenarios start from.                                     *)
RequestCore == <<Request, Start("a1"), Complete("a1")>>
ValidFinalizeCore ==
  RequestCore \o <<ObserveAttempt("a1", "ev-finalize", 0), Produce("o1", "a1", "ev-finalize")>>
TwoOutputsCore == ValidFinalizeCore \o <<Produce("o2", "a1", "ev-finalize")>>
TwoGenerations == RequestCore \o <<Start("a2"), Complete("a2")>>
AttemptGenerationCore ==
  RequestCore \o <<ObserveAttempt("a1", "ev-a1", 0), Produce("o1", "a1", "ev-a1"),
                   Start("a2"), Complete("a2"),
                   ObserveAttempt("a2", "ev-a2", 0), Produce("o2", "a2", "ev-a2")>>
MigrationCore ==
  <<Initial("b1"), Propose("b2", "w2"), Begin("b2"), ObserveTransfer("b2", 2, "ev-b2")>>
BindingCore ==
  <<Initial("b1"), Propose("b2", "w2"), Begin("b2"), Propose("b3", "w3"), Begin("b3"),
    ObserveTransfer("b2", 2, "ev-b2"), ObserveTransfer("b3", 3, "ev-b3")>>

(* The independently declared ends of the scenarios.                       *)
CommittedOnly ==
  [status |-> "COMPLETED", committed |-> "a1", output |-> "o1",
   authority |-> [a \in {"a1"} |-> "COMMITTED"]]
NewestCommitted ==
  [status |-> "COMPLETED", committed |-> "a2", output |-> "o2",
   authority |-> [a \in {"a1", "a2"} |-> IF a = "a1" THEN "SUPERSEDED" ELSE "COMMITTED"]]
BothEvents == [i \in {"event-1", "event-u"} |-> IF i = "event-1" THEN "SUCCEEDED" ELSE "UNRELATED"]
OneEvent == [events |-> [i \in {"event-1"} |-> "SUCCEEDED"], order |-> <<"event-1">>]
Moved(statuses) == [binding |-> "b2", epoch |-> 2, statuses |-> statuses]
Migrated == Moved([b \in {"b1", "b2"} |-> IF b = "b1" THEN "SUPERSEDED" ELSE "ACTIVE"])
LoserMigrating ==
  Moved([b \in {"b1", "b2", "b3"} |->
           CASE b = "b1" -> "SUPERSEDED" [] b = "b2" -> "ACTIVE" [] OTHER -> "MIGRATING"])

OrderingCase(id, kind, target, faulted, setup, actions) ==
  [id |-> id, kind |-> kind, target |-> target, faulted |-> faulted,
   steps |-> setup \o actions]

PrimaryEvent == Event("event-1", "SUCCEEDED")
U == Event("event-u", "UNRELATED")

EV0OrderingCases ==
  {OrderingCase("D1", "request", CommittedOnly, TRUE, ValidFinalizeCore,
     <<Finalize("o1"), Mark, Finalize("o1")>>),
   OrderingCase("D2", "request", CommittedOnly, TRUE, TwoOutputsCore,
     <<Finalize("o1"), Mark, Finalize("o2")>>),
   OrderingCase("D3", "event log", OneEvent, TRUE, <<>>, <<PrimaryEvent, Mark, PrimaryEvent>>),
   OrderingCase("D4", "event log", OneEvent, TRUE, <<>>,
     <<PrimaryEvent, Mark, Event("event-1", "FAILED")>>),
   OrderingCase("D5", "binding", Migrated, TRUE, MigrationCore,
     <<Migrate("b2", "ev-b2"), Mark, Migrate("b2", "ev-b2")>>),
   OrderingCase("D6", "continuation", "TERMINAL", TRUE, <<>>,
     <<Lifecycle("TERMINAL"), Mark, Lifecycle("TERMINAL"), Lifecycle("ACTIVE")>>),
   OrderingCase("D7", "state", "INVALID", TRUE, <<State("x")>>,
     <<Validity("INVALID"), Mark, Validity("INVALID"), Validity("VALID")>>),
   OrderingCase("D8", "request", CommittedOnly, FALSE, ValidFinalizeCore, <<Finalize("o1")>>)}

(* The permutations: U, an unrelated observation, before, between and      *)
(* after the two deliveries, and the canonical trace of each family.       *)
Around(first, second) == {<<first, second, U>>, <<first, U, second>>, <<U, first, second>>}

PermutationCases ==
  LET Family(id, kind, target, setup, traces) ==
        {OrderingCase(id, kind, target, TRUE, setup, trace) : trace \in traces}
      Old == Finalize("o1")
      New == Finalize("o2")
      Win == Migrate("b2", "ev-b2")
      Late == Migrate("b3", "ev-b3")
  IN Family("P1", "request", CommittedOnly, ValidFinalizeCore,
            Around(Finalize("o1"), Finalize("o1")) \cup {<<Finalize("o1"), U>>})
     \cup Family("P2", "request", CommittedOnly, TwoOutputsCore,
                 Around(Finalize("o1"), Finalize("o2")) \cup {<<Finalize("o1"), U>>})
     \cup Family("P3", "request", NewestCommitted, AttemptGenerationCore,
                 {<<Old, New, U>>, <<New, Old, U>>, <<U, Old, New>>, <<New, U>>})
     \cup Family("P4", "events", BothEvents, <<>>,
                 Around(PrimaryEvent, PrimaryEvent) \cup {<<PrimaryEvent, U>>})
     \cup Family("P5", "binding", LoserMigrating, BindingCore,
                 {<<Win, Late, U>>, <<Win, U, Late>>, <<Win, U>>})

---------------------------------------------------------------------------
(* EV1: what the workers are asked to deliver, in this order.              *)
Directive(event, w, action) == [event |-> event, worker |-> w, action |-> action]
Finalization(event, w, a, o) ==
  Directive(event, w, [call |-> "finalize", attempt |-> a, output |-> o])
Recording(event, w, payload) == Directive(event, w, [call |-> "event", payload |-> payload])

EV1OrderingScenario(id, kind, target, faulted, setup, directives) ==
  [case |-> OrderingCase(id, kind, target, faulted, setup, <<>>), directives |-> directives]

EV1OrderingScenarios ==
  <<EV1OrderingScenario("E1-A", "request", CommittedOnly, TRUE, RequestCore,
      <<Finalization("A:result", "w1", "a1", "o1"), Finalization("A:result", "w1", "a1", "o1")>>),
    EV1OrderingScenario("E1-B", "request", CommittedOnly, TRUE, RequestCore,
      <<Finalization("B:o1", "w1", "a1", "o1"), Finalization("B:o2", "w2", "a1", "o2")>>),
    EV1OrderingScenario("E1-C", "request", NewestCommitted, TRUE, TwoGenerations,
      <<Finalization("C:a2", "w2", "a2", "o2"), Finalization("C:a1", "w1", "a1", "o1")>>),
    EV1OrderingScenario("E1-D", "events", BothEvents, TRUE, <<>>,
      <<Recording("event-1", "w1", "SUCCEEDED"), Recording("event-u", "w3", "UNRELATED"),
        Recording("event-1", "w1", "SUCCEEDED")>>),
    EV1OrderingScenario("E1-E", "request", CommittedOnly, FALSE, RequestCore,
      <<Finalization("E:result", "w1", "a1", "o1")>>)>>

(* The coordinator keeps the answer if it is the one to its directive.     *)
Keep(directive) == [op |-> "keep", directive |-> directive]
Emit(d) ==
  Command(d.worker, [op |-> "EMIT", event |-> d.event, action |-> d.action], "OBSERVATION")
    \o <<Keep(d)>>
EmitAll(scenario) == FlattenSeq([i \in 1..Len(scenario.directives) |-> Emit(scenario.directives[i])])

(* A worker's semantic cache, in the order the events were first asked of  *)
(* it: its time is the number of events it has observed.                   *)
Cached(worker, event) == {i \in 1..Len(worker.store) : worker.store[i].event = event}

Observation(worker, command, at) ==
  [kind |-> "OBSERVATION", event |-> command.event, action |-> command.action, at |-> at]

NewObservation(worker, command) ==
  Answer([worker EXCEPT !.store = Append(@, [event |-> command.event, action |-> command.action])],
         Observation(worker, command, Len(worker.store) + 1))

(* The same semantic event is delivered with the time it was first         *)
(* observed; with another action it ends the worker.                       *)
EmitObservation(worker, command) ==
  IF Cached(worker, command.event) = {} THEN NewObservation(worker, command)
  ELSE LET i == CHOOSE j \in Cached(worker, command.event) : TRUE IN
       IF worker.store[i].action # command.action THEN Exit(worker)
       ELSE Answer(worker, Observation(worker, command, i))

---------------------------------------------------------------------------
(* Steps of the coordinator.                                               *)
Done == Continue(<<>>) /\ UNCHANGED <<workers, raised>>
Refused == Raise("refused") /\ UNCHANGED <<trial, workers, results, orderingCoreVars>>

(* An answer of another delivery, event or action is an assertion error.   *)
KeepStep ==
  /\ At("keep")
  /\ LET d == Step.directive
         answer == trial.answers[d.worker] IN
     IF answer.event = d.event /\ answer.action = d.action
     THEN /\ trial' = [trial EXCEPT !.deliveries = Append(@, answer)]
          /\ Done /\ UNCHANGED <<orderingCoreVars, results>>
     ELSE Refused

(* _base_core: a program, a session and an ACTIVE continuation.            *)
ScaffoldStep ==
  /\ At("scaffold")
  /\ requests' = <<>> /\ attempts' = <<>> /\ outputs' = <<>> /\ evidence' = <<>>
  /\ programs' = [p \in {"p"} |-> "CREATED"]
  /\ sessions' = [s \in {"s"} |-> "p"]
  /\ continuations' = [c \in {"c"} |-> [session |-> "s", parents |-> {}, lifecycle |-> "ACTIVE"]]
  /\ phases' = <<>> /\ states' = <<>> /\ replicas' = <<>>
  /\ bindings' = <<>> /\ currentBinding' = <<>> /\ currentEpoch' = <<>>
  /\ lastAllocatedEpoch' = <<>>
  /\ events' = <<>> /\ eventOrder' = <<>>
  /\ trial' = [trial EXCEPT !.policy = Step.policy, !.effects = <<>>, !.marked = <<>>]
  /\ Done /\ UNCHANGED results

ExactObservation(step) ==
  [authority |-> EXACT_OBSERVATION, status |-> "VALID", observed |-> step.at, until |-> NULL,
   scope |-> step.scope, key |-> step.key, value |-> "SUCCEEDED", support |-> {}, rule |-> FALSE]

RequestCall ==
  /\ CASE Step.call = "request" -> CreateRequest("r", "c", CoreIds)
       [] Step.call = "start" -> StartAttempt(Step.id, "r", CoreIds)
       [] Step.call = "complete" -> CompleteAttempt(Step.id, TRUE)
       [] Step.call = "output" ->
            CreateOutput(Step.id, Step.attempt, TRUE, {Step.evidence}, CoreIds)
  /\ UNCHANGED <<lineageVars, bindingVars, eventVars>>

BindingCall ==
  /\ CASE Step.call = "initial" -> ActivateInitialBinding(Step.id, Subject, "w1", {})
       [] Step.call = "propose" -> ProposeBinding(Step.id, Subject, Step.location, {})
       [] Step.call = "begin" -> BeginMigration(Step.id)
  /\ UNCHANGED <<fencingVars, lineageVars, eventVars>>

(* record_evidence: the same value again changes nothing, another value    *)
(* under the same identifier is refused.                                   *)
EvidenceCall ==
  LET e == ExactObservation(Step) IN
  IF Step.id \notin DOMAIN evidence
  THEN /\ RecordEvidence(Step.id, e, FencingIds \cup CoreIds)
       /\ UNCHANGED <<fencingVars, lineageVars, bindingVars, eventVars>>
       /\ Done /\ UNCHANGED <<trial, results>>
  ELSE IF evidence[Step.id] = e
  THEN Done /\ UNCHANGED <<orderingCoreVars, trial, results>>
  ELSE Refused

CallStep ==
  /\ At("call")
  /\ \/ /\ Step.call \in {"request", "start", "complete", "output"} /\ RequestCall
        /\ Done /\ UNCHANGED <<trial, results>>
     \/ /\ Step.call \in {"initial", "propose", "begin"} /\ BindingCall
        /\ Done /\ UNCHANGED <<trial, results>>
     \/ /\ Step.call = "state" /\ CreateState(Step.id, ContinuationOrigin("c"), {})
        /\ UNCHANGED <<bindingVars, eventVars>>
        /\ Done /\ UNCHANGED <<trial, results>>
     \/ Step.call = "evidence" /\ EvidenceCall

(* One measured delivery: its Evidence, its output unless there is one     *)
(* already, and the finalization or the event itself.                      *)
DeliverStep ==
  /\ At("deliver")
  /\ LET d == trial.deliveries[Step.number]
         i == "evidence:" \o d.event IN
     Continue(
       IF d.action.call = "event" THEN <<Event(d.event, d.action.payload)>>
       ELSE <<ObserveAttempt(d.action.attempt, i, d.at)>>
              \o (IF d.action.output \in DOMAIN outputs THEN <<>>
                  ELSE <<Produce(d.action.output, d.action.attempt, i)>>)
              \o <<Finalize(d.action.output)>>)
  /\ UNCHANGED <<trial, workers, raised, orderingCoreVars, results>>

---------------------------------------------------------------------------
PresentOutput(o) ==
  IF MayFinalize("r", o, OrderingNow) THEN FinalizeRequest("r", o, OrderingNow) ELSE UNCHANGED vars

(* An effect is noted when the request was not COMPLETED before, or its    *)
(* output has changed.                                                     *)
FinalizeStep ==
  /\ At("finalize")
  /\ PresentOutput(Step.output)
  /\ LET was == requests["r"]
         is == requests'["r"] IN
     trial' = IF is.status = "COMPLETED" /\ (was.status # "COMPLETED" \/ was.output # is.output)
              THEN [trial EXCEPT !.effects = Append(@, is.output)] ELSE trial
  /\ UNCHANGED <<lineageVars, bindingVars, eventVars>>
  /\ Done /\ UNCHANGED results

(* record_event: the same event again changes nothing, one with another    *)
(* content is refused.                                                     *)
RecordEvent(i, payload) ==
  IF i \in DOMAIN events THEN UNCHANGED eventVars
  ELSE events' = Put(events, i, payload) /\ eventOrder' = Append(eventOrder, i)

EventStep ==
  /\ At("event")
  /\ RecordEvent(Step.id, Step.payload)
  /\ UNCHANGED <<vars, lineageVars, bindingVars>>
  /\ Done /\ UNCHANGED <<trial, results>>

MigrateStep ==
  /\ At("migrate")
  /\ IF CanCommitMigration(Step.binding, {Step.evidence}, OrderingNow)
     THEN CommitMigration(Step.binding, {Step.evidence}, OrderingNow)
     ELSE UNCHANGED bindingCoreVars
  /\ UNCHANGED <<fencingVars, lineageVars, eventVars>>
  /\ Done /\ UNCHANGED <<trial, results>>

LifecycleStep ==
  /\ At("lifecycle")
  /\ IF continuations["c"].lifecycle \in {"TERMINAL", "ABANDONED"}
        /\ Step.to # continuations["c"].lifecycle
     THEN UNCHANGED <<vars, lineageVars>>
     ELSE SetContinuationLifecycle("c", Step.to)
  /\ UNCHANGED <<bindingVars, eventVars>>
  /\ Done /\ UNCHANGED <<trial, results>>

ValidityStep ==
  /\ At("validity")
  /\ IF MayBeDeclared(states["x"].validity, Step.to)
     THEN SetStateValidity("x", Step.to) ELSE UNCHANGED <<vars, lineageVars>>
  /\ UNCHANGED <<bindingVars, eventVars>>
  /\ Done /\ UNCHANGED <<trial, results>>

(* _event_identity of the oracle: every event is in the order once.        *)
EventIdentity ==
  Len(eventOrder) = Cardinality(DOMAIN events) /\ DOMAIN events = ToSet(eventOrder)

---------------------------------------------------------------------------
(* The projection of the core that is compared.                            *)
Snapshot(kind) ==
  CASE kind = "request" ->
         [status |-> requests["r"].status, committed |-> requests["r"].committed,
          output |-> requests["r"].output,
          authority |-> [a \in DOMAIN attempts |-> attempts[a].authority]]
    [] kind = "events" -> events
    [] kind = "event log" -> [events |-> events, order |-> eventOrder]
    [] kind = "binding" ->
         [binding |-> currentBinding[Subject], epoch |-> currentEpoch[Subject],
          statuses |-> [b \in DOMAIN bindings |-> bindings[b].status]]
    [] kind = "continuation" -> continuations["c"].lifecycle
    [] kind = "state" -> states["x"].validity

MarkStep ==
  /\ At("mark")
  /\ trial' = [trial EXCEPT !.marked = <<Snapshot(trial.scenario.kind)>>]
  /\ Done /\ UNCHANGED <<orderingCoreVars, results>>

(* The self-test of the metric: a second finalization written behind the   *)
(* core's back.                                                            *)
InjectStep ==
  /\ At("inject")
  /\ requests' = [requests EXCEPT !["r"].output = "injected"]
  /\ trial' = [trial EXCEPT !.effects = Append(@, "injected")]
  /\ UNCHANGED <<attempts, outputs, evidence, lineageVars, bindingVars, eventVars>>
  /\ Done /\ UNCHANGED results

FinalizedTwice(effects) == Len(effects) > 1

RequestCompleted == trial.scenario.kind = "request" /\ requests["r"].status = "COMPLETED"

EvaluateStep ==
  /\ At("evaluate")
  /\ LET is == Snapshot(trial.scenario.kind)
         mismatch == is # trial.scenario.target \/ \E i \in 1..Len(trial.marked) : trial.marked[i] # is
         twice == FinalizedTwice(trial.effects)
         counted == trial.scenario.faulted /\ RequestCompleted IN
     results' = Append(results,
       [policy |-> trial.policy, scenario |-> trial.scenario.id, mismatch |-> mismatch,
        effects |-> Len(trial.effects),
        opportunity |-> counted, violation |-> counted /\ twice,
        semantic |-> IF trial.scenario.kind = "request" /\ ~RequestCompleted THEN "FAIL"
                     ELSE IF mismatch \/ twice THEN "WRONG" ELSE "CORRECT"])
  /\ Done /\ UNCHANGED <<trial, orderingCoreVars>>

(* The next scenario of a run over all of them.                            *)
NextScenarioStep ==
  /\ At("next scenario")
  /\ trial' = [trial EXCEPT !.scenario = Step.scenario]
  /\ Done /\ UNCHANGED <<orderingCoreVars, results>>

OrderingCoreStep ==
  \/ KeepStep \/ ScaffoldStep \/ CallStep \/ DeliverStep \/ FinalizeStep \/ EventStep
  \/ MigrateStep \/ LifecycleStep \/ ValidityStep \/ MarkStep \/ InjectStep \/ EvaluateStep
  \/ NextScenarioStep

---------------------------------------------------------------------------
InjectIf(injected) == IF injected THEN <<Inject>> ELSE <<>>

ReplayEach(steps, injected) ==
  FlattenSeq([i \in 1..Len(Policies) |->
    <<Scaffold(Policies[i])>> \o steps \o InjectIf(injected) \o <<Evaluate>>])

(* _replay_measured of a scenario whose deliveries follow the first ones.  *)
ReplayMeasured(scenario, first, injected) ==
  ReplayEach(scenario.case.steps
               \o [i \in 1..Len(scenario.directives) |-> Deliver(first + i)], injected)

SpawnWorkers == Spawn("w1") \o Spawn("w2") \o Spawn("w3")

SingleScript(scenario, injected) ==
  SpawnWorkers \o <<Try>> \o EmitAll(scenario) \o <<StopAll>>
    \o ReplayMeasured(scenario, 0, injected)

FirstOf(i) == Len(FlattenSeq([j \in 1..(i - 1) |-> EV1OrderingScenarios[j].directives]))

(* run_s5_e1_paired: everything is measured by the same workers before     *)
(* anything is replayed.                                                   *)
PairedOrderingScript ==
  SpawnWorkers \o <<Try>>
    \o FlattenSeq([i \in 1..Len(EV1OrderingScenarios) |-> EmitAll(EV1OrderingScenarios[i])])
    \o <<StopAll>>
    \o FlattenSeq([i \in 1..Len(EV1OrderingScenarios) |->
         <<[op |-> "next scenario", scenario |-> EV1OrderingScenarios[i].case]>>
           \o ReplayMeasured(EV1OrderingScenarios[i], FirstOf(i), FALSE)])

NewOrderingTrial(scenario, injected) ==
  [family |-> "S5", scenario |-> scenario, injected |-> injected, policy |-> "none",
   answers |-> [w \in Workers |-> Nothing], deliveries |-> <<>>, effects |-> <<>>,
   marked |-> <<>>]

(* The second finalization is injected into D1, P1 and scenario A only.    *)
OrderingTrialsInit ==
  /\ CoreInit /\ BindingInit
  /\ events = <<>> /\ eventOrder = <<>>
  /\ \/ \E scenario \in EV0OrderingCases \cup PermutationCases, injected \in BOOLEAN :
          /\ injected => scenario.id \in {"D1", "P1"}
          /\ trial = NewOrderingTrial(scenario, injected)
          /\ script = ReplayEach(scenario.steps, injected)
     \/ \E i \in 1..Len(EV1OrderingScenarios), injected \in BOOLEAN :
          /\ injected => i = 1
          /\ trial = NewOrderingTrial(EV1OrderingScenarios[i].case, injected)
          /\ script = SingleScript(EV1OrderingScenarios[i], injected)
     \/ /\ trial = NewOrderingTrial(EV1OrderingScenarios[1].case, FALSE)
        /\ script = PairedOrderingScript
  /\ workers = [w \in Workers |-> NoWorker]
  /\ raised = "none"
  /\ results = <<>>

OrderingWorkerStep ==
  \E w \in Workers :
    /\ workers[w].alive /\ workers[w].inbox # <<>>
    /\ WorkerHandles(w, EmitObservation(Taken(w), workers[w].inbox[1]))

OrderingCoordinator ==
  OrderingCoreStep \/ (CoordinatorStep /\ UNCHANGED <<orderingCoreVars, results>>)

OrderingTrialsNext ==
  \/ OrderingCoordinator
  \/ (ProcessStep \/ OrderingWorkerStep) /\ UNCHANGED <<orderingCoreVars, results>>

---------------------------------------------------------------------------
(* Whatever is delivered twice, late or in another order, every trial ends *)
(* in the declared state, no replay has moved it since its first delivery, *)
(* and each request is finalized exactly once (no duplicate finalization   *)
(* under any schedule and policy).                                         *)
OrderingTrialsEndAsDeclared ==
  \A i \in 1..Len(results) :
    ~trial.injected =>
      /\ ~results[i].mismatch /\ results[i].semantic = "CORRECT"
      /\ results[i].effects <= 1
      /\ results[i].opportunity => results[i].effects = 1

(* A second finalization is counted exactly when there was one, and an     *)
(* injected one never passes for correct.                                  *)
OrderingVerdictsAreTruthful ==
  \A i \in 1..Len(results) :
    LET r == results[i] IN
      /\ r.violation = (r.opportunity /\ r.effects > 1)
      /\ trial.injected => r.violation /\ r.semantic = "WRONG"
      /\ r.semantic = "CORRECT" => ~r.mismatch /\ r.effects <= 1

(* The worker's memory makes a repeated delivery the same observation: two *)
(* deliveries of one event carry one time, so replaying them records one   *)
(* Evidence (_worker_main's semantic_cache).                               *)
RepeatsAreIdentical ==
  trial.family = "S5" =>
    \A i, j \in 1..Len(trial.deliveries) :
      trial.deliveries[i].event = trial.deliveries[j].event
        => trial.deliveries[i] = trial.deliveries[j]
=============================================================================
