---------------------------- MODULE AttemptTrials ----------------------------
(***************************************************************************)
(* Experiment family S1: results of attempts that a retry has superseded   *)
(* are presented late, early, twice or concurrently with the fresh one.    *)
(* EV0 and the sequence manifests schedule events of the simulator and let *)
(* the adapter (SemanticAdapter) deliver them; in EV1 every attempt is a   *)
(* worker process that computes, and its coordinator retries on a timeout. *)
(***************************************************************************)
EXTENDS SemanticAdapter, Trials, SequencesExt

VARIABLE results   \* the finished trials of the case

attemptTrialVars == <<adapterVars, harnessVars, results>>

Policies == <<"B0", "B1", "B2", "B3", "B4">>
Workers == {"a1", "a2", "a3"}

---------------------------------------------------------------------------
(* The events of a manifest, at times in tenths; a presentation of a       *)
(* superseded attempt is labelled stale.                                   *)
At10(at, event) == [at |-> at, event |-> event, stale |-> FALSE]
Request(at) == At10(at, [kind |-> "REQUEST_CREATED", request |-> "r", continuation |-> "c"])
StartOf(at, a) == At10(at, [kind |-> "ATTEMPT_STARTED", request |-> "r", attempt |-> a])
Timeout(at, a, retry) ==
  At10(at, [kind |-> "ATTEMPT_TIMEOUT", request |-> "r", attempt |-> a, retry |-> retry])
Retry(at, a, retry) ==
  At10(at, [kind |-> "RETRY_STARTED", request |-> "r", attempt |-> a, retry |-> retry])
Complete(at, a) == At10(at, [kind |-> "ATTEMPT_COMPLETED", attempt |-> a])
LateComplete(at, a) == At10(at, [kind |-> "LATE_RESULT", attempt |-> a])
Observation(kind, a, observed) ==
  [kind |-> kind, request |-> "r", attempt |-> a, evidence |-> "e:" \o a, output |-> "o:" \o a,
   observed |-> observed]
Observe(at, a) == At10(at, Observation("OBSERVATION_CREATED", a, at))
Stale(at, a) == [Observe(at, a) EXCEPT !.stale = TRUE]
(* The same observation delivered again.                                   *)
Again(at, a, observed) == At10(at, Observation("OBSERVATION_DUPLICATED", a, observed))
StaleAgain(at, a, observed) == [Again(at, a, observed) EXCEPT !.stale = TRUE]

Manifest(id, expected, agenda) == [id |-> id, expected |-> expected, agenda |-> agenda]

(* EV0: the canonical scenarios.  The stale presentation of FTR1 is added. *)
EV0Manifests ==
  {Manifest("FTR1", "a2",
     <<Request(0), StartOf(10, "a1"), Timeout(20, "a1", "a2"), Complete(40, "a2"),
       Observe(50, "a2"), LateComplete(60, "a1"), Stale(70, "a1")>>),
   Manifest("FTR2", "a1",
     <<Request(0), StartOf(10, "a1"), Complete(20, "a1"),
       At10(30, Observation("OBSERVATION_CREATED", "a1", 25)), Again(40, "a1", 25)>>),
   Manifest("FTR3", "a2",
     <<Request(0), StartOf(10, "a1"), Retry(20, "a1", "a2"), Complete(30, "a2"),
       Observe(40, "a2"), LateComplete(50, "a1"), Stale(60, "a1")>>)}

(* The sequence manifests: two attempts, then three generations.           *)
TwoAttempts(id, middle) ==
  Manifest(id, "a2", <<Request(0), StartOf(10, "a1")>> \o middle)
TimeoutFirst(id, rest) == TwoAttempts(id, <<Timeout(20, "a1", "a2")>> \o rest)
LateThenFresh == <<LateComplete(30, "a1"), Complete(40, "a2")>>
StaleThenFresh == <<Stale(50, "a1"), Observe(60, "a2")>>

TwoAttemptManifests ==
  {TimeoutFirst("A1", LateThenFresh \o StaleThenFresh),
   TwoAttempts("A2", <<Complete(20, "a1"), Timeout(30, "a1", "a2"), Complete(40, "a2")>>
                       \o StaleThenFresh),
   TwoAttempts("A3", <<Complete(20, "a1"), Timeout(20, "a1", "a2"), Complete(30, "a2"),
                       Stale(40, "a1"), Observe(50, "a2")>>),
   TimeoutFirst("A4", <<Complete(20, "a1"), Complete(30, "a2"), Stale(40, "a1"), Observe(50, "a2")>>),
   TimeoutFirst("B1", <<Timeout(20, "a1", "a2")>> \o LateThenFresh \o StaleThenFresh),
   TimeoutFirst("B2", <<Retry(21, "a1", "a2")>> \o LateThenFresh \o StaleThenFresh),
   TimeoutFirst("B3", LateThenFresh \o <<Observe(50, "a2"), Retry(60, "a1", "a2"), Stale(70, "a1")>>),
   TwoAttempts("B4", <<Complete(20, "a1"), Retry(30, "a1", "a2"), Complete(40, "a2")>>
                       \o StaleThenFresh),
   TimeoutFirst("C1", <<LateComplete(25, "a1"), Complete(40, "a2")>> \o StaleThenFresh),
   TimeoutFirst("C2", <<Complete(30, "a2"), LateComplete(40, "a1")>> \o StaleThenFresh),
   TimeoutFirst("C3", <<Complete(30, "a2"), Observe(40, "a2"), LateComplete(50, "a1"),
                        Stale(60, "a1")>>),
   TimeoutFirst("C4", <<LateComplete(30, "a1"), LateComplete(31, "a1"), Complete(40, "a2")>>
                        \o StaleThenFresh),
   TwoAttempts("D1", <<Complete(15, "a1"), Timeout(20, "a1", "a2"), Stale(21, "a1"),
                       Complete(30, "a2"), Observe(40, "a2")>>),
   TimeoutFirst("D2", LateThenFresh \o <<Stale(50, "a1"), StaleAgain(51, "a1", 50),
                                         Observe(60, "a2")>>),
   TimeoutFirst("D3", LateThenFresh \o <<Observe(50, "a2"), Stale(60, "a1")>>)}

ThreeGenerations(id, observations) ==
  Manifest(id, "a3",
    <<Request(0), StartOf(10, "a1"), Complete(15, "a1"), Timeout(20, "a1", "a2"),
      Complete(30, "a2"), Timeout(40, "a2", "a3"), Complete(50, "a3")>> \o observations)

SequenceManifests ==
  TwoAttemptManifests
    \cup {ThreeGenerations("E1", <<Stale(60, "a1"), Stale(70, "a2"), Observe(90, "a3")>>),
          ThreeGenerations("E2", <<Observe(60, "a3"), Stale(70, "a1"), StaleAgain(71, "a1", 70),
                                   Stale(80, "a2"), StaleAgain(81, "a2", 80)>>)}

---------------------------------------------------------------------------
(* EV1: which presentations are asked for together.                        *)
Presentation(label, a, stale) == [label |-> label, attempt |-> a, stale |-> stale]
Fresh(a) == Presentation("fresh", a, FALSE)
Late(a) == Presentation("stale", a, TRUE)
Duplicate(p) == [p EXCEPT !.label = p.label \o "-duplicate"]

EV1AttemptScenario(id, mode, ids, groups) ==
  [id |-> id, mode |-> mode, ids |-> ids, groups |-> groups, expected |-> Last(ids),
   agenda |-> <<>>]

EV1AttemptScenarios ==
  LET Race(id, groups) == EV1AttemptScenario(id, "RETRY_RACE", <<"a1", "a2">>, groups)
  IN {Race("E1-A", <<<<Late("a1")>>, <<Fresh("a2")>>>>),
      Race("E1-B", <<<<Fresh("a2")>>, <<Late("a1")>>>>),
      Race("E1-C", <<<<Fresh("a2")>>, <<Duplicate(Fresh("a2"))>>, <<Late("a1")>>,
                     <<Duplicate(Late("a1"))>>>>),
      EV1AttemptScenario("E1-D", "PRETIMEOUT", <<"a1", "a2">>, <<<<Late("a1")>>, <<Fresh("a2")>>>>),
      Race("E1-E", <<<<Late("a1"), Fresh("a2")>>>>),
      EV1AttemptScenario("E1-F", "RETRY_RACE", <<"a1", "a2", "a3">>,
                         <<<<Late("a1"), Late("a2"), Fresh("a3")>>>>)}

---------------------------------------------------------------------------
(* Steps of the coordinator.                                               *)
Scaffold(policy) == [op |-> "scaffold", policy |-> policy]
Run == [op |-> "run"]
CallOf(operation, e) == [op |-> "core", operation |-> operation, event |-> e]
FireTimeout(a) == [op |-> "timeout", attempt |-> a]
Collect(remaining) == [op |-> "collect", remaining |-> remaining]
ApplyCompletion(message) == [op |-> "completion", message |-> message]
AwaitPresentations(remaining) == [op |-> "presentations", remaining |-> remaining]
Record(operation, e) == [op |-> "record", operation |-> operation, event |-> e]
TryFinalize(e, stale) == [op |-> "finalize", event |-> e, stale |-> stale]
Evaluate == [op |-> "evaluate"]

CoreEvent(a) == [kind |-> "ATTEMPT_STARTED", request |-> "r", attempt |-> a, continuation |-> "c"]
StartRunning(a) == <<CallOf("start_attempt", CoreEvent(a)), CallOf("running", CoreEvent(a))>>
StartWorker(a) ==
  Spawn(a) \o Command(a, [op |-> "BEGIN"], "STARTED")
    \o Command(a, [op |-> "ARM"], "COMPUTE_READY")
    \o <<Send(a, [op |-> "GO"]), Receive(a, "COMPUTE_STARTED")>>

(* _run_e1_trace.                                                          *)
EV1Trace(scenario) ==
  LET ids == scenario.ids
      pretimeout == scenario.mode = "PRETIMEOUT"
  IN <<CallOf("create_request", CoreEvent(ids[1]))>> \o StartRunning(ids[1]) \o StartWorker(ids[1])
       \o (IF pretimeout THEN <<Collect({ids[1]})>> ELSE <<>>)
       \o FlattenSeq([i \in 1..(Len(ids) - 1) |->
            <<FireTimeout(ids[i])>> \o StartRunning(ids[i + 1]) \o StartWorker(ids[i + 1])])
       \o <<Collect(ToSet(IF pretimeout THEN Tail(ids) ELSE ids))>>
       \o FlattenSeq([g \in 1..Len(scenario.groups) |->
            [i \in 1..Len(scenario.groups[g]) |->
               Send(scenario.groups[g][i].attempt,
                    [op |-> "PRESENT", presentation |-> scenario.groups[g][i]])]
              \o <<AwaitPresentations(ToSet(scenario.groups[g]))>>])
       \o <<StopAll>>

---------------------------------------------------------------------------
(* A worker computes and remembers what it observed, which any number of   *)
(* presentations repeat.  Its clock is the timeouts that have fired.       *)
Compute(worker) ==
  [worker EXCEPT !.outbox = Append(@, [kind |-> "COMPUTE_STARTED"]), !.pending = [op |-> "compute"]]

Computed(w) ==
  [workers[w] EXCEPT
     !.pending = Nothing,
     !.store = <<trial.fired>>,
     !.outbox = Append(@, [kind |-> "COMPLETION", attempt |-> w, observed |-> trial.fired])]

HandleAttemptCommand(w, worker, command) ==
  CASE command.op = "BEGIN" -> Answer(worker, [kind |-> "STARTED"])
    [] command.op = "ARM" -> Answer(worker, [kind |-> "COMPUTE_READY"])
    [] command.op = "GO" -> Compute(worker)
    [] command.op = "PRESENT" ->
         IF worker.store = <<>> THEN Exit(worker)
         ELSE Answer(worker, [kind |-> "PRESENTATION", attempt |-> w, observed |-> worker.store[1],
                              presentation |-> command.presentation])

AttemptWorkerStep ==
  \E w \in Workers :
    \/ /\ workers[w].alive /\ workers[w].pending = [op |-> "compute"]
       /\ workers' = [workers EXCEPT ![w] = Computed(w)]
       /\ UNCHANGED <<trial, script, raised>>
    \/ /\ workers[w].alive /\ workers[w].pending = Nothing /\ workers[w].inbox # <<>>
       /\ WorkerHandles(w, HandleAttemptCommand(w, Taken(w), workers[w].inbox[1]))

---------------------------------------------------------------------------
OwnVars == <<now, retries, reserved, success, applied, todo>>
AttemptDone == Continue(<<>>) /\ UNCHANGED <<workers, raised>>
AttemptRefused(why) == Raise(why) /\ UNCHANGED <<trial, workers, results, adapterVars>>

AttemptScaffoldStep ==
  /\ At("scaffold")
  /\ requests' = <<>> /\ attempts' = <<>> /\ outputs' = <<>> /\ evidence' = <<>>
  /\ now' = 0 /\ retries' = {} /\ reserved' = {} /\ success' = <<>> /\ applied' = {} /\ todo' = <<>>
  /\ trial' = [trial EXCEPT !.policy = Step.policy, !.fired = {}, !.finalized = 0, !.accepted = 0,
                            !.agenda = trial.scenario.agenda, !.handling = Nothing]
  /\ AttemptDone /\ UNCHANGED results

(* A stale presentation is of a superseded attempt that has succeeded, or  *)
(* of one an earlier defect has committed already.                         *)
IsStale(a) ==
  /\ attempts[a].execution = "SUCCEEDED"
  /\ attempts[a].authority \in {"SUPERSEDED", "COMMITTED"}

(* The retry a timeout schedules comes after what is due at the same time. *)
WithRetry(agenda, e, at) ==
  SelectSeq(agenda, LAMBDA x : x.at <= at) \o <<At10(at, RetryOf(e))>>
    \o SelectSeq(agenda, LAMBDA x : x.at > at)

RunTimeout(e, rest) ==
  IF StillCurrent(e) /\ e.retry \notin reserved
  THEN /\ reserved' = reserved \cup {e.retry} /\ retries' = retries \cup {RetryOf(e)}
       /\ trial' = [trial EXCEPT !.agenda = WithRetry(rest, e, Head(trial.agenda).at)]
  ELSE /\ trial' = [trial EXCEPT !.agenda = rest]
       /\ UNCHANGED <<reserved, retries>>

(* sim.run: the next event, first to the handler that captures the stale   *)
(* precondition, then to the adapter.                                      *)
RunNextEvent ==
  /\ At("run") /\ todo = <<>> /\ trial.handling = Nothing /\ trial.agenda # <<>>
  /\ LET due == Head(trial.agenda)
         rest == Tail(trial.agenda) IN
     IF due.stale /\ ~IsStale(due.event.attempt) THEN AttemptRefused("not stale")
     ELSE /\ now' = due.at
          /\ IF due.event.kind = "ATTEMPT_TIMEOUT"
             THEN RunTimeout(due.event, rest) /\ UNCHANGED todo
             ELSE /\ todo' = Calls(due.event, OperationsOf(due.event, due.at))
                  /\ trial' = [trial EXCEPT !.agenda = rest, !.handling = due]
                  /\ UNCHANGED <<reserved, retries>>
          /\ UNCHANGED <<coreVars, success, applied, script, workers, raised, results>>

RunAdapterCall ==
  /\ At("run") /\ todo # <<>>
  /\ Call
  /\ trial' = IF Head(todo).operation = "finalize_request" /\ requests' # requests
              THEN [trial EXCEPT !.finalized = @ + 1] ELSE trial
  /\ UNCHANGED <<script, workers, raised, results>>

Supersession(e) ==
  /\ attempts[e.attempt].execution = "RUNNING" /\ attempts[e.attempt].authority = "SUPERSEDED"
  /\ attempts[e.retry].authority = "CURRENT" /\ requests["r"].current = e.retry
LateSuccess(e) ==
  attempts[e.attempt].authority = "SUPERSEDED" /\ attempts[e.attempt].execution = "SUCCEEDED"

(* The handlers behind the adapter's: EV0 asserts what its retries and     *)
(* late results are, and a stale presentation is accepted if its attempt   *)
(* is the committed one now.                                               *)
RunLaterHandlers ==
  /\ At("run") /\ todo = <<>> /\ trial.handling # Nothing
  /\ LET e == trial.handling.event
         canonical == trial.scenario \in EV0Manifests IN
     IF canonical /\ (\/ e.kind = "RETRY_STARTED" /\ ~Supersession(e)
                      \/ e.kind = "LATE_RESULT" /\ ~LateSuccess(e))
     THEN AttemptRefused("not superseded")
     ELSE /\ trial' = [trial EXCEPT !.handling = Nothing,
                 !.accepted = IF trial.handling.stale /\ requests["r"].committed = e.attempt
                              THEN @ + 1 ELSE @]
          /\ UNCHANGED <<script, workers, raised, results, adapterVars>>

RunEnds ==
  /\ At("run") /\ todo = <<>> /\ trial.handling = Nothing /\ trial.agenda = <<>>
  /\ AttemptDone /\ UNCHANGED <<trial, results, adapterVars>>

---------------------------------------------------------------------------
CoreCallStep ==
  /\ At("core")
  /\ CoreCall(Step.operation, Step.event)
  /\ AttemptDone /\ UNCHANGED <<trial, results, OwnVars>>

(* _wait_for_retry_timeout.                                                *)
FireTimeoutStep ==
  /\ At("timeout")
  /\ trial' = [trial EXCEPT !.fired = @ \cup {Step.attempt}]
  /\ AttemptDone /\ UNCHANGED <<results, adapterVars>>

(* The attempts whose next message in the shared queue is of this kind.    *)
Presenters(kind) == {w \in Workers : workers[w].outbox # <<>> /\ workers[w].outbox[1].kind = kind}
TakeFrom(w) == workers' = [workers EXCEPT ![w].outbox = Tail(@)]

(* inbox.wait for every completion, in the order they arrive.              *)
CollectStep ==
  /\ At("collect")
  /\ IF Step.remaining = {}
     THEN /\ Continue([i \in 1..Len(trial.completions) |-> ApplyCompletion(trial.completions[i])])
          /\ trial' = [trial EXCEPT !.completions = <<>>]
          /\ UNCHANGED <<workers, raised>>
     ELSE IF Presenters("COMPLETION") = {}
     THEN Raise("timeout") /\ UNCHANGED <<trial, workers>>
     ELSE \E w \in Presenters("COMPLETION") :
            IF w \notin Step.remaining THEN Raise("duplicate completion") /\ UNCHANGED <<trial, workers>>
            ELSE /\ TakeFrom(w)
                 /\ trial' = [trial EXCEPT !.completions = Append(@, workers[w].outbox[1])]
                 /\ Continue(<<Collect(Step.remaining \ {w})>>)
                 /\ UNCHANGED raised
  /\ UNCHANGED <<results, adapterVars>>

(* _apply_completion.  In a race a superseded attempt must not have        *)
(* finished before its timeout fired; one that is waited for before any    *)
(* timeout is still the current attempt.                                   *)
ApplyCompletionStep ==
  /\ At("completion")
  /\ LET a == Step.message.attempt IN
     IF trial.scenario.mode = "RETRY_RACE" /\ a \in trial.fired \ Step.message.observed
     THEN AttemptRefused("too early")
     ELSE IF trial.fired = {} /\ attempts[a].authority # "CURRENT" THEN AttemptRefused("not current")
     ELSE /\ CoreCall("succeed", [attempt |-> a])
          /\ AttemptDone /\ UNCHANGED <<trial, results, OwnVars>>

Observed(message) == Observation("OBSERVATION_CREATED", message.attempt, Cardinality(message.observed))

(* inbox.wait for any presentation of the group, then _apply_presentation. *)
AwaitPresentationStep ==
  /\ At("presentations")
  /\ LET ready == {w \in Presenters("PRESENTATION") :
                     workers[w].outbox[1].presentation \in Step.remaining} IN
     IF Step.remaining = {} THEN AttemptDone
     ELSE IF ready = {} THEN Raise("timeout") /\ UNCHANGED workers
     ELSE \E w \in ready :
            LET p == workers[w].outbox[1].presentation
                e == Observed(workers[w].outbox[1]) IN
            IF p.stale /\ ~IsStale(w) THEN Raise("not stale") /\ UNCHANGED workers
            ELSE /\ TakeFrom(w)
                 /\ Continue(<<Record("record_evidence", e), Record("create_output", e),
                               TryFinalize(e, p.stale), AwaitPresentations(Step.remaining \ {p})>>)
                 /\ UNCHANGED raised
  /\ UNCHANGED <<trial, results, adapterVars>>

(* _ensure_terminal_evidence and _ensure_terminal_output.                  *)
RecordStep ==
  /\ At("record")
  /\ IF ~Exists(Step.operation, Step.event)
     THEN CoreCall(Step.operation, Step.event) /\ AttemptDone /\ UNCHANGED <<trial, results, OwnVars>>
     ELSE IF Expected(Step.operation, Step.event)
     THEN AttemptDone /\ UNCHANGED <<trial, results, adapterVars>>
     ELSE AttemptRefused("conflicting identity")

PresentTerminal(e) ==
  IF MayFinalize("r", e.output, now) THEN CoreCall("finalize_request", e) ELSE UNCHANGED coreVars

(* What is presented for a stale attempt has become authoritative.         *)
AcceptedStale(e) ==
  requests'["r"].committed = e.attempt \/ requests'["r"].output = e.output

TryFinalizeStep ==
  /\ At("finalize")
  /\ PresentTerminal(Step.event)
  /\ trial' = [trial EXCEPT
       !.finalized = IF coreVars' # coreVars THEN @ + 1 ELSE @,
       !.accepted = IF Step.stale /\ AcceptedStale(Step.event) THEN @ + 1 ELSE @]
  /\ AttemptDone /\ UNCHANGED <<results, OwnVars>>

AttemptEvaluateStep ==
  /\ At("evaluate")
  /\ LET r == requests["r"] IN
     results' = Append(results,
       [policy |-> trial.policy, committed |-> r.committed,
        newest |-> r.committed # NULL /\ attempts[r.committed].generation = Highest(Generations("r")),
        finalized |-> trial.finalized,
        stale |-> trial.accepted > 0,
        twice |-> r.status = "COMPLETED" /\ trial.finalized > 1,
        semantic |-> IF r.status # "COMPLETED" THEN "FAIL"
                     ELSE IF r.committed = trial.scenario.expected THEN "CORRECT" ELSE "WRONG"])
  /\ AttemptDone /\ UNCHANGED <<trial, adapterVars>>

AttemptCoreStep ==
  \/ AttemptScaffoldStep \/ RunNextEvent \/ RunAdapterCall \/ RunLaterHandlers \/ RunEnds
  \/ CoreCallStep \/ FireTimeoutStep \/ CollectStep \/ ApplyCompletionStep
  \/ AwaitPresentationStep \/ RecordStep \/ TryFinalizeStep \/ AttemptEvaluateStep

---------------------------------------------------------------------------
TrialOf(policy, steps) == <<Scaffold(policy)>> \o steps \o <<Evaluate>>

NewAttemptTrial(scenario) ==
  [family |-> "S1", scenario |-> scenario, policy |-> "none", answers |-> [w \in Workers |-> Nothing],
   agenda |-> <<>>, handling |-> Nothing, fired |-> {}, completions |-> <<>>, finalized |-> 0,
   accepted |-> 0]

AttemptTrialsInit ==
  /\ AdapterInit
  /\ \/ \E m \in EV0Manifests \cup SequenceManifests :
          /\ trial = NewAttemptTrial(m)
          /\ script = FlattenSeq([i \in 1..Len(Policies) |-> TrialOf(Policies[i], <<Run>>)])
     \/ \E s \in EV1AttemptScenarios, p \in {"B0", "B4"} :
          /\ trial = NewAttemptTrial(s)
          /\ script = TrialOf(p, EV1Trace(s))
  /\ workers = [w \in Workers |-> NoWorker]
  /\ raised = "none"
  /\ results = <<>>

AttemptCoordinator ==
  AttemptCoreStep \/ (CoordinatorStep /\ UNCHANGED <<adapterVars, results>>)

AttemptTrialsNext ==
  \/ AttemptCoordinator
  \/ (ProcessStep \/ AttemptWorkerStep) /\ UNCHANGED <<adapterVars, results>>

---------------------------------------------------------------------------
(* No late, duplicated or concurrent result of a superseded attempt is     *)
(* ever accepted: every trial that is reported commits the newest attempt, *)
(* once (zero stale acceptance and zero duplicate finalization).           *)
AttemptTrialsEndAsDeclared ==
  \A i \in 1..Len(results) :
    LET r == results[i] IN
      /\ r.committed = trial.scenario.expected /\ r.semantic = "CORRECT"
      /\ r.finalized = 1 /\ ~r.stale /\ ~r.twice

(* The metrics are not blind: a stale acceptance is counted exactly when   *)
(* an attempt that is not the newest one ended up committed, and a second  *)
(* finalization whenever there was one.                                    *)
AttemptVerdictsAreTruthful ==
  \A i \in 1..Len(results) :
    LET r == results[i] IN
      r.committed # NULL =>
        /\ r.stale = ~r.newest
        /\ r.twice = (r.finalized > 1)
        /\ (r.semantic = "WRONG") = ~r.newest
=============================================================================
