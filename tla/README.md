# Continuity-aware distributed inference: TLA+ development

This directory holds TLA+ models of the program under `src/`, the TLC
configurations that check them on small instances, and theorems that TLAPS
checks for every value of the constants. Paths below are relative to `src/`.

## 1. The system and its parts

The repository has four layers. The **semantic core** (`continuity/`) is a
sequential, in-memory machine that decides who may commit, consume or move
what. The **simulator** (`simulator/`) drives it with timed events, physical
resources and injected faults. The **prototype** (`prototype/`) is a set of real
processes (authority, fault harness, workers) on TCP sockets. The **experiments**
(`experiments/`) replay traces and compare baselines with the core.

| Part | State | Operations | Status |
|---|---|---|---|
| Evidence store and gate (`continuity/core_base.py`, `core.py`) | `evidence` | `record_evidence`, `require_evidence`, `reconcile` | modelled |
| Requests, attempts, outputs (`core_base.py`) | `requests`, `attempts`, `outputs` | `create_request`, `start_attempt`, `set_attempt_execution`, `complete_attempt`, `create_output`, `finalize_request` | modelled |
| Bindings and epochs (`core_base.py`) | `bindings`, current binding, current and last allocated epoch | `propose_binding`, `activate_initial_binding`, `begin_migration`, `commit_migration` | modelled |
| Continuation graph, phases, State, replicas (`core_base.py`) | `programs`, `sessions`, `continuations`, `phases`, `states`, `replicas` | creations, status changes, `resume_after_wait`, `create_state`, `set_state_validity`, `can_consume_state` | modelled |
| Invariant oracle (`continuity/invariants.py`), snapshots (`serialization.py`) | none | `assert_all`; `restore_core`'s acceptance | oracle modelled, the rest partly |
| Causal events (`continuity/core_base.py`), replay (`replay.py`) | `events` | `append_event`; comparison of recorded executions | events only where S5 uses them, replay not |
| Event kernel (`simulator/engine.py`, `events.py`) | heap, cancelled ids, known ids, clock, trace | `schedule`, `cancel`, `run_next`, `run` | modelled |
| Physical resources (`simulator/resources.py`) | workers, tasks, queues, active lists, replicas, transfers | 9 operations, 10 handlers | modelled |
| Fault injector (`simulator/faults.py`) | fault records | delay, drop, duplicate, reorder, fail, lose; `assert_ground_truth` | modelled |
| Semantic adapter (`simulator/semantic_adapter.py`) | reserved retries, success times, records | 9 handlers that call the core | modelled |
| Cross-layer faults (`simulator/fault_linkage.py`) | fault records | attempt faults, `evict_replica`, outcome classification | modelled |
| Fault campaigns (`simulator/fault_campaign.py`, `fault_oracle.py`) | manifests, runs | build a schedule, replay it, judge | partly |
| Policies (`simulator/policies.py`, `continuity_policy.py`) | none | contracts, projection, placement, migration decision | partly |
| Fault queue of the prototype (`prototype/c8_faults.py`) | script cursor, delayed, late and held frames | `submit`, three flushes | modelled |
| Authority (`c8_authority.py`) | current worker, generation, log | receive loop | modelled |
| Harness (`c8_harness.py`) | worker socket, pid, expected shutdown, schedulers | select loop | modelled |
| Worker (`c8_worker.py`) | process and socket | connect, register, work, shut down | modelled |
| Orchestrator (`c8_runtime.py`) | the processes it started | start, terminate, restart, stop | modelled |
| Transport (`c8_transport.py`) | socket states | send and receive | partly |
| Retention engine (`experiments/c73_retention_engine.py`) | resident States, truth, sessions, accounts, outcome | a batch in fixed phases; the end of a Program | modelled |
| Migration engine (`experiments/c74_migration_engine.py`) | a core per cell, results | a cell per policy | partly |
| Correctness experiments (`experiments/*_e1.py`, `*_sequences*.py`, `continuity_baselines.py`, `correctness.py`, `idempotence_ordering.py`, `state_lineage.py` and others) | a core per trial, worker processes and their pipes | trials, EV0 and EV1; metrics | partly |
| Traces, workloads, calibration, protocols, reports, gates | mostly none | batch computations, digests, statistics | not modelled |

How they interact. The adapter and the experiments call the core; a call that
raises leaves the core unchanged. Handlers of the simulator run one at a time, to
the end, and reach other components only by scheduling events; a fault changes
which deliveries happen, when, and how often. In the prototype every frame
between a worker and the authority passes through the harness, which may hold it
back, copy it or drop it, and which alone tells the authority that a worker has
gone. The orchestrator starts and kills processes and, before it restarts a
worker, waits for an entry in the authority's log. An experiment's coordinator
builds a core per trial, commands worker processes over pipes and judges what the
core did; a case runs its trials one after the other and reuses its workers.

### What is hard

* **Retries and late answers.** A superseded attempt goes on running; its
  reports, outputs and Evidence arrive at any time (`core_base.py:129-220`).
* **Stale candidates.** A migration is prepared under one epoch and committed
  under another (`core_base.py:389-430`).
* **Derived facts.** Evidence and State are derived from earlier ones over many
  steps, while the checks compare neighbours (`core_base.py:223-289`, `452-470`).
* **Cached summaries.** `State.lifecycle` is stored and has to be refreshed by
  each operation on the graph (`core_base.py:291`).
* **Completions of what has ended.** A completion was scheduled before its
  worker failed, its replica was evicted or its task was copied
  (`resources.py:313-546`).
* **Stacked faults.** A fault may hit a delivery that another fault produced, or
  the anchor another one waits for (`faults.py:240`, `394`).
* **Batches of ready sockets.** The harness handles a batch of keys computed
  before the first of them changed the state (`c8_harness.py:239-305`).
* **Termination races.** A worker is killed, replaced and reported in three
  processes whose order is not fixed (`c8_harness.py:252`, `c8_authority.py:239`).
* **Bounded queues and pairs.** Delayed, late and reordered frames share one
  capacity, and a reordering needs two frames (`c8_faults.py:62-110`).

* **Equal times.** Admissions, expiries, invalidations and evictions of one batch
  happen at one instant, and an audit record is written in the middle of them
  (`c73_retention_engine.py:649`).
* **Replayed faults.** A replay runs up to the time of an entry before it injects;
  the campaign may have injected within the instant (`fault_campaign.py:534`).
* **Reused workers.** A worker process outlives the trial it served, or dies in it;
  answers are matched by their kind (`binding_safety_e1.py:729`,
  `evidence_safety_e1.py:361`).
* **Blind instruments.** "No violations" is worth something only if a violation
  would have been counted (`idempotence_ordering.py:508`).

`PROJECT.json` lists each of these at its line, with the properties that cover it.

### What makes each part correct

* Evidence: derivation widens neither scope nor validity; the gate fails closed
  on anything ambiguous.
* Requests: one authority per request, one commit, of the newest attempt, on exact
  Evidence about it; nothing decided is undone.
* Bindings: one holder per subject, epochs used once, one linear history, stale
  candidates never win.
* State: what an attempt may consume is valid, causal and committed all the way
  down; taint is permanent; committed work stays.
* Kernel and resources: order, single execution, cancellation; slots match tasks;
  no task is forgotten; what is available is reachable; endings are final.
* Adapter: a commit observes a success that was delivered; a retry fences the
  attempt it was scheduled for; repeated deliveries change nothing; what the fault
  linker calls safe is safe.
* Campaigns: a replay at the campaign's pace does what the campaign did.
* Prototype: only dead workers are reported failed, reported ones are not
  current again, no going back to an older worker, the first replacement waits
  until its predecessor is forgotten or about to be, serving workers wind down, a
  termination is reported unless a successor is quicker.
* Retention: checkpoints fit, useful and wasted time add up to residency, what a
  policy protects stays, only the audit's check can raise.
* Experiments: every trial ends as its scenario declares, every verdict is
  truthful, nothing leaks from a trial into the next, every case ends
  and leaves workers behind only when one was not ready.

## 2. The modules

```
semantic core         EvidenceGate <-- AttemptFencing <-- StateLineage <--+
                           ^            |  (FencedRegister is abstract)   +-- InvariantOracle
                           +------------|----- BindingEpochs <------------+
simulator             DiscreteEvents <-- EventKernel
                           ^------------|----- ResourceModel <-- FaultInjection <-- FaultCampaign
both                                    +-- SemanticAdapter <-- FaultLinkage
prototype             DeliveryScheduler <-- FaultQueue
                           ^--------------- C8Substrate
experiments           RetentionEngine        PlacementPolicies <-- LineageTrials, BindingTrials,
                                                                   MigrationTrials
                      Trials <-- AttemptTrials (on SemanticAdapter), LineageTrials (StateLineage),
                                 BindingTrials (BindingEpochs), EvidenceTrials (AttemptFencing),
                                 OrderingTrials (StateLineage, BindingEpochs),
                                 MigrationTrials (InvariantOracle)
                      Experiments: all of these, by INSTANCE, in one state
proofs                AttemptFencingProofs <-- SemanticCoreProofs (on InvariantOracle),
                                           <-- SemanticAdapterProofs (on FaultLinkage),
                      FaultInjectionProofs (on FaultInvariants)
                           ^--- CampaignProofs (on CampaignRuns <-- FaultCampaign),
                      FaultQueueProofs, C8SubstrateProofs,
                      EngineProofs (on EventKernel, RetentionEngine)
```

An arrow points to the module that is extended. `MC*.tla` and `MC*.cfg` are the
instances for TLC. Operators marked "Mutant" in their comment are variants of the
definition below them with a plausible mistake; no specification uses them, they
show that the properties notice it.

* **EvidenceGate** keeps `evidence`, a function from identifiers to records with
  authority, status, time, scope, structured claim and supports. `RecordEvidence`
  is the only action; `RequireEvidence` and `Reconcile` are operators, because
  they change nothing. The other modules of the core use them as guards.
* **AttemptFencing** has one action per operation on requests, attempts and
  outputs. The dictionaries are functions whose domain grows. The actions take
  `used`, the identifiers in other collections, since `_unique` spans twelve of
  them. A raising call is not a step: the checks an operation makes before it changes
  anything are operators of their own (`MayStart`, `MayReport`, `MayCreateOutput`,
  `MayFinalize`, and `MayRecord` for Evidence), with which the adapter and the
  experiments say when the core raises.
* **FencedRegister** is what the above promises: one write-once register per
  request, guarded by a token. `AttemptFencing!Register` maps the highest
  generation to the token and the authoritative output to the value.
* **BindingEpochs** has one action per binding operation over the four
  dictionaries of the code.
* **StateLineage** adds programs, sessions, continuations, phases, States and
  replicas. `Refreshed` is part of each graph operation, as in the code.
  `StateCompatible` follows provenance; `SemanticValidity` is the callback.
  `Callers` is a set of caller profiles, one of which is chosen at the start and
  bounds how many things of each kind are created and which statuses are set.
* **InvariantOracle** has one operator per check of `assert_all`, read from
  `invariants.py` and not from the invariants above, and `OracleAccepts`, their
  conjunction. `RestoreAccepts` is what `restore_core` asks of a snapshot.
* **DiscreteEvents** are operators on a simulator record (heap, marks, known ids,
  clock, trace); **EventKernel** is the kernel alone, under arbitrary callers;
  **ResourceModel** runs the resource handlers on it; **FaultInjection** adds
  the fault operations and the conditions of `assert_ground_truth`. `raised` is
  set when a handler raises out of `run()`.
* **FaultCampaign** records what is injected while a prepared scenario runs as a
  schedule, restores the prepared state and applies the schedule as
  `FaultScheduleReplayer` does; it also judges the records as the trust oracle
  does. `campaign.paced` is a history variable: whether every injection was made
  where a replay makes it (`InPace`), after everything due at its time and with
  nothing executed between two injections of one time. Two runs are compared by what
  the simulator shows (`Visible`): cancelled events that wait in the heap to be dropped
  are not counted, since horizons drop some of them earlier.
* **FaultInvariants** states, in named parts, the invariants from which the theorems
  about resources, faults and campaigns follow. **CampaignRuns** puts what each handler and
  each fault does as a function of what is visible of the scenario (`Ran`, `Hits`), and says
  what a run of a campaign is as a value (`Path`). Both modules serve the proofs only; the
  functions are shown to be what the actions do (`RunSeen`, `FaultHits`, `HitsAgain`).
* **SemanticAdapter** delivers a script of events to the adapter's handlers at any
  later time, any number of times, in any order or never, which covers what the
  kernel and the faults can do to them. Each call of the core is a step, because
  the oracle runs after each; `CoreAccepts` is whether the core would raise.
  `applied` is a history variable: the events whose deliveries have changed the core.
* **FaultLinkage** adds the faults of attempts: their injection with its
  conditions, the faults of deliveries on what they produced, and `Observe`, the
  class the linker reports from the adapter's actions and the authoritative
  outcome.
* **DeliveryScheduler** are operators on one fault queue; **FaultQueue** uses one
  alone; **C8Substrate** composes the processes, the sockets between them (FIFO
  sequences of frames, reset and end of stream), one queue per kind of message,
  and the orchestrator with its phases (starting, running, restarting, failed,
  stopped) and its wait for an entry of the authority's log. A step of the harness
  is one ready key of a batch. The authority handles a failure report in two steps,
  as the code does: `AuthorityNotes` writes the log entry, which the orchestrator can
  read from then on, and `AuthorityReceive` takes the frame and forgets the worker.
* **RetentionEngine** takes a batch through the phases of `run`: `Invalidate`,
  `UpdateTruth`, `ReleaseAndExpire`, `Reuse`, `Admit`, `CapacityEnforce`, `Advance`,
  `ProgramEnd`. Which events a batch holds is chosen as the phases reach them.
  `occupied` is a history variable.
* **PlacementPolicies** are operators: the contract of each policy, the projection
  of an observation to it, `decide_placement` of B0 to B4 and `decide_migration`. A
  view is a function on the fields a policy may see, so reading another field
  would be an evaluation error.
* **Trials** is the coordinator as a script of steps (start a process, hold its
  handle, enter the `try`, send, receive, join, stop) with worker processes at the
  ends of two pipes each; the families put their own steps, commands and trials into
  it. A started process says READY in a step of its own, or dies before it, and the
  wait for READY may fail. An exception runs the `finally` clause only from inside
  the `try` (`Guarded`), and that stops the workers whose handles are held: S3, S4 and
  S5 spawn before the `try` and hold a handle after READY, S2 spawns before it and
  holds the handles before READY, S1 spawns inside it. EV0 and adversarial trials are
  scripts without workers. **Experiments** holds all families in one state; its
  properties are the conjunction of theirs.

Abstractions that hold throughout: identifiers are model values or numbers,
payloads and texts are dropped unless a check reads them, times are small
naturals, a record whose only use is reporting is left out.

## 3. The runs

| Run | Instance | What it shows |
|---|---|---|
| `authority` | one of: 1 request, 3 attempts, 2 outputs, 1 Evidence of 6 kinds, one identifier offered twice; 3 candidates, 2 subjects, 2 Evidence | attempts: `OracleHolds`, `CommitIsEvidenced`, `DecisionsAreFinal`, and the refinement of `FencedRegister`; bindings: `BindingOracleHolds`, `HistoryIsLinear`, `StaleCandidatesStayDead` |
| `state_lineage` | 3 caller profiles: graph (3 continuations, 2 sessions), retries (2 requests, 3 attempts), phases (2 attempts, 2 phases); 2 States | `SnapshotsRestore` (the oracle accepts, and what a restored core relies on is fresh), `ConsumptionIsSafe`, `TaintIsPermanent`, `DurableUntilInvalidated` |
| `engines` | one of: 3 Evidence identifiers, 2 things, 2 instants; every script of up to 4 directives, 5 frames, capacity 2; 4 events, delays 0 and 1, horizons 1 and 2; 3 States of one Session, 3 admissions, capacity and time to live of 1, under every retention policy | gate: `ScopeIsRooted`, `GateFailsClosed`; fault queue: `Bounded`, `FramesLeaveAsScripted`; kernel: `TraceIsOrdered`, `CancelledNeverRuns`; retention: `CheckpointsFit`, `AccountsBalance`, `OnlyTheAuditRaises`, `ProtectedStays` |
| `faults` | 2 workers, 8 caller profiles: three campaigns with up to two faults that are replayed, tasks with delivery faults, 3 tasks with 3 failures, a moving replica with faults and drops, with a removal, with both ends failing; 2 stacked faults | forgotten tasks, reachability, endings, ground truth, where a handler may raise, `ReplayIsExact` |
| `semantic_adapter` | 1 request with 3 attempts and a second one never created, 3 timeouts, a direct start, late success, failure, 7 observations, up to 2 attempt and delivery faults; instants 0 to 2 | `CommitsObserveSuccess`, `RetriesFenceTheirAttempt`, `RepeatsChangeNothing`, `FaultsAreSafe`; deadlock is checked |
| `experiments` | every case of S1 to S5 and every migration cell, 2 or 3 worker processes as in the code, with and without the injected divergence, processes slow or failing to start | `TrialsEndAsDeclared`, `VerdictsAreTruthful`, `NothingLeaksBetweenTrials`, and `CasesEnd` under fairness |
| `c8_faults` | 3 workers, 2 fault plans, every deadline may pass | `FailureReportsAreTrue`, `ReportedIsForgotten`, `WorkersSucceedInOrder` |
| `c8_liveness` | fair, one of: 1 worker that is asked to shut down, delayed and duplicated frames and a redundant lost one; 2 workers that are not, a registration duplicated and a work delayed | `WorkersWindDown`, `TerminationIsNoticed` |
| `c8_termination` | 2 workers that are not asked to shut down, no faults, fair | finding: a killed worker whose successor is quicker is never reported |
| `c8_assertion` | 1 worker, no faults | finding: the assertion at `c8_harness.py:305` fails |
| `eviction_ground_truth` | 1 replica, an eviction and a loss | finding: `assert_ground_truth` refuses a legal run |
| `retention_overcommit` | the retention engine of `engines` | finding: the audit raises in the middle of a legal batch |

`engines` puts four independent engines into one run, and `authority` two protocols;
a behaviour is of one of them and the others stand still.

**Why these bounds.** Three attempts, candidates or workers are the fewest with an
"older than the superseded one", a loser that outlives the winner's successor,
and a restart of a restart. Two States and three continuations make a
derivation across a fork or a join; two sessions make a foreign parent. Four
events have two with equal times, one on each side of a horizon, and one of them
cancelled. Two faults are enough for a fault on the product of another. Five
frames overrun a capacity of two and leave a pair of reorderings unfinished.
Capacities 1 and 2 of workers are one that blocks and one with room to go wrong by
one. Three admissions against a capacity of one State make an overrun by two, a
readmission, and an admission that is refused in a batch that is already full.
The cases of the experiments are the code's own. The bounds are constants in the
`.cfg` files or the caller profiles of the `MC` modules (`MaxEvents`, `MaxAdmits`,
`MaxFrames`, `MaxScript`, `MaxWorkers`, `MaxTime`, `MaxFaults`, `Horizons`, `Delays`,
`Capacity`, `Capacities`, `Callers`, the identifier sets, `EvidenceWithin` of `authority`, and
`OneWindsDown` of `c8_liveness`: one worker where it is asked to shut down).

**Deadlock.** The stores only grow over finite identifier sets, the schedules are
finite and the processes of the prototype end; so these runs may stop and say
`CHECK_DEADLOCK FALSE`. The adapter can always receive an old event again, so
there deadlock is checked: no handler gets stuck between two calls.

**Symmetry** is used in `state_lineage`, for identifiers of one kind, and in `engines`
for the States of the retention engine, which are alike; neither run has liveness
properties.

**Fairness.** `c8_liveness` and `c8_termination` assume weak fairness of the
authority, of the harness and of each worker. They are operating-system processes in receive or select
loops that nothing else blocks. The orchestrator is not fair: nobody is obliged
to start or kill a worker. No deadline is assumed not to pass: `Impatient` is empty
in these runs, which says that the peers are faster than two seconds, and every
process is impatient in `c8_faults`. `experiments` assumes weak fairness of the
coordinator alone, one sequential program; a worker may hang or die, and `CasesEnd`
rests on the bounded waits and on the `finally` clause, and allows for what that clause
does not reach: after a wait for READY that failed, the worker waited for, and with it
those spawned before it if that was before the first trial.

## 4. What is proved

Eight modules hold the theorems; every leaf is checked. They hold for all sets of
identifiers, all Evidence values, all scripts, capacities, delays and horizons, all
plans of faults, all topologies of workers and links, and any number of workers.
Assumptions: `NULL` is not an identifier
(`IdAssumption`, `LineageAssumption`, `BindingIdAssumption`), a capacity is positive and
scripts are ones the constructor accepts (`CapacityAssumption`, `ScriptAssumption`,
`SubstrateAssumption`), Evidence values and times as the constructors accept them (the
assumptions of `EvidenceGate`), delays and horizons are numbers (`EventKernel`), capacities
of workers are positive, links join workers and callers ask for finitely many things
(`TopologyAssumption`, `FaultAssumption`), horizons are
numbers (`CampaignAssumption`), the observations of a script are ones whose Evidence
the constructor accepts (`AdapterAssumption`, `LinkageAssumption`), and the Program of the retention engine
declares finitely many States (`RetentionAssumption`).

**AttemptFencing.** The inductive invariant `IInv` is `TypeOK` together with
`StoreWellFormed`, `AuthorityMatchesPointers`, `NewestHoldsAuthority`,
`CommitConsistent` and `CommitIsEvidenced`. None of them is inductive alone:
that a commit is of the newest attempt needs the pointers, that pointers stay
inside the request needs that no identifier is used twice (which matters when
the identifier sets overlap, as the theorems allow), and that `start_attempt`
takes a new generation needs that the generations are 1..n. Lemmas say what each
operation does to the stores (`StartEffect`, `FinalizeEffect`,
`StartGenerations`). From it follow `OracleNeverFails`, `CommitsEvidenced`,
the action property `Finality`, and `Refinement`: `start_attempt` is an `Issue` of
the register, `finalize_request` a `Write`, everything else a stutter.

**SemanticCore.** The invariant `CoreInv` of the composed core keeps `IInv` and says that
the graph and the provenance of State have no dangling reference and no cycle
(`GraphResolves`, `GraphAcyclic`, `OriginsResolve`, `DerivationAcyclic`), that phases are
numbered within their attempt, that every dependency was allowed when it was derived
(`DependenciesAllowed`) and that stored lifecycles are the derived ones
(`LifecycleIsFresh`). Ancestry and lineage are defined by the sets that are closed
under parents or derivations, so a fact about a chain of any length needs one closed
set and no induction. What was allowed at the time stays allowed because records are
kept: a continuation, a phase or a State is never forgotten nor moved
(`ProvenanceIsFinal`); this carries `DependenciesAllowed` from the step that derived a
State to every later one, and `ConsumptionAlwaysSafe` reads it off along the lineage.
`TaintStays` and `CommittedWorkStays` speak of the step itself: what `StateCompatible`
asks of a lineage can only be lost through a status, and statuses that end a phase, an
attempt or a State are final. `CoreImplementsFencing` shows that every operation of the
core is a step or a stutter of `AttemptFencing`, so all of its theorems, the fenced
register among them, hold of the core. `OracleInv` adds the counts and the one
namespace of identifiers, and `SnapshotsAlwaysRestore` goes through the oracle's checks
one by one. The run composes the core without bindings, so the oracle's check of them
is empty there; their theorems are those of `BindingEpochs`.

**BindingEpochs** (in `SemanticCoreProofs`). `BindingInv` adds to `BindingTypeOK`, `OneActiveBinding` and
`EpochsAllocatedOnce` the two that speak about history, `OneWinnerPerBase` and
`CommittedFormAChain`; a winner is unique because a second one would have to be
based on an epoch that is still current, and the chain says the current epoch is
above every base that has a winner. `LinearHistory` and `StaleForever` follow.

**FaultQueue.** `QueueInv` (a well-formed scheduler within capacity) is preserved
by `submit` and by the flushes; lemmas state that for any scheduler, so the bound
also holds for the harness's order of calls (`HarnessQueuesBounded`). `ScriptIsFollowed`
needs an account of every frame: `ScriptInv` says how often a frame has been sent or
refused by its directive and in which lane it waits (`NoFrameUnaccounted`), that the
lanes are in order of submission and behind what was sent of them (`LaneInOrder`), and
that the two frames of a `REORDER` pair leave together (`PairsTogether`). The count of a frame over
the concatenation is the sum of its counts (`OccurrencesAdd`).

**C8Substrate.** `C8Inv` has one named part per fact. About the processes: pids are handed
out in order and the newest worker alone lives (`PidsInOrder`), connections are accepted
in that order (`AcceptedInOrder`), a worker registers before it sends anything else
(`ConnectionsFirst`), and a batch names a key only while it is ready or harmless
(`BatchIsFresh`: the worker's key must not become an end of file of the *next* worker, so
a listener in a batch has a connection waiting). From these, a failure is reported only of
an ended worker (`ReportsAreTrue`). About the link: each failure is reported once and is
behind all registrations of its worker (`FailuresOnce`, `FailureComesLast`), so that an
authority which reads them in order forgets the worker for good (`ReportedStaysForgotten`).
A report that has been logged is the frame the authority acts on next (`NotedIsNext`), and
the first one logged is the first worker's. So at its replacement the first worker is
forgotten, or its failure is logged and it is forgotten next: more is not true, since
`restart_worker` may find the entry before the authority has cleared `current_worker_pid`.
`SuccessionHolds` has a hypothesis, `OrderlyPlans`: no rule delays or swaps
a registration (`DELAY` and `REORDER` of `REGISTER` are excluded; `DUPLICATE`, `DROP` and
`LATE_DELIVER` are not). Without it the property is false: a registration that is held
back until the next worker's has gone by makes the authority go back to an older worker.
The plans of `c8_faults` satisfy it. The theorems hold for every set `Impatient`,
whichever deadlines may pass.

**EvidenceGate** (its theorems stand in `AttemptFencingProofs`). `RootedInv` adds to
`ScopeIsRooted` that every support has been recorded. `ScopeIsRooted` speaks of every
set of Evidence that contains its own supports; such a set without the new Evidence is
still closed, because what was recorded before does not rest on it, and what it says of
the supports is the induction hypothesis: no induction over chains is needed.
`GateClosed` holds in every store, whatever it contains: more Evidence can undo neither
an ambiguity (`AmbiguityStays`) nor a contradiction (`ConflictStays`).

**SemanticAdapter and FaultLinkage.** The theorems are about `LinkedSpec`: any script,
delivered in any order and any number of times, with any faults. `LinkInvariant` says
where a running handler stands (`TodoInv`: the calls it has still to make are its event's,
and what it has checked still holds) and that every Output, committed or not, rests on
Evidence observed after the success of its attempt (`OutputsObserveSuccess`;
`CommitsObserveSuccess` alone is not inductive, since an Output is created before it is
committed). `AdapterKeepsCore` shows that all steps are steps or stutters of
`AttemptFencing`, so its theorems hold behind the adapter. `RetriesFence` needs that the
attempt a retry names is still current when its first call is made. For
`RepeatsAreIdempotent`, `Settled` says why the calls of a further delivery cannot change
anything: their identifiers are taken, the attempt has ended, or, for an observation, its
attempt is not current or the Output under its identifier is another one. `SettledStays` shows
that no step of the core undoes this, because collections only grow and a request turns
to new attempts only (`CoreGrows`); `HandlerKnows` carries it through the three calls of an
observation that is being handled for the second time. For `FaultsAlwaysSafe`, `FaultInv`
says what a record's event is about, whichever fault produced it (`CarriesSo`: an attempt
that has lost its authority, for good), what the outcomes of a handled delivery are
(`EndedSo`) and how far the one being handled has come (`UnderWay`: a stale observation
reaches the last call either rejected already or with an Output of its own attempt, which
the core refuses to commit and which nothing can have been committed with).

**EventKernel** (in `EngineProofs`). `KernelInv` says that the heap lies ahead of the clock and each event
in it has its id to itself (`HeapInv`), that the trace is in order, lies behind and
came before everything still in the heap (`TraceInv`), and that marks belong to
events in the heap. `TraceOrdered` needs all of it but the marks; `CancelledStays` needs
those: a mark that is dropped early revives its event.

**FaultInjection** (resources and faults). The theorems are about `FaultSpec`: callers
ask for any operation between two events, and faults hit any pending delivery, of
another fault too. `Moved` says in one formula what a step does to the events: which one
it executes, which it cancels and which it schedules; each operation, handler and fault
is shown to be such a move. `ResourceInv` rests on what an identifier says (`IdsUsed`): every
identifier that is taken names its task, replica or transfer and what it was taken for,
so that no handler but one is ever refused an identifier. Besides it holds that the subject of an event
exists (`SubjectsExist`), that the lists of a worker name each task once and as its status
says (`Slots`), and that a replica has one unfinished transfer (`OneTransfer`; with two, the first to complete would take the source from the other). `TasksNeverForgotten` needs
`DropsNoTask`, that the callers with tasks drop no delivery: a dropped delivery of a task is a
task that waits in vain. `FaultInv` adds the records of the faults. Each record is true of
the events (`RecordTrue`): what was cancelled is in neither heap nor trace, what was produced
is in one of them or was cancelled by another fault, and its anchor is before it. A
later fault may cancel what a record produced, which is then among what faults have
cancelled; so `OldRecord` carries a record over any move. `FailuresLast` and `LossesLast` say
which delivery had the last word on a worker or a replica, and `StartedOnce` that without a
copy no materialization is started twice, from which `OnlyCopiesRaise` follows: a handler
raises only when the completion it schedules has been scheduled before. `EvictionGroundTruth`
is false (a finding).

**FaultCampaign.** `AnyStep` is any step of `FaultSpec`, and each step of a campaign or a
replay is one, or a stutter, or runs to a horizon (`StopAt`, `RunToEntry`), with one
exception: `StartReplay` puts the prepared scenario back and forgets the records. So
`CampaignInv` adds to `FaultInv` that it held of the scenario when it was prepared,
without records (`Prepares`, the instance of `FaultInvariants` in which the variables
are the fields of the prepared scenario), and that no event had been executed (`Aside`). From it `CampaignsForgetNoTask`,
`CampaignsReachWhatIsAvailable`, `CampaignsKeepGroundTruth` and `CampaignsRaiseOnCopies`
state for `CampaignSpec` what the run checks; `CampaignEndingsStay` leaves out
`StartReplay` as the property does, because another simulator begins there.

`ReplaysAreExact` compares two whole runs, and when the second comes to a state the
first one is over. So the proof keeps the first as a value: a path is the sequence of
what was visible after each event and each fault of the original run, with the number of
faults so far. What a step makes of the visible part is a function of the visible part
(`HandleSeen` for each handler, `FaultHits` for each fault), though the heap also
holds cancelled events, which horizons drop at other times in the two runs. While the
original run goes on, `Injecting` says that there is a path which ends where the run
is, but for the time that passes at a horizon (`Goes`, extended by `EventGoes`,
`WaitGoes` and `FaultGoes`). That the campaign keeps the pace of a replay (`InPace`) is needed
in `PathRecorded`: a fault comes into the path where `run(until)` stops in the replay, so that
each event before it is one the replay executes before it. In the replay, `Follows` says that
the scenario is at some point of that path, or at that point with the clock put forward to
the next entry, and that what remains of the schedule are the entries of the remaining
records. An event of the replay is the next of the path because the earliest event is unique
(`EventFollows`). When the time of an entry has come the path has a fault there (`FaultIsDue`),
which makes the entry applicable, and what is applied is that fault (`FaultFollows`); so no
paced replay fails, and when nothing is left to run it is at the end of the path.

**RetentionEngine** (in `EngineProofs`). `RetentionInv` is the types and that only `FIXED_TTL` gives a
State an expiry. With it `ProtectionHolds` goes through the phases: a release takes
only what the policy does not protect, an expiry only what has one, and the
enforcement takes nothing under `SESSION_PINNING` (it would have to overrun first,
which raises) and nothing `ACTIVE` under `LIFECYCLE_B4`, for every set of States
and every capacity. `EngineInv` says what each phase leaves for the next one: nothing
resident is invalid once truth has been updated (`ResidentsValid`), nothing the policy
releases is left (`PolicyApplied`), no two intervals began at once (`OrdinalsUnique`), no
expiry lies behind (`ExpiriesAhead`), and what fits where (`WithinCapacity`). The victims
are the first ones of an order; `RanksCount` says that the elements of rank below k of a
finite total order are k many, so evicting the excess leaves exactly the capacity
(`CheckpointsAlwaysFit`), and no assertion of the engine can fail (`AssertionsNeverFail`).
`AccountsAlwaysBalance` needs what a sum over a finite set does when one State enters,
leaves or changes; the fold it is written with is unfolded one element at a time, by
well-founded induction over the finite sets.

**Model-checked only.** The trials of the experiments (fixed cases, so a theorem would say
no more than the run) and all liveness (`WorkersWindDown`, `TerminationIsNoticed`, `CasesEnd`). The four properties of
findings are false.

## 5. Observations

Four disagreements are findings with a run. The following were met while
modelling; the models behave as the code does.

* `resources.py:406` raises out of `run()` when a `STATE_MATERIALIZATION_STARTED`
  is duplicated, though `faults.py:70` names only idempotent and ignored outcomes.
  `RaisesOnlyOnCopies` shows it is the only such case.
* `core_base.py:233` compares phase ordinals between direct dependencies only; a
  State without a phase in between lets a later phase's State into an earlier
  one's lineage (`spec/07:152-154` speaks of all dependencies). Consumption is
  still safe (`ConsumptionIsSafe`).
* `c8_faults.py:92`: when the first frame of a `REORDER` pair finds no room it is
  dropped and the pair's second frame is held as if it were the first
  (`c8_faults.py:26` requires pairs); it may stay held for good.
* `binding_safety_e1.py:1195` (and `evidence_safety_e1.py:913`, `941`): the workers are
  spawned before the `try` whose `finally` clause stops them, and a handle is stored only
  after READY, in `attempt_fencing_e1.py:599` as well. A worker that is not ready in time
  stays, and so do those before it when the case has not begun; they end only when
  they see that the coordinator's end of the pipe is gone. `CasesEnd` says exactly that.
* `c8_harness.py:286`: `SHUTDOWN` is marked expected before it is forwarded. If the
  forward fails, or the frame is held back, a worker that is then killed is not
  reported and stays current.
* `c8_transport.py:193`: the two-second deadline also runs before the first byte of
  a frame (cf. the comment at line 51), so an authority that is merely idle leaves.
* A late `REGISTER` of a worker that has already been reported makes it current
  again, until a successor registers (`c8_authority.py:156`); `ReportedIsForgotten`
  therefore excludes plans with a rule for `REGISTER`.
* `semantic_adapter.py:319`: a retry identifier stays reserved when its start is
  dropped or ignored; a later timeout cannot ask for it again.
* `set_continuation_lifecycle` makes a `WAITING` node `ACTIVE` again, which
  `spec/02:548` leaves to `resume_after_wait`.
* `c8_runtime.py:201`: `restart_worker` waits for any `PROCESS_FAILURE_OBSERVED` in
  the authority's log and reads it from the start, so a failure of an earlier worker
  satisfies the wait for a later one; `WorkersSucceedInOrder` therefore speaks of the
  first worker's replacement. A worker that was never reported is waited for in vain.
  The entry is written before `current_worker_pid` is cleared (`c8_authority.py:241`, `247`),
  so a new worker may start while the authority still has the old one as current.
* `fault_campaign.py:534`: a replay runs everything due at the time of an entry before
  it injects. A campaign that injected in the middle of an instant is replayed in
  another order, and the replay fails or leaves another trace; `ReplayIsExact` is
  stated for paced campaigns.
* `fault_linkage.py`: a fault whose event is neither delivered nor dropped by the end
  stays `PENDING` for good, in the linker's report too.
* `continuity_policy.py:219`: the context B4 checks a State against carries no phase, so
  its placement may offer a State of a later phase, which the core then refuses.
* `c73_retention_engine.py:649`: apart from the finding, none of the engine's
  assertions can fail (`OnlyTheAuditRaises`).

## 6. Not modelled, and why

Floating-point cost models and calibration (numeric code without state), trace
parsing and workload augmentation (data processing), experiment protocols,
resumable execution over files, digests, reports and gates (frozen parameters and
file checks), event logs and wire constants (no reader but the orchestrator's wait,
which is modelled), JSON conversion, formatting and payload validation. Of the
campaigns, the random decisions, fingerprints and the classes that go through the
adapter; of the policies, `decide_retention`, which nothing calls, and the snapshot of
resources; of the migration engine, its accounts in bytes and seconds; of the
experiments, their artifacts and tables. `replay.py` compares recorded executions by
digest, which says nothing a model of the operations does not say already.

## 7. Plan

Done: the core's four parts with the abstract register and the oracle, the kernel,
resources, faults and campaigns, the adapter with the fault linkage, the prototype
with its orchestrator, the retention engine, the policies, and the experiments;
theorems about all of them but the policies and the experiments.
Next, most important first:

1. **Retention ledger**: the frozen sizes in place of States of size one, which
   eviction of several victims for one admission would use.
2. **Campaigns through the adapter**: the classes of attempt faults in a schedule.

New modules share a run with the ones they compose where that asks one question.
