--------------------------- MODULE ResourceModel ---------------------------
(***************************************************************************)
(* The physical resources of the simulator (simulator/resources.py):       *)
(* workers with bounded capacity and a queue of tasks, replicas of State   *)
(* on the workers, and transfers of replicas over links.  Every operation  *)
(* only schedules an event; the handlers act when the kernel executes it,  *)
(* by when the worker, the replica or the link's ends may have changed.    *)
(*                                                                         *)
(* Workers and links are added before the first event.  Tasks, replicas    *)
(* and transfers are numbered in the order of their creation, which is the *)
(* order in which the code walks its dictionaries.  Times of start and     *)
(* completion are recorded in the code and left out here.  The handlers    *)
(* that end a record which never had a completion event leave that field   *)
(* alone in the code and reset it here, which is the same.  schedule may   *)
(* raise in one handler only: a task is dispatched and a transfer leaves   *)
(* SCHEDULED once, so their completions are new.                           *)
(***************************************************************************)
EXTENDS DiscreteEvents, SequencesExt

CONSTANTS
  Workers,       \* worker ids
  WorkerCapacity,\* worker |-> capacity
  Links,         \* link |-> [source, destination, duration of a transfer]
  Callers        \* what the callers of a behaviour may do: the workers they use, the
                 \* durations of tasks and materializations, how many tasks, replicas
                 \* and transfers they create, and how many failures (fail_worker,
                 \* recover_worker) and removals (evict_replica, lose_replica) they ask for

(* The kinds of calls that are counted.                                    *)
Calls == {"tasks", "replicas", "transfers", "failures", "removals"}

ASSUME TopologyAssumption ==
  /\ WorkerCapacity \in [Workers -> Nat \ {0}]
  /\ \A l \in DOMAIN Links :
       /\ Links[l].source \in Workers /\ Links[l].destination \in Workers
       /\ Links[l].duration \in Nat
  /\ \A c \in Callers :
       /\ {"workers", "durations"} \cup Calls \subseteq DOMAIN c
       /\ c.workers \subseteq Workers /\ c.durations \subseteq Nat
       /\ \A kind \in Calls : c[kind] \in Nat

VARIABLES
  sim,        \* the event kernel
  workers,    \* worker |-> "UP" or "DOWN"
  tasks,      \* sequence of ResourceTask
  queues,     \* worker_queues
  active,     \* worker_active
  replicas,   \* sequence of ReplicaRuntime
  transfers,  \* sequence of StateTransfer
  callers,    \* what the callers may still do
  raised      \* a handler raised out of run()

taskVars == <<tasks, queues, active>>
vars == <<sim, workers, tasks, queues, active, replicas, transfers, callers, raised>>

NoEvent == << >>
Task(w, duration) == [worker |-> w, duration |-> duration, status |-> "QUEUED", completion |-> NoEvent]
Replica(w, duration) ==
  [location |-> w, duration |-> duration, status |-> "MATERIALIZING", completion |-> NoEvent]
Transfer(r, l) == [replica |-> r, link |-> l, status |-> "SCHEDULED", completion |-> NoEvent]

Source(t) == Links[transfers[t].link].source
Destination(t) == Links[transfers[t].link].destination
Unfinished(t) == transfers[t].status \in {"SCHEDULED", "RUNNING"}

TaskComplete(t) == <<"task-complete", t>>
MaterializeComplete(r) == <<"materialize-complete", r>>
TransferComplete(t) == <<"transfer-complete", t>>

(* An event without delay.                                                 *)
AtOnce(s, kind, subject) == Order(kind, s.now, NoId, subject)

(* The callers use up one of their calls of a kind.                        *)
Call(kind) == callers[kind] > 0 /\ callers' = [callers EXCEPT ![kind] = @ - 1]

---------------------------------------------------------------------------
(* The operations: what a caller may ask for between two events.           *)
EnqueueTask(w, duration) ==
  LET t == Len(tasks) + 1 IN
  /\ Call("tasks")
  /\ tasks' = Append(tasks, Task(w, duration))
  /\ queues' = [queues EXCEPT ![w] = Append(@, t)]
  /\ sim' = Scheduled(sim, <<Order("WORKER_TASK_ENQUEUED", sim.now, <<"task-enqueued", t>>, w)>>)
  /\ UNCHANGED <<workers, active, replicas, transfers, raised>>

FailOrRecover(w, kind) ==
  /\ Call("failures")
  /\ sim' = Scheduled(sim, <<AtOnce(sim, kind, w)>>)
  /\ UNCHANGED <<workers, taskVars, replicas, transfers, raised>>

FailWorker(w) == FailOrRecover(w, "WORKER_FAILED")
RecoverWorker(w) == FailOrRecover(w, "WORKER_RECOVERED")

MaterializeReplica(w, duration) ==
  LET r == Len(replicas) + 1 IN
  /\ Call("replicas")
  /\ replicas' = Append(replicas, Replica(w, duration))
  /\ sim' = Scheduled(sim, <<Order("STATE_MATERIALIZATION_STARTED", sim.now,
                                   <<"materialize-start", r>>, r)>>)
  /\ UNCHANGED <<workers, taskVars, transfers, raised>>

Transferable(r, l) ==
  /\ replicas[r].status = "AVAILABLE"
  /\ replicas[r].location = Links[l].source
  /\ \A t \in DOMAIN transfers : transfers[t].replica = r => ~Unfinished(t)

StartTransfer(r, l) ==
  LET t == Len(transfers) + 1 IN
  /\ Call("transfers")
  /\ Transferable(r, l)
  /\ transfers' = Append(transfers, Transfer(r, l))
  /\ sim' = Scheduled(sim, <<Order("STATE_TRANSFER_STARTED", sim.now, <<"transfer-start", t>>, t)>>)
  /\ UNCHANGED <<workers, taskVars, replicas, raised>>

EvictOrLose(r, kind) ==
  /\ Call("removals")
  /\ sim' = Scheduled(sim, <<AtOnce(sim, kind, r)>>)
  /\ UNCHANGED <<workers, taskVars, replicas, transfers, raised>>

EvictReplica(r) == EvictOrLose(r, "STATE_EVICTED")
LoseReplica(r) == EvictOrLose(r, "STATE_LOST")

---------------------------------------------------------------------------
(* The handlers.  s is the kernel after the event was popped.              *)

(* _dispatch: fill the free slots of an UP worker from its queue q.        *)
Started(w, up, q, running) ==
  IF up THEN SubSeq(q, 1, IF Len(q) < WorkerCapacity[w] - Len(running)
                            THEN Len(q) ELSE WorkerCapacity[w] - Len(running))
        ELSE << >>

Completions(s, chosen, known) ==
  [i \in DOMAIN chosen |-> Order("WORKER_TASK_COMPLETED", s.now + known[chosen[i]].duration,
                                 TaskComplete(chosen[i]), chosen[i])]

Dispatch(w, s, up, running, known) ==
  LET q == queues[w]
      chosen == Started(w, up, q, running)
  IN /\ queues' = [queues EXCEPT ![w] = SubSeq(q, Len(chosen) + 1, Len(q))]
     /\ active' = [active EXCEPT ![w] = running \o chosen]
     /\ tasks' = [t \in DOMAIN known |->
                    IF t \in ToSet(chosen)
                      THEN [known[t] EXCEPT !.status = "RUNNING", !.completion = TaskComplete(t)]
                      ELSE known[t]]
     /\ sim' = Scheduled(s, Completions(s, chosen, known))

OnTaskEnqueued(w, s) ==
  /\ Dispatch(w, s, workers[w] = "UP", active[w], tasks)
  /\ UNCHANGED <<workers, replicas, transfers, callers, raised>>

Ignored(s) == sim' = s /\ UNCHANGED <<workers, taskVars, replicas, transfers, callers, raised>>

OnTaskCompleted(t, s) ==
  LET w == tasks[t].worker IN
  \/ tasks[t].status # "RUNNING" /\ Ignored(s)
  \/ /\ tasks[t].status = "RUNNING"
     /\ Dispatch(w, s, workers[w] = "UP", RemoveFirst(active[w], t),
                 [tasks EXCEPT ![t].status = "COMPLETED", ![t].completion = NoEvent])
     /\ UNCHANGED <<workers, replicas, transfers, callers, raised>>

(* Mutant: the transfers of a failing worker go on.                        *)
TouchingNone(w) == {}

(* The replicas and transfers a failing worker takes down.                 *)
Present(w) ==
  {r \in DOMAIN replicas : replicas[r].location = w
                             /\ replicas[r].status \notin {"EVICTED", "LOST"}}
Touching(w) == {t \in DOMAIN transfers : Unfinished(t) /\ w \in {Source(t), Destination(t)}}

Failed(ids) ==
  [t \in DOMAIN transfers |->
     IF t \in ids THEN [transfers[t] EXCEPT !.status = "FAILED", !.completion = NoEvent]
                  ELSE transfers[t]]

(* Ids in the order of their creation.                                     *)
Rank(id, ids) == Cardinality({other \in ids : other < id})
Ascending(ids) == [i \in 1..Cardinality(ids) |-> CHOOSE id \in ids : Rank(id, ids) = i - 1]

OnWorkerFailed(w, s) ==
  LET lost == Ascending(Present(w))
      broken == Ascending(Touching(w))
      ends == {tasks[t].completion : t \in ToSet(active[w])}
                \cup {replicas[r].completion : r \in Present(w)}
                \cup {transfers[t].completion : t \in Touching(w)}
  IN \/ workers[w] = "DOWN" /\ Ignored(s)
     \/ /\ workers[w] = "UP"
        /\ workers' = [workers EXCEPT ![w] = "DOWN"]
        /\ active' = [active EXCEPT ![w] = << >>]
        /\ tasks' = [t \in DOMAIN tasks |->
                       IF t \in ToSet(active[w])
                         THEN [tasks[t] EXCEPT !.status = "FAILED", !.completion = NoEvent]
                         ELSE tasks[t]]
        /\ replicas' = [r \in DOMAIN replicas |->
                          IF r \in Present(w)
                            THEN [replicas[r] EXCEPT !.status = "LOST", !.completion = NoEvent]
                            ELSE replicas[r]]
        /\ transfers' = Failed(Touching(w))
        /\ sim' = Scheduled(Cancelled(s, ends),
                    [i \in DOMAIN active[w] |-> AtOnce(s, "WORKER_TASK_FAILED", active[w][i])]
                      \o [i \in DOMAIN lost |-> AtOnce(s, "STATE_LOST", lost[i])]
                      \o [i \in DOMAIN broken |-> AtOnce(s, "STATE_TRANSFER_FAILED", broken[i])])
        /\ UNCHANGED <<queues, callers, raised>>

(* Mutant: the queue of a recovered worker waits for its next task.        *)
OnWorkerRecoveredIdle(w, s) ==
  /\ workers' = [workers EXCEPT ![w] = "UP"]
  /\ sim' = s
  /\ UNCHANGED <<taskVars, replicas, transfers, callers, raised>>

OnWorkerRecovered(w, s) ==
  \/ workers[w] = "UP" /\ Ignored(s)
  \/ /\ workers[w] = "DOWN"
     /\ workers' = [workers EXCEPT ![w] = "UP"]
     /\ Dispatch(w, s, TRUE, active[w], tasks)
     /\ UNCHANGED <<replicas, transfers, callers, raised>>

(* The location has failed in the meantime: the replica is lost.           *)
LostWithWorker(r, s) ==
  /\ replicas' = [replicas EXCEPT ![r].status = "LOST", ![r].completion = NoEvent]
  /\ sim' = Scheduled(s, <<AtOnce(s, "STATE_LOST", r)>>)
  /\ UNCHANGED <<workers, taskVars, transfers, callers, raised>>

(* schedule raises out of the handler if the completion has been scheduled *)
(* before.                                                                 *)
OnMaterializationStarted(r, s) ==
  LET completion == Order("STATE_MATERIALIZED", s.now + replicas[r].duration,
                          MaterializeComplete(r), r)
  IN \/ replicas[r].status # "MATERIALIZING" /\ Ignored(s)
     \/ /\ replicas[r].status = "MATERIALIZING"
        /\ workers[replicas[r].location] = "DOWN"
        /\ LostWithWorker(r, s)
     \/ /\ replicas[r].status = "MATERIALIZING"
        /\ workers[replicas[r].location] = "UP"
        /\ IF Schedulable(s, completion)
             THEN /\ sim' = Scheduled(s, <<completion>>)
                  /\ replicas' = [replicas EXCEPT ![r].completion = MaterializeComplete(r)]
                  /\ raised' = raised
             ELSE /\ sim' = s
                  /\ replicas' = replicas
                  /\ raised' = TRUE
        /\ UNCHANGED <<workers, taskVars, transfers, callers>>

OnStateMaterialized(r, s) ==
  \/ replicas[r].status # "MATERIALIZING" /\ Ignored(s)
  \/ /\ replicas[r].status = "MATERIALIZING"
     /\ workers[replicas[r].location] = "DOWN"
     /\ LostWithWorker(r, s)
  \/ /\ replicas[r].status = "MATERIALIZING"
     /\ workers[replicas[r].location] = "UP"
     /\ replicas' = [replicas EXCEPT ![r].status = "AVAILABLE", ![r].completion = NoEvent]
     /\ sim' = s
     /\ UNCHANGED <<workers, taskVars, transfers, callers, raised>>

(* The replica is still at the source and both ends are up.                *)
Sound(t) ==
  LET r == replicas[transfers[t].replica] IN
  /\ r.status = "AVAILABLE"
  /\ r.location = Source(t)
  /\ workers[Source(t)] = "UP"
  /\ workers[Destination(t)] = "UP"

FailTransfer(t, s) ==
  /\ transfers' = Failed({t})
  /\ sim' = Scheduled(s, <<AtOnce(s, "STATE_TRANSFER_FAILED", t)>>)
  /\ UNCHANGED <<workers, taskVars, replicas, callers, raised>>

OnTransferStarted(t, s) ==
  \/ transfers[t].status # "SCHEDULED" /\ Ignored(s)
  \/ transfers[t].status = "SCHEDULED" /\ ~Sound(t) /\ FailTransfer(t, s)
  \/ /\ transfers[t].status = "SCHEDULED"
     /\ Sound(t)
     /\ transfers' = [transfers EXCEPT ![t].status = "RUNNING", ![t].completion = TransferComplete(t)]
     /\ sim' = Scheduled(s, <<Order("STATE_TRANSFER_COMPLETED",
                                    s.now + Links[transfers[t].link].duration,
                                    TransferComplete(t), t)>>)
     /\ UNCHANGED <<workers, taskVars, replicas, callers, raised>>

OnTransferCompleted(t, s) ==
  \/ transfers[t].status # "RUNNING" /\ Ignored(s)
  \/ transfers[t].status = "RUNNING" /\ ~Sound(t) /\ FailTransfer(t, s)
  \/ /\ transfers[t].status = "RUNNING"
     /\ Sound(t)
     /\ replicas' = [replicas EXCEPT ![transfers[t].replica].location = Destination(t)]
     /\ transfers' = [transfers EXCEPT ![t].status = "COMPLETED", ![t].completion = NoEvent]
     /\ sim' = Scheduled(s, <<AtOnce(s, "STATE_MOVED", transfers[t].replica)>>)
     /\ UNCHANGED <<workers, taskVars, callers, raised>>

(* Mutant: the eviction of a lost replica is recorded.                     *)
OnStateGoneAlways(r, s, status) ==
  /\ replicas' = [replicas EXCEPT ![r].status = status, ![r].completion = NoEvent]
  /\ sim' = s
  /\ UNCHANGED <<workers, taskVars, transfers, callers, raised>>

(* _on_state_evicted and _on_state_lost, which fail the replica's          *)
(* transfers first.                                                        *)
OnStateGone(r, s, status) ==
  LET moving == {t \in DOMAIN transfers : transfers[t].replica = r /\ Unfinished(t)}
      broken == Ascending(moving)
  IN \/ replicas[r].status = "LOST" /\ Ignored(s)
     \/ /\ replicas[r].status # "LOST"
        /\ replicas' = [replicas EXCEPT ![r].status = status, ![r].completion = NoEvent]
        /\ transfers' = Failed(moving)
        /\ sim' = LET ordered == Scheduled(s, [i \in DOMAIN broken |->
                                                 AtOnce(s, "STATE_TRANSFER_FAILED", broken[i])])
                  IN Cancelled(ordered, {transfers[t].completion : t \in moving}
                                          \cup {replicas[r].completion})
        /\ UNCHANGED <<workers, taskVars, callers, raised>>

(* The handlers registered by ResourceModel; other kinds have none.        *)
Handle(e, s) ==
  CASE e.kind = "WORKER_TASK_ENQUEUED" -> OnTaskEnqueued(e.subject, s)
    [] e.kind = "WORKER_TASK_COMPLETED" -> OnTaskCompleted(e.subject, s)
    [] e.kind = "WORKER_FAILED" -> OnWorkerFailed(e.subject, s)
    [] e.kind = "WORKER_RECOVERED" -> OnWorkerRecovered(e.subject, s)
    [] e.kind = "STATE_MATERIALIZATION_STARTED" -> OnMaterializationStarted(e.subject, s)
    [] e.kind = "STATE_MATERIALIZED" -> OnStateMaterialized(e.subject, s)
    [] e.kind = "STATE_TRANSFER_STARTED" -> OnTransferStarted(e.subject, s)
    [] e.kind = "STATE_TRANSFER_COMPLETED" -> OnTransferCompleted(e.subject, s)
    [] e.kind = "STATE_EVICTED" -> OnStateGone(e.subject, s, "EVICTED")
    [] e.kind = "STATE_LOST" -> OnStateGone(e.subject, s, "LOST")
    [] OTHER -> Ignored(s)

RunNext == \E e \in sim.queue : IsEarliest(sim, e) /\ Handle(e, Popped(sim, e))

---------------------------------------------------------------------------
ResourceInit ==
  /\ sim = NewSimulator
  /\ workers = [w \in Workers |-> "UP"]
  /\ tasks = << >> /\ replicas = << >> /\ transfers = << >>
  /\ queues = [w \in Workers |-> << >>]
  /\ active = [w \in Workers |-> << >>]
  /\ callers \in Callers
  /\ raised = FALSE

Operation ==
  \/ \E w \in callers.workers, d \in callers.durations : EnqueueTask(w, d) \/ MaterializeReplica(w, d)
  \/ \E w \in callers.workers : FailWorker(w) \/ RecoverWorker(w)
  \/ \E r \in DOMAIN replicas, l \in DOMAIN Links : StartTransfer(r, l)
  \/ \E r \in DOMAIN replicas : EvictReplica(r) \/ LoseReplica(r)

ResourceNext == Operation \/ RunNext

---------------------------------------------------------------------------
(* Type correctness of the resource records.                               *)
ResourceTypeOK ==
  /\ workers \in [Workers -> {"UP", "DOWN"}]
  /\ \A t \in DOMAIN tasks : tasks[t].status \in {"QUEUED", "RUNNING", "COMPLETED", "FAILED"}
  /\ \A r \in DOMAIN replicas :
       /\ replicas[r].location \in Workers
       /\ replicas[r].status \in {"MATERIALIZING", "AVAILABLE", "EVICTED", "LOST"}
  /\ \A t \in DOMAIN transfers :
       transfers[t].status \in {"SCHEDULED", "RUNNING", "COMPLETED", "FAILED"}

(* A worker never runs more tasks than its capacity, a DOWN worker none,   *)
(* and a task is in the queue, in the active list or finished according to *)
(* its status, whatever order failures, recoveries and completions come    *)
(* in.                                                                     *)
SlotsMatchTasks ==
  ResourceTypeOK /\ \A w \in Workers :
    /\ Len(active[w]) <= WorkerCapacity[w]
    /\ workers[w] = "DOWN" => active[w] = << >>
    /\ ToSet(active[w]) = {t \in DOMAIN tasks : tasks[t].worker = w /\ tasks[t].status = "RUNNING"}
    /\ ToSet(queues[w]) = {t \in DOMAIN tasks : tasks[t].worker = w /\ tasks[t].status = "QUEUED"}
    /\ Len(queues[w]) = Cardinality(ToSet(queues[w]))

(* No task is forgotten: while a worker is up with a free slot and a task  *)
(* waiting, an event that will dispatch it is still to come.               *)
NobodyWaitsInVain ==
  \A w \in Workers :
    workers[w] = "UP" /\ queues[w] # << >> /\ Len(active[w]) < WorkerCapacity[w]
      => \E e \in Pending(sim) : e.kind = "WORKER_TASK_ENQUEUED" /\ e.subject = w

(* A running task will end: its completion is in the heap.                 *)
RunningTasksEnd ==
  \A t \in DOMAIN tasks :
    tasks[t].status = "RUNNING" =>
      \E e \in Pending(sim) : e.kind = "WORKER_TASK_COMPLETED" /\ e.subject = t

(* Together: whatever the order of failures, recoveries and completions,   *)
(* no slot is overbooked, every task that can run will be started, and a   *)
(* running one will end.                                                   *)
TasksAreNotForgotten == SlotsMatchTasks /\ NobodyWaitsInVain /\ RunningTasksEnd

(* What is available really is there: an available replica is on a worker  *)
(* that is up, and a running transfer has its replica at the source and    *)
(* both ends up, through failures, evictions and moves.                    *)
AvailableIsReachable ==
  /\ \A r \in DOMAIN replicas :
       replicas[r].status = "AVAILABLE" => workers[replicas[r].location] = "UP"
  /\ \A t \in DOMAIN transfers : transfers[t].status = "RUNNING" => Sound(t)

(* A failed or completed task or transfer, and a lost replica, stay as     *)
(* they are; an evicted replica is evicted or lost.                        *)
TasksEnded ==
  \A t \in DOMAIN tasks : tasks[t].status \in {"COMPLETED", "FAILED"} => tasks'[t] = tasks[t]
ReplicasEnded ==
  \A r \in DOMAIN replicas :
    /\ replicas[r].status = "LOST" => replicas'[r] = replicas[r]
    /\ replicas[r].status = "EVICTED" => replicas'[r].status \in {"EVICTED", "LOST"}
TransfersEnded ==
  \A t \in DOMAIN transfers : transfers[t].status \in {"COMPLETED", "FAILED"} => transfers'[t] = transfers[t]

(* Completions that come late change nothing: what has ended does not come *)
(* back while the run goes on (a replay starts with a shorter trace).      *)
EndingsAreFinal ==
  [][Len(sim'.trace) < Len(sim.trace) \/ (TasksEnded /\ ReplicasEnded /\ TransfersEnded)]_vars
===========================================================================
