---------------------------- MODULE CampaignRuns ----------------------------
(***************************************************************************)
(* What each handler and each fault makes of what can be seen of a         *)
(* scenario, as functions of that (x, of the form of Seen), and the runs   *)
(* of a campaign as the replayer goes through them.  The proof that        *)
(* replays are exact compares a replay with the run it repeats, and that   *)
(* has to be put in terms of values: a state of the one is long gone when  *)
(* the other comes to it.                                                  *)
(***************************************************************************)
EXTENDS FaultCampaign

Scene(s, up, ta, qu, ac, re, tr, ca, ra) ==
  [sim |-> s, workers |-> up, tasks |-> ta, queues |-> qu, active |-> ac,
   replicas |-> re, transfers |-> tr, callers |-> ca, raised |-> ra]

WithSim(x, s) ==
  Scene(s, x.workers, x.tasks, x.queues, x.active, x.replicas, x.transfers, x.callers, x.raised)
WithTasks(x, s, up, ta, qu, ac) ==
  Scene(s, up, ta, qu, ac, x.replicas, x.transfers, x.callers, x.raised)
WithMoves(x, s, re, tr) ==
  Scene(s, x.workers, x.tasks, x.queues, x.active, re, tr, x.callers, x.raised)

(* run and cancel on what is visible of a simulator c.                     *)
Taken(c, e) == [c EXCEPT !.queue = @ \ {e}, !.now = e.time, !.trace = Append(@, e)]
Without(c, ids) == [c EXCEPT !.queue = {e \in @ : e.id \notin ids}]

At(x, time) == WithSim(x, [x.sim EXCEPT !.now = time])

---------------------------------------------------------------------------
(* The handlers, when their event has been popped.                         *)
RunningOf(known, chosen) ==
  [t \in DOMAIN known |->
     IF t \in ToSet(chosen) THEN [known[t] EXCEPT !.status = "RUNNING", !.completion = TaskComplete(t)]
                            ELSE known[t]]

Filled(x, up, w, running, known, ups) ==
  LET chosen == Started(w, up, x.queues[w], running) IN
  WithTasks(x, Scheduled(x.sim, Completions(x.sim, chosen, known)), ups, RunningOf(known, chosen),
            [x.queues EXCEPT ![w] = SubSeq(x.queues[w], Len(chosen) + 1, Len(x.queues[w]))],
            [x.active EXCEPT ![w] = running \o chosen])

AfterTaskEnqueued(x, w) == Filled(x, x.workers[w] = "UP", w, x.active[w], x.tasks, x.workers)

AfterTaskCompleted(x, t) ==
  LET w == x.tasks[t].worker IN
  IF x.tasks[t].status # "RUNNING" THEN x
  ELSE Filled(x, x.workers[w] = "UP", w, RemoveFirst(x.active[w], t),
              [x.tasks EXCEPT ![t].status = "COMPLETED", ![t].completion = NoEvent], x.workers)

AfterWorkerRecovered(x, w) ==
  IF x.workers[w] = "UP" THEN x
  ELSE Filled(x, TRUE, w, x.active[w], x.tasks, [x.workers EXCEPT ![w] = "UP"])

(* Unfinished, Sound, Present, Touching and Failed, of transfers tr and    *)
(* replicas re.                                                            *)
UnfinishedOf(tr, t) == tr[t].status \in {"SCHEDULED", "RUNNING"}
SourceOf(tr, t) == Links[tr[t].link].source
DestinationOf(tr, t) == Links[tr[t].link].destination
SoundIn(x, t) ==
  LET r == x.replicas[x.transfers[t].replica] IN
  /\ r.status = "AVAILABLE" /\ r.location = SourceOf(x.transfers, t)
  /\ x.workers[SourceOf(x.transfers, t)] = "UP" /\ x.workers[DestinationOf(x.transfers, t)] = "UP"
PresentOf(re, w) ==
  {r \in DOMAIN re : re[r].location = w /\ re[r].status \notin {"EVICTED", "LOST"}}
TouchingOf(tr, w) ==
  {t \in DOMAIN tr : UnfinishedOf(tr, t) /\ w \in {SourceOf(tr, t), DestinationOf(tr, t)}}
FailedOf(tr, ids) ==
  [t \in DOMAIN tr |->
     IF t \in ids THEN [tr[t] EXCEPT !.status = "FAILED", !.completion = NoEvent] ELSE tr[t]]

(* What ends with a worker: its running tasks and the replicas on it.      *)
FailedTasksOf(ta, running) ==
  [t \in DOMAIN ta |->
     IF t \in ToSet(running) THEN [ta[t] EXCEPT !.status = "FAILED", !.completion = NoEvent] ELSE ta[t]]
LostOf(re, ids) ==
  [r \in DOMAIN re |->
     IF r \in ids THEN [re[r] EXCEPT !.status = "LOST", !.completion = NoEvent] ELSE re[r]]
CompletionsOf(known, ids) == {known[i].completion : i \in ids}

(* An event without delay for each element of a list.                      *)
AllAtOnce(now, kind, list) == [i \in DOMAIN list |-> Order(kind, now, NoId, list[i])]

AfterWorkerFailed(x, w) ==
  LET lost == PresentOf(x.replicas, w)
      broken == TouchingOf(x.transfers, w)
      running == x.active[w]
      ends == CompletionsOf(x.tasks, ToSet(running)) \cup CompletionsOf(x.replicas, lost)
                \cup CompletionsOf(x.transfers, broken)
      orders == AllAtOnce(x.sim.now, "WORKER_TASK_FAILED", running)
                  \o AllAtOnce(x.sim.now, "STATE_LOST", Ascending(lost))
                  \o AllAtOnce(x.sim.now, "STATE_TRANSFER_FAILED", Ascending(broken))
  IN IF x.workers[w] = "DOWN" THEN x
     ELSE Scene(Scheduled(Without(x.sim, ends), orders),
                [x.workers EXCEPT ![w] = "DOWN"], FailedTasksOf(x.tasks, running), x.queues,
                [x.active EXCEPT ![w] = << >>], LostOf(x.replicas, lost), FailedOf(x.transfers, broken),
                x.callers, x.raised)

(* One more event.                                                         *)
Adding(s, order) == Scheduled(s, <<order>>)
Now(x, kind, subject) == AtOnce(x.sim, kind, subject)

AfterLost(x, r) ==
  WithMoves(x, Adding(x.sim, Now(x, "STATE_LOST", r)),
            [x.replicas EXCEPT ![r].status = "LOST", ![r].completion = NoEvent], x.transfers)

AfterMaterializationStarted(x, r) ==
  LET completion == Order("STATE_MATERIALIZED", x.sim.now + x.replicas[r].duration,
                          MaterializeComplete(r), r)
  IN IF x.replicas[r].status # "MATERIALIZING" THEN x
     ELSE IF x.workers[x.replicas[r].location] = "DOWN" THEN AfterLost(x, r)
     ELSE IF Schedulable(x.sim, completion)
       THEN WithMoves(x, Adding(x.sim, completion),
                      [x.replicas EXCEPT ![r].completion = MaterializeComplete(r)], x.transfers)
       ELSE Scene(x.sim, x.workers, x.tasks, x.queues, x.active, x.replicas, x.transfers, x.callers, TRUE)

AfterStateMaterialized(x, r) ==
  IF x.replicas[r].status # "MATERIALIZING" THEN x
  ELSE IF x.workers[x.replicas[r].location] = "DOWN" THEN AfterLost(x, r)
  ELSE WithMoves(x, x.sim, [x.replicas EXCEPT ![r].status = "AVAILABLE", ![r].completion = NoEvent],
                 x.transfers)

AfterTransferFailed(x, t) ==
  WithMoves(x, Adding(x.sim, Now(x, "STATE_TRANSFER_FAILED", t)), x.replicas, FailedOf(x.transfers, {t}))

AfterTransferStarted(x, t) ==
  LET completion == Order("STATE_TRANSFER_COMPLETED", x.sim.now + Links[x.transfers[t].link].duration,
                          TransferComplete(t), t)
  IN IF x.transfers[t].status # "SCHEDULED" THEN x
     ELSE IF ~SoundIn(x, t) THEN AfterTransferFailed(x, t)
     ELSE WithMoves(x, Adding(x.sim, completion), x.replicas,
                    [x.transfers EXCEPT ![t].status = "RUNNING", ![t].completion = TransferComplete(t)])

AfterTransferCompleted(x, t) ==
  LET r == x.transfers[t].replica IN
  IF x.transfers[t].status # "RUNNING" THEN x
  ELSE IF ~SoundIn(x, t) THEN AfterTransferFailed(x, t)
  ELSE WithMoves(x, Adding(x.sim, Now(x, "STATE_MOVED", r)),
                 [x.replicas EXCEPT ![r].location = DestinationOf(x.transfers, t)],
                 [x.transfers EXCEPT ![t].status = "COMPLETED", ![t].completion = NoEvent])

MovingOf(tr, r) == {t \in DOMAIN tr : tr[t].replica = r /\ UnfinishedOf(tr, t)}

AfterStateGone(x, r, status) ==
  LET moving == MovingOf(x.transfers, r)
      orders == AllAtOnce(x.sim.now, "STATE_TRANSFER_FAILED", Ascending(moving))
      ends == CompletionsOf(x.transfers, moving) \cup {x.replicas[r].completion}
  IN IF x.replicas[r].status = "LOST" THEN x
     ELSE WithMoves(x, Without(Scheduled(x.sim, orders), ends),
                    [x.replicas EXCEPT ![r].status = status, ![r].completion = NoEvent],
                    FailedOf(x.transfers, moving))

Handled(x, e) ==
  CASE e.kind = "WORKER_TASK_ENQUEUED" -> AfterTaskEnqueued(x, e.subject)
    [] e.kind = "WORKER_TASK_COMPLETED" -> AfterTaskCompleted(x, e.subject)
    [] e.kind = "WORKER_FAILED" -> AfterWorkerFailed(x, e.subject)
    [] e.kind = "WORKER_RECOVERED" -> AfterWorkerRecovered(x, e.subject)
    [] e.kind = "STATE_MATERIALIZATION_STARTED" -> AfterMaterializationStarted(x, e.subject)
    [] e.kind = "STATE_MATERIALIZED" -> AfterStateMaterialized(x, e.subject)
    [] e.kind = "STATE_TRANSFER_STARTED" -> AfterTransferStarted(x, e.subject)
    [] e.kind = "STATE_TRANSFER_COMPLETED" -> AfterTransferCompleted(x, e.subject)
    [] e.kind = "STATE_EVICTED" -> AfterStateGone(x, e.subject, "EVICTED")
    [] e.kind = "STATE_LOST" -> AfterStateGone(x, e.subject, "LOST")
    [] OTHER -> x

(* The event e is executed.                                                *)
Ran(x, e) == Handled(WithSim(x, Taken(x.sim, e)), e)

---------------------------------------------------------------------------
(* The faults: r is the record of the fault that comes after n others in   *)
(* the situation x, and y what it leaves behind.                           *)
CopyId(e, n) == <<"fault", n + 1, e.id>>
Again(e, n, r) == Order(e.kind, r.redelivered, CopyId(e, n), e.subject)

PutOffAfter(x, e, n, r) == WithSim(x, Without(Adding(x.sim, Again(e, n, r)), {e.id}))
CopiedAfter(x, e, n, r) == WithSim(x, Adding(x.sim, Again(e, n, r)))
DroppedAfter(x, e) == WithSim(x, Without(x.sim, {e.id}))

Records(x, class, target, original, redelivered, produced, cancelled, anchor) ==
  [class |-> class, target |-> target, injected |-> x.sim.now, duration |-> redelivered - original,
   original |-> original, redelivered |-> redelivered, produced |-> produced, cancelled |-> cancelled,
   anchor |-> anchor]

DeliveryHit(x, n, r, y) ==
  /\ r.redelivered \in Nat
  /\ \E e \in x.sim.queue :
       \/ /\ r = Records(x, "DELIVERY_DELAY", e.id, e.time, r.redelivered, {CopyId(e, n)}, {e.id}, NoAnchor)
          /\ y = PutOffAfter(x, e, n, r)
       \/ /\ r = Records(x, "DELIVERY_DROP", e.id, e.time, e.time, {}, {e.id}, NoAnchor)
          /\ y = DroppedAfter(x, e)
       \/ /\ r = Records(x, "DELIVERY_DUPLICATE", e.id, e.time, r.redelivered, {CopyId(e, n)}, {}, NoAnchor)
          /\ y = CopiedAfter(x, e, n, r)
       \/ \E anchor \in x.sim.queue :
            /\ r = Records(x, "DELIVERY_REORDER", e.id, e.time, r.redelivered, {CopyId(e, n)}, {e.id},
                           [id |-> anchor.id, time |-> anchor.time])
            /\ r.redelivered >= anchor.time /\ r.redelivered >= e.time
            /\ y = PutOffAfter(x, e, n, r)

AskedFor(x, call, kind, subject) ==
  Scene(Adding(x.sim, Now(x, kind, subject)), x.workers, x.tasks, x.queues, x.active, x.replicas,
        x.transfers, [x.callers EXCEPT ![call] = @ - 1], x.raised)

Asks(x, r, class) ==
  r = Records(x, class, r.target, x.sim.now, x.sim.now, {<<"event", x.sim.next>>}, {}, NoAnchor)

ResourceHit(x, r, y) ==
  \/ /\ Asks(x, r, "WORKER_FAILURE") /\ r.target \in Workers
     /\ y = AskedFor(x, "failures", "WORKER_FAILED", r.target)
  \/ /\ Asks(x, r, "REPLICA_LOSS") /\ r.target \in DOMAIN x.replicas
     /\ y = AskedFor(x, "removals", "STATE_LOST", r.target)
  \/ /\ Asks(x, r, "REPLICA_EVICTION") /\ r.target \in DOMAIN x.replicas
     /\ y = AskedFor(x, "removals", "STATE_EVICTED", r.target)

Hits(x, n, r, y) == DeliveryHit(x, n, r, y) \/ ResourceHit(x, r, y)

---------------------------------------------------------------------------
(* The path of a run as the replayer goes it, when R are its records: a    *)
(* point of the path is what is seen and the number of faults so far.  An  *)
(* event before the next fault is one that run(until) executes; the next   *)
(* fault comes when that has executed all events, or had none to execute.  *)
Point(x, n) == [seen |-> x, faults |-> n]

ReachedIn(R, n) == IF n = 0 THEN 0 ELSE R[n].injected

EventStep(a, b, R) ==
  /\ b.faults = a.faults
  /\ \E e \in a.seen.sim.queue :
       /\ IsEarliest(a.seen.sim, e)
       /\ b.seen = Ran(a.seen, e) /\ e.time <= b.seen.sim.now
  /\ a.faults < Len(R) =>
       ReachedIn(R, a.faults) < R[a.faults + 1].injected /\ b.seen.sim.now <= R[a.faults + 1].injected

FaultStepIn(a, b, R) ==
  LET r == R[a.faults + 1] IN
  /\ a.faults < Len(R) /\ b.faults = a.faults + 1
  /\ Hits(At(a.seen, r.injected), a.faults, r, b.seen)
  /\ \/ ReachedIn(R, a.faults) = r.injected
     \/ \A e \in a.seen.sim.queue : e.time > r.injected

Path(p, R) ==
  /\ Len(p) \in Nat \ {0} /\ DOMAIN p = 1..Len(p)
  /\ \A i \in DOMAIN p : p[i].faults \in 0..Len(R)
  /\ \A i \in 1..Len(p) - 1 : EventStep(p[i], p[i + 1], R) \/ FaultStepIn(p[i], p[i + 1], R)
===========================================================================
