-------------------------- MODULE FaultInvariants --------------------------
(***************************************************************************)
(* What the proofs about faults and campaigns rest on: the inductive       *)
(* invariant of the resources under faults, in named parts, and of the     *)
(* records of the faults.                                                  *)
(***************************************************************************)
EXTENDS FaultInjection

(* The kinds of events the resources schedule.                             *)
Kinds ==
  {"WORKER_TASK_ENQUEUED", "WORKER_TASK_COMPLETED", "WORKER_TASK_FAILED", "WORKER_FAILED",
   "WORKER_RECOVERED", "STATE_MATERIALIZATION_STARTED", "STATE_MATERIALIZED", "STATE_EVICTED",
   "STATE_LOST", "STATE_MOVED", "STATE_TRANSFER_STARTED", "STATE_TRANSFER_COMPLETED",
   "STATE_TRANSFER_FAILED"}

(* The events there can be when the ids in known are taken.                *)
Events(known) ==
  [time : Nat, sequence : Nat, id : known, kind : Kinds, subject : Workers \cup Nat]

(* The kernel: the heap lies ahead and each event has its id to itself;    *)
(* marks belong to events in the heap; the trace is in order, lies behind, *)
(* and came before all that is still in the heap.                          *)
KernelTypes(s) ==
  /\ s = [now |-> s.now, queue |-> s.queue, cancelled |-> s.cancelled, known |-> s.known,
          next |-> s.next, trace |-> s.trace]
  /\ s.now \in Nat /\ s.next \in Nat
  /\ s.queue \subseteq Events(s.known)
  /\ s.trace \in Seq(Events(s.known))

HeapInv(s) ==
  /\ \A e \in s.queue : e.time >= s.now /\ e.sequence < s.next
  /\ \A e, f \in s.queue : e.id = f.id => e = f
  /\ s.cancelled \subseteq Ids(s.queue)

TraceInv(s) ==
  /\ \A i \in DOMAIN s.trace :
       /\ s.trace[i].time <= s.now /\ s.trace[i].sequence < s.next
       /\ \A e \in s.queue : Before(s.trace[i], e) /\ s.trace[i].id # e.id
  /\ \A i, j \in DOMAIN s.trace : i < j => Before(s.trace[i], s.trace[j])
  /\ \A i, j \in DOMAIN s.trace : s.trace[i].id = s.trace[j].id => i = j

KernelInv(s) == KernelTypes(s) /\ HeapInv(s) /\ TraceInv(s)

(* What has been executed or is to be.                                     *)
History(s) == Pending(s) \cup ToSet(s.trace)

---------------------------------------------------------------------------
(* The records of the resources, with the ids of their completions.        *)
TaskRecords ==
  [worker : Workers, duration : Nat, status : {"QUEUED", "RUNNING", "COMPLETED", "FAILED"},
   completion : {NoEvent} \cup ({"task-complete"} \X Nat)]
ReplicaRecords ==
  [location : Workers, duration : Nat, status : {"MATERIALIZING", "AVAILABLE", "EVICTED", "LOST"},
   completion : {NoEvent} \cup ({"materialize-complete"} \X Nat)]
TransferRecords(known) ==
  [replica : known, link : DOMAIN Links, status : {"SCHEDULED", "RUNNING", "COMPLETED", "FAILED"},
   completion : {NoEvent} \cup ({"transfer-complete"} \X Nat)]

WorkerTypes == workers \in [Workers -> {"UP", "DOWN"}]

TaskTypes ==
  /\ tasks \in Seq(TaskRecords)
  /\ queues \in [Workers -> Seq(DOMAIN tasks)]
  /\ active \in [Workers -> Seq(DOMAIN tasks)]
  /\ \A t \in DOMAIN tasks : tasks[t].completion \in {NoEvent, TaskComplete(t)}

MoveTypes ==
  /\ replicas \in Seq(ReplicaRecords)
  /\ transfers \in Seq(TransferRecords(DOMAIN replicas))

CallersTyped ==
  /\ {"workers", "durations", "faults", "classes"} \cup Calls \subseteq DOMAIN callers
  /\ callers.workers \subseteq Workers /\ callers.durations \subseteq Nat
  /\ callers.classes \subseteq FaultClass
  /\ callers.tasks \in Nat

RecordsListed == records \in Seq(ToSet(records))

(* Every id that is taken says what it was taken for, so that none is      *)
(* taken twice.                                                            *)
MaterializationStarted(r) ==
  \E j \in DOMAIN sim.trace :
    sim.trace[j].kind = "STATE_MATERIALIZATION_STARTED" /\ sim.trace[j].subject = r

IdUsed(id) ==
  /\ id # NoEvent
  /\ id[1] = "event" => id[2] \in Nat /\ id[2] < sim.next
  /\ id[1] = "task-enqueued" => id[2] \in DOMAIN tasks
  /\ id[1] = "task-complete" => id[2] \in DOMAIN tasks /\ tasks[id[2]].status # "QUEUED"
  /\ id[1] = "materialize-start" => id[2] \in DOMAIN replicas
  /\ id[1] = "materialize-complete" => MaterializationStarted(id[2])
  /\ id[1] = "transfer-start" => id[2] \in DOMAIN transfers
  /\ id[1] = "transfer-complete" => id[2] \in DOMAIN transfers /\ transfers[id[2]].status # "SCHEDULED"
  /\ id[1] = "fault" => id[2] \in DOMAIN records

IdsUsed == \A id \in sim.known : IdUsed(id)

(* The payload of an event names a resource that exists.                   *)
SubjectExists(e) ==
  /\ e.kind \in {"WORKER_TASK_ENQUEUED", "WORKER_FAILED", "WORKER_RECOVERED"} => e.subject \in Workers
  /\ e.kind = "WORKER_TASK_COMPLETED" => e.subject \in DOMAIN tasks
  /\ e.kind \in {"STATE_MATERIALIZATION_STARTED", "STATE_MATERIALIZED", "STATE_EVICTED", "STATE_LOST"} =>
       e.subject \in DOMAIN replicas
  /\ e.kind \in {"STATE_TRANSFER_STARTED", "STATE_TRANSFER_COMPLETED"} => e.subject \in DOMAIN transfers

SubjectsExist == \A e \in History(sim) : SubjectExists(e)

(* The ids that the handlers cancel are those of completions.              *)
Tells(e) ==
  /\ e.id[1] = "task-complete" => e.kind = "WORKER_TASK_COMPLETED" /\ e.id = TaskComplete(e.subject)
  /\ e.id[1] \in {"materialize-complete", "transfer-complete"} =>
       e.kind \notin {"WORKER_TASK_ENQUEUED", "WORKER_TASK_COMPLETED"}

CompletionsTell == \A e \in Pending(sim) : Tells(e)

EventsInv == KernelInv(sim) /\ IdsUsed /\ SubjectsExist /\ CompletionsTell

---------------------------------------------------------------------------
(* The lists of a worker name each task once, and those its status says.   *)
Once(q) == \A i, j \in DOMAIN q : q[i] = q[j] => i = j
Lists(q, known, w, status) ==
  /\ Once(q)
  /\ \A t \in DOMAIN known : t \in ToSet(q) <=> known[t].worker = w /\ known[t].status = status

Slots ==
  \A w \in Workers :
    /\ Len(active[w]) <= WorkerCapacity[w]
    /\ workers[w] = "DOWN" => active[w] = << >>
    /\ Lists(active[w], tasks, w, "RUNNING")
    /\ Lists(queues[w], tasks, w, "QUEUED")

(* A replica is moved by one transfer at a time.                           *)
OneTransfer ==
  \A t, u \in DOMAIN transfers :
    Unfinished(t) /\ Unfinished(u) /\ transfers[t].replica = transfers[u].replica => t = u

TaskSide == TaskTypes /\ Slots
MoveSide == MoveTypes /\ OneTransfer /\ AvailableIsReachable

(* The callers that use tasks drop no delivery.  (A dropped delivery of an *)
(* enqueued task or of a completion is a task that waits in vain, which is *)
(* what the fault is for.)                                                 *)
TasksAreDelivered == \A c \in Callers : c.tasks > 0 => "DELIVERY_DROP" \notin c.classes

DropsNoTask ==
  TasksAreDelivered /\ (DOMAIN tasks # {} \/ callers.tasks > 0) => "DELIVERY_DROP" \notin callers.classes

Waiting == TasksAreDelivered => NobodyWaitsInVain /\ RunningTasksEnd

(* A worker is down unless it has recovered since its last failure, and    *)
(* what has been lost is LOST.                                             *)
FailuresLast ==
  \A j \in DOMAIN sim.trace :
    sim.trace[j].kind = "WORKER_FAILED" /\ workers[sim.trace[j].subject] # "DOWN" =>
      \E k \in j + 1 .. Len(sim.trace) :
        sim.trace[k].kind = "WORKER_RECOVERED" /\ sim.trace[k].subject = sim.trace[j].subject

LossesLast ==
  \A j \in DOMAIN sim.trace :
    sim.trace[j].kind = "STATE_LOST" => replicas[sim.trace[j].subject].status = "LOST"

(* Without copies a materialization is started once.                       *)
Copied == \E i \in DOMAIN records : records[i].class = "DELIVERY_DUPLICATE"
Starts(e, r) == e.kind = "STATE_MATERIALIZATION_STARTED" /\ e.subject = r
StartedOnce ==
  ~Copied => \A e, f \in History(sim) : \A r \in DOMAIN replicas : Starts(e, r) /\ Starts(f, r) => e = f

---------------------------------------------------------------------------
(* The records of the faults: ids and times, and what a record says of the *)
(* history of s when the ids in undone have been cancelled by faults.      *)
RecordTyped(s, record) ==
  /\ record.class \in FaultClass
  /\ record.injected \in Nat /\ record.injected <= s.now
  /\ record.duration \in Nat /\ record.redelivered \in Nat /\ record.anchor.time \in Nat
  /\ record.produced \subseteq s.known /\ record.cancelled \subseteq s.known
  /\ \A id \in record.produced : id[1] \in {"event", "fault"}
  /\ record.class = "DELIVERY_REORDER" =>
       record.anchor.id \in s.known /\ record.redelivered >= record.anchor.time

AsRecorded(record, e) ==
  /\ e.time = record.redelivered
  /\ record.class = "WORKER_FAILURE" => e.kind = "WORKER_FAILED" /\ e.subject = record.target
  /\ record.class = "REPLICA_LOSS" => e.kind = "STATE_LOST" /\ e.subject = record.target
  /\ record.class = "REPLICA_EVICTION" => e.kind = "STATE_EVICTED" /\ e.subject = record.target

RecordTrue(s, undone, record) ==
  /\ \A id \in record.cancelled : id \notin Ids(History(s))
  /\ \A id \in record.produced : id \in Ids(History(s)) \cup undone
  /\ \A e \in History(s) : e.id \in record.produced => AsRecorded(record, e)
  /\ record.class = "DELIVERY_REORDER" =>
       \A e, a \in History(s) : e.id \in record.produced /\ a.id = record.anchor.id => Before(a, e)

RecordsInv ==
  /\ \A i \in DOMAIN records :
       /\ RecordTyped(sim, records[i]) /\ RecordTrue(sim, CancelledByFault, records[i])
       /\ i > 1 => records[i - 1].injected <= records[i].injected
  /\ TransformationsAreSound

ResourceInv ==
  /\ EventsInv /\ WorkerTypes /\ CallersTyped /\ RecordsListed
  /\ TaskSide /\ MoveSide /\ DropsNoTask /\ Waiting

FaultInv == ResourceInv /\ FailuresLast /\ LossesLast /\ StartedOnce /\ RaisesOnlyOnCopies /\ RecordsInv
===========================================================================
