--------------------------- MODULE FaultInjection ---------------------------
(***************************************************************************)
(* Fault injection into the simulator (simulator/faults.py, and the        *)
(* physical part of simulator/fault_linkage.py): pending deliveries are    *)
(* delayed, dropped, duplicated or reordered, workers fail, replicas are   *)
(* lost or evicted, and every fault leaves a record of the events it       *)
(* produced and cancelled.  assert_ground_truth judges those records       *)
(* against what the simulator did since.                                   *)
(*                                                                         *)
(* Faults are numbered in the order of their records; fault ids of the     *)
(* caller's own choice are left out, as is the draw of                     *)
(* probabilistic_delivery_fault, which picks one of the first three        *)
(* faults, or none.                                                        *)
(***************************************************************************)
EXTENDS ResourceModel

CONSTANTS
  Delays   \* delays and gaps

FaultClass ==
  {"DELIVERY_DELAY", "DELIVERY_DROP", "DELIVERY_DUPLICATE", "DELIVERY_REORDER",
   "WORKER_FAILURE", "REPLICA_LOSS", "REPLICA_EVICTION"}

(* The callers inject so many faults, of the given classes.                *)
ASSUME FaultAssumption ==
  /\ \A c \in Callers : /\ {"faults", "classes"} \subseteq DOMAIN c
                         /\ c.faults \in Nat /\ c.classes \subseteq FaultClass
  /\ Delays \subseteq Nat

VARIABLE records  \* _records

faultVars == <<vars, records>>

NoAnchor == [id |-> NoEvent, time |-> 0]

(* The event e is delivered at a time of the fault's choice, if it is; the *)
(* times of a fault of a worker or a replica are those of its event.       *)
FaultRecord(class, e, at, produced, cancelled, anchor) ==
  [class |-> class, target |-> e.id, injected |-> sim.now, duration |-> at - e.time,
   original |-> e.time, redelivered |-> at, produced |-> produced, cancelled |-> cancelled,
   anchor |-> anchor]

(* The id of the replacement or the copy of a delivery.                    *)
FaultEventId(e) == <<"fault", Len(records) + 1, e.id>>

(* The same delivery at another time.                                      *)
Redelivery(e, at) == Order(e.kind, at, FaultEventId(e), e.subject)

(* _append                                                                 *)
Recorded(record) ==
  /\ Len(records) < callers.faults
  /\ record.class \in callers.classes
  /\ records' = Append(records, record)

OnlyDeliveries == UNCHANGED <<workers, taskVars, replicas, transfers, callers, raised>>

---------------------------------------------------------------------------

(* Schedule the replacement, then cancel the original.                     *)
PutOff(e, at) == Cancelled(Scheduled(sim, <<Redelivery(e, at)>>), {e.id})

DelayDelivery(e, delay) ==
  /\ Recorded(FaultRecord("DELIVERY_DELAY", e, e.time + delay, {FaultEventId(e)}, {e.id}, NoAnchor))
  /\ sim' = PutOff(e, e.time + delay)
  /\ OnlyDeliveries

DropDelivery(e) ==
  /\ Recorded(FaultRecord("DELIVERY_DROP", e, e.time, {}, {e.id}, NoAnchor))
  /\ sim' = Cancelled(sim, {e.id})
  /\ OnlyDeliveries

(* None of the events of the resources is an OBSERVATION_CREATED, whose    *)
(* copies have a kind of their own.                                        *)
DuplicateDelivery(e, delay) ==
  /\ Recorded(FaultRecord("DELIVERY_DUPLICATE", e, e.time + delay, {FaultEventId(e)}, {}, NoAnchor))
  /\ sim' = Scheduled(sim, <<Redelivery(e, e.time + delay)>>)
  /\ OnlyDeliveries

(* Mutant: the gap is counted from the delivery itself.                    *)
OwnTime(e, anchor, gap) == e.time + gap

TimeAfter(e, anchor, gap) ==
  IF anchor.time + gap > e.time THEN anchor.time + gap ELSE e.time

ReorderAfter(e, anchor, gap) ==
  /\ e.id # anchor.id
  /\ Recorded(FaultRecord("DELIVERY_REORDER", e, TimeAfter(e, anchor, gap),
                          {FaultEventId(e)}, {e.id}, [id |-> anchor.id, time |-> anchor.time]))
  /\ sim' = PutOff(e, TimeAfter(e, anchor, gap))
  /\ OnlyDeliveries

(* fail_worker, lose_replica and evict_replica pass the fault on to the    *)
(* resources and record the event that was scheduled.                      *)
Delegated(class, target) ==
  Recorded(FaultRecord(class, [id |-> target, time |-> sim.now], sim.now,
                       {<<"event", sim.next>>}, {}, NoAnchor))

InjectWorkerFailure(w) == Delegated("WORKER_FAILURE", w) /\ FailWorker(w)
InjectReplicaLoss(r) == Delegated("REPLICA_LOSS", r) /\ LoseReplica(r)
InjectReplicaEviction(r) == Delegated("REPLICA_EVICTION", r) /\ EvictReplica(r)

---------------------------------------------------------------------------
FaultInit == ResourceInit /\ records = << >>

Inject ==
  \/ \E e \in Pending(sim) :
       \/ DropDelivery(e)
       \/ \E d \in Delays : DelayDelivery(e, d) \/ DuplicateDelivery(e, d)
       \/ \E anchor \in Pending(sim), d \in Delays : ReorderAfter(e, anchor, d)
  \/ \E w \in callers.workers : InjectWorkerFailure(w)
  \/ \E r \in DOMAIN replicas : InjectReplicaLoss(r) \/ InjectReplicaEviction(r)

FaultNext ==
  \/ Inject
  \/ ResourceNext /\ UNCHANGED records

FaultSpec == FaultInit /\ [][FaultNext]_faultVars

---------------------------------------------------------------------------
Executed(id) == \E i \in DOMAIN sim.trace : sim.trace[i].id = id
Live(id) == id \in Ids(Pending(sim))
CancelledByFault == UNION {records[i].cancelled : i \in DOMAIN records}
ExecutedAt(id) == CHOOSE i \in DOMAIN sim.trace : sim.trace[i].id = id

(* Ground truth of deliveries (assert_ground_truth): what a fault has      *)
(* cancelled is neither executed nor pending, what it has produced is      *)
(* executed, pending or cancelled by another fault, also when faults hit   *)
(* the deliveries of other faults, and a reordered delivery is executed    *)
(* after its anchor.                                                       *)
DeliveryGroundTruth ==
  \A i \in DOMAIN records :
    LET record == records[i] IN
    /\ \A id \in record.cancelled : ~Executed(id) /\ ~Live(id)
    /\ \A id \in record.produced : Executed(id) \/ Live(id) \/ id \in CancelledByFault
    /\ record.class = "DELIVERY_REORDER" =>
         \A id \in record.produced :
           Executed(record.anchor.id) /\ Executed(id) => ExecutedAt(record.anchor.id) < ExecutedAt(id)

(* Ground truth of worker failures (assert_ground_truth): once the failure *)
(* is executed the worker is DOWN unless a recovery was executed after it, *)
(* however failures and recoveries were delayed, copied or reordered.      *)
WorkerGroundTruth ==
  \A i \in DOMAIN records :
    records[i].class = "WORKER_FAILURE" =>
      \A j \in DOMAIN sim.trace :
        sim.trace[j].id \in records[i].produced /\ workers[records[i].target] # "DOWN" =>
          \E k \in j + 1 .. Len(sim.trace) :
            sim.trace[k].kind = "WORKER_RECOVERED" /\ sim.trace[k].subject = records[i].target

HasEnded(i, status) ==
  (\E id \in records[i].produced : Executed(id)) => replicas[records[i].target].status = status

(* Ground truth of losses (assert_ground_truth): once the loss is executed *)
(* the replica is LOST, and no late completion revives it.                 *)
LossGroundTruth ==
  \A i \in DOMAIN records : records[i].class = "REPLICA_LOSS" => HasEnded(i, "LOST")

(* FaultTrustOracle, _transformation_violations: no event is produced or   *)
(* cancelled by two faults, and none is cancelled before it is produced.   *)
TransformationsAreSound ==
  \A i, j \in DOMAIN records :
    /\ i # j => records[i].produced \cap records[j].produced = {}
    /\ i # j => records[i].cancelled \cap records[j].cancelled = {}
    /\ records[i].produced \cap records[j].cancelled # {} => i < j

(* _record_shape_violations: a replacement comes neither before its target *)
(* nor before its anchor.                                                  *)
ShapeIsSound(record) ==
  /\ record.duration >= 0
  /\ record.class = "DELIVERY_REORDER" => record.redelivered >= record.anchor.time

(* _runtime_violations: a produced event has the time, the kind and the    *)
(* target its record says.                                                 *)
ProducedAsRecorded(record) ==
  \A e \in Pending(sim) \cup ToSet(sim.trace) :
    e.id \in record.produced =>
      /\ e.time = record.redelivered
      /\ record.class = "WORKER_FAILURE" => e.kind = "WORKER_FAILED" /\ e.subject = record.target
      /\ record.class = "REPLICA_LOSS" => e.kind = "STATE_LOST" /\ e.subject = record.target
      /\ record.class = "REPLICA_EVICTION" => e.kind = "STATE_EVICTED" /\ e.subject = record.target

(* inspect: the records are in the order of their injection.               *)
TrustOracle ==
  /\ TransformationsAreSound
  /\ \A i \in DOMAIN records :
       /\ records[i].injected <= sim.now
       /\ i > 1 => records[i - 1].injected <= records[i].injected
       /\ ShapeIsSound(records[i]) /\ ProducedAsRecorded(records[i])

(* What assert_ground_truth and the trust oracle check, evictions aside,   *)
(* whatever is injected into the deliveries of earlier faults.             *)
GroundTruth == DeliveryGroundTruth /\ WorkerGroundTruth /\ LossGroundTruth /\ TrustOracle

(* Ground truth of evictions (assert_ground_truth): once the eviction is   *)
(* executed the replica is EVICTED.                                        *)
EvictionGroundTruth ==
  \A i \in DOMAIN records : records[i].class = "REPLICA_EVICTION" => HasEnded(i, "EVICTED")

(* "safe outcomes: IDEMPOTENT, IGNORE_DUPLICATE" of a duplicated delivery  *)
(* (faults.py:70) hold for all deliveries but one: a handler raises out of *)
(* run() only when a start of a materialization has been copied, and both  *)
(* the start and the copy, wherever other faults moved it, have arrived.   *)
RaisesOnlyOnCopies ==
  raised =>
    /\ \E i \in DOMAIN records : records[i].class = "DELIVERY_DUPLICATE"
    /\ \E j, k \in DOMAIN sim.trace :
         /\ j < k
         /\ sim.trace[j].subject = sim.trace[k].subject
         /\ {sim.trace[j].kind, sim.trace[k].kind} = {"STATE_MATERIALIZATION_STARTED"}
===========================================================================
