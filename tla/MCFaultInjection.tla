-------------------------- MODULE MCFaultInjection --------------------------
(* Small instances of FaultCampaign for TLC.                               *)
EXTENDS FaultCampaign

(* Worker 2 runs two tasks at a time.                                      *)
Capacities == [w \in Workers |-> w]
OneWay == << [source |-> 1, destination |-> 2, duration |-> 1] >>

Tasks(w, n, failures, classes) ==
  [workers |-> {w}, durations |-> {0}, tasks |-> n, replicas |-> 0, transfers |-> 0,
   failures |-> failures, removals |-> 0, faults |-> 2, classes |-> classes, campaign |-> FALSE]
Moves(failures, removals, classes) ==
  [workers |-> Workers, durations |-> {0}, tasks |-> 0, replicas |-> 1, transfers |-> 1,
   failures |-> failures, removals |-> removals, faults |-> 2, classes |-> classes,
   campaign |-> FALSE]
DeliveryFaults == {"DELIVERY_DELAY", "DELIVERY_DUPLICATE", "DELIVERY_REORDER"}
AllDeliveryFaults == DeliveryFaults \cup {"DELIVERY_DROP"}

(* Campaigns: on a queue of two tasks, with a failure; on a replica that   *)
(* becomes available at time 1, with a loss; on two replicas, where a      *)
(* delivery that is put off leaves a cancelled event before one that is    *)
(* dropped.                                                                *)
TaskCampaign ==
  [Tasks(1, 2, 1, DeliveryFaults \cup {"WORKER_FAILURE"})
     EXCEPT !.durations = {1}, !.campaign = TRUE]
ReplicaCampaign ==
  [workers |-> {1}, durations |-> {1}, tasks |-> 0, replicas |-> 1, transfers |-> 0,
   failures |-> 0, removals |-> 1, faults |-> 2,
   classes |-> AllDeliveryFaults \cup {"REPLICA_LOSS"}, campaign |-> TRUE]
LeftoverCampaign ==
  [ReplicaCampaign EXCEPT !.replicas = 2, !.classes = {"DELIVERY_DELAY", "DELIVERY_DROP"}]

(* Two tasks on a worker whose deliveries are hit by faults, three tasks   *)
(* on one that fails and recovers; a replica that is moved, evicted and    *)
(* lost, with its deliveries hit by faults, drops included, or without;    *)
(* the campaigns.                                                          *)
MCCallers ==
  {Tasks(1, 2, 2, DeliveryFaults \cup {"WORKER_FAILURE"}),
   Tasks(2, 3, 3, {}),
   Moves(1, 0, AllDeliveryFaults \cup {"REPLICA_LOSS"}),
   Moves(0, 1, AllDeliveryFaults \cup {"REPLICA_LOSS"}),
   Moves(2, 1, {}),
   TaskCampaign, ReplicaCampaign, LeftoverCampaign}

(* A replica that is evicted and lost by faults.                           *)
RemovingCallers ==
  {[workers |-> {1}, durations |-> {0}, tasks |-> 0, replicas |-> 1, transfers |-> 0,
    failures |-> 1, removals |-> 2, faults |-> 2,
    classes |-> {"REPLICA_EVICTION", "REPLICA_LOSS"}, campaign |-> FALSE]}
===========================================================================
