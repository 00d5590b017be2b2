---------------------------- MODULE FaultCampaign ----------------------------
(***************************************************************************)
(* Fault campaigns (simulator/fault_campaign.py): a scenario is prepared,  *)
(* faults are injected while it runs, and what was injected becomes the    *)
(* schedule of a manifest, which FaultScheduleReplayer applies to a        *)
(* scenario prepared in the same way, for another policy to be measured    *)
(* under the same faults.                                                  *)
(*                                                                         *)
(* A caller with a campaign first prepares, then runs and injects.  When   *)
(* nothing is left to run the prepared state is restored and the schedule  *)
(* replayed.  Manifests also carry fingerprints, the decisions of the      *)
(* random draws and the ids of the scenario and the commit: data here.     *)
(***************************************************************************)
EXTENDS FaultInjection

CONSTANTS
  Horizons  \* times at which a campaign stops to inject

ASSUME CampaignAssumption ==
  Horizons \subseteq Nat /\ \A c \in Callers : "campaign" \in DOMAIN c /\ c.campaign \in BOOLEAN

VARIABLE campaign
  \* phase, the prepared state, the schedule still to be replayed, the original
  \* run, and whether its injections kept the pace of a replay; the length of the
  \* trace at the last injection, and the time to which a replay has run

campaignVars == <<faultVars, campaign>>

Scenario ==
  [sim |-> sim, workers |-> workers, tasks |-> tasks, queues |-> queues, active |-> active,
   replicas |-> replicas, transfers |-> transfers, callers |-> callers, raised |-> raised]

Restored(scenario) ==
  /\ sim' = scenario.sim /\ workers' = scenario.workers
  /\ tasks' = scenario.tasks /\ queues' = scenario.queues /\ active' = scenario.active
  /\ replicas' = scenario.replicas /\ transfers' = scenario.transfers
  /\ callers' = scenario.callers /\ raised' = scenario.raised

(* What can be told of a simulator: not which of the events that have been *)
(* cancelled are still to be popped, since horizons pop some of them.      *)
Visible(s) == [s EXCEPT !.queue = Pending(s), !.cancelled = {}]

(* What a run leaves behind.                                               *)
Seen == [Scenario EXCEPT !.sim = Visible(@)]
Outcome == [scenario |-> Seen, records |-> records]

NoCampaign ==
  [phase |-> "prepare", prepared |-> << >>, schedule |-> << >>, original |-> << >>,
   paced |-> TRUE, ran |-> 0, reached |-> 0]

(* Mutant: the gap of a reordered delivery is taken from its own time.     *)
EntryOwnGap(record) ==
  [class |-> record.class, target |-> record.target, at |-> record.injected,
   duration |-> record.duration, time |-> record.original, anchor |-> record.anchor,
   gap |-> record.duration]

(* FaultReplayEntry.from_record: what has to be done again, and when.      *)
Entry(record) ==
  [class |-> record.class, target |-> record.target, at |-> record.injected,
   duration |-> record.duration, time |-> record.original, anchor |-> record.anchor,
   gap |-> IF record.redelivered > record.anchor.time
             THEN record.redelivered - record.anchor.time ELSE 0]

(* from_injector.                                                          *)
Schedule == [i \in DOMAIN records |-> Entry(records[i])]

---------------------------------------------------------------------------
(* The original run.                                                       *)
Prepare ==
  /\ campaign.phase = "prepare"
  /\ Operation
  /\ UNCHANGED <<records, campaign>>

Prepared ==
  /\ campaign.phase = "prepare"
  /\ Pending(sim) # {}
  /\ campaign' = [campaign EXCEPT !.phase = "inject", !.prepared = Scenario]
  /\ UNCHANGED faultVars

RunOriginal ==
  /\ campaign.phase = "inject"
  /\ RunNext
  /\ UNCHANGED <<records, campaign>>

(* run(until) a time between two events.                                   *)
StopAt(until) ==
  /\ campaign.phase = "inject"
  /\ sim.now < until /\ Reaches(sim, until)
  /\ \E e \in Pending(sim) : e.time > until
  /\ sim' = AtHorizon(sim, until)
  /\ UNCHANGED <<taskVars, workers, replicas, transfers, callers, raised, records, campaign>>

(* A replay runs everything up to the time of an injection, but nothing    *)
(* between two injections of the same time and nothing before one at the   *)
(* start.                                                                  *)
InPace ==
  IF records # << >> /\ Last(records).injected = sim.now THEN Len(sim.trace) = campaign.ran
  ELSE IF sim.now = 0 THEN sim.trace = << >>
  ELSE \A e \in Pending(sim) : e.time > sim.now

InjectOriginal ==
  /\ campaign.phase = "inject"
  /\ Inject
  /\ campaign' = [campaign EXCEPT !.paced = @ /\ InPace, !.ran = Len(sim.trace)]

(* Another simulator is prepared, for the manifest of this one.            *)
StartReplay ==
  /\ campaign.phase = "inject"
  /\ Pending(sim) = {} /\ records # << >> /\ ~raised
  /\ Restored(campaign.prepared)
  /\ records' = << >>
  /\ campaign' = [campaign EXCEPT !.phase = "replay", !.schedule = Schedule, !.original = Outcome,
                                  !.prepared = << >>]

---------------------------------------------------------------------------
(* FaultScheduleReplayer.replay.                                           *)
Entries == campaign.schedule
Replaying == campaign.phase = "replay" /\ Entries # << >>

(* run(until=entry.injection_time), which runs every event up to then.     *)
RunToEntry ==
  /\ Replaying /\ ~raised /\ campaign.reached < Head(Entries).at
  /\ \/ /\ \E e \in Pending(sim) : e.time <= Head(Entries).at
        /\ RunNext
        /\ UNCHANGED campaign
     \/ /\ Reaches(sim, Head(Entries).at)
        /\ sim' = AtHorizon(sim, Head(Entries).at)
        /\ campaign' = [campaign EXCEPT !.reached = Head(Entries).at]
        /\ UNCHANGED <<taskVars, workers, replicas, transfers, callers, raised>>
  /\ UNCHANGED records

(* _require_event_time                                                     *)
PendingAt(id, time) == \E e \in Pending(sim) : e.id = id /\ e.time = time

Applicable(entry) ==
  CASE entry.class = "DELIVERY_REORDER" ->
         PendingAt(entry.target, entry.time) /\ PendingAt(entry.anchor.id, entry.anchor.time)
    [] entry.class = "WORKER_FAILURE" -> entry.target \in Workers
    [] entry.class \in {"REPLICA_LOSS", "REPLICA_EVICTION"} -> entry.target \in DOMAIN replicas
    [] OTHER -> PendingAt(entry.target, entry.time)

(* _apply                                                                  *)
Apply(entry) ==
  \/ /\ entry.class = "DELIVERY_DELAY"
     /\ \E e \in Pending(sim) : e.id = entry.target /\ DelayDelivery(e, entry.duration)
  \/ /\ entry.class = "DELIVERY_DROP"
     /\ \E e \in Pending(sim) : e.id = entry.target /\ DropDelivery(e)
  \/ /\ entry.class = "DELIVERY_DUPLICATE"
     /\ \E e \in Pending(sim) : e.id = entry.target /\ DuplicateDelivery(e, entry.duration)
  \/ /\ entry.class = "DELIVERY_REORDER"
     /\ \E e, anchor \in Pending(sim) :
          e.id = entry.target /\ anchor.id = entry.anchor.id /\ ReorderAfter(e, anchor, entry.gap)
  \/ entry.class = "WORKER_FAILURE" /\ InjectWorkerFailure(entry.target)
  \/ entry.class = "REPLICA_LOSS" /\ InjectReplicaLoss(entry.target)
  \/ entry.class = "REPLICA_EVICTION" /\ InjectReplicaEviction(entry.target)

(* A fault that is not what the manifest says is an error too.             *)
ReplayEntry ==
  LET entry == Head(Entries) IN
  /\ Replaying /\ ~raised /\ campaign.reached = entry.at /\ Applicable(entry)
  /\ Apply(entry)
  /\ campaign' = IF Entry(Last(records')) = entry
                   THEN [campaign EXCEPT !.schedule = Tail(@)]
                   ELSE [campaign EXCEPT !.phase = "failed"]

(* FaultReplayError: the target is not there, or not at its time; an error *)
(* of a handler ends a replay too.  The time of an entry has not passed:   *)
(* the schedule is in the order of injection.                              *)
FailReplay ==
  LET entry == Head(Entries) IN
  /\ Replaying
  /\ raised \/ (campaign.reached = entry.at /\ ~Applicable(entry))
  /\ campaign' = [campaign EXCEPT !.phase = "failed"]
  /\ UNCHANGED faultVars

(* The scenario runs on to its end.                                        *)
RunReplayed ==
  /\ campaign.phase = "replay" /\ Entries = << >>
  /\ RunNext
  /\ UNCHANGED <<records, campaign>>

EndReplay ==
  /\ campaign.phase = "replay" /\ Entries = << >> /\ Pending(sim) = {}
  /\ campaign' = [campaign EXCEPT !.phase = "done"]
  /\ UNCHANGED faultVars

---------------------------------------------------------------------------
CampaignInit == FaultInit /\ campaign = NoCampaign

CampaignStep ==
  \/ Prepare \/ Prepared \/ RunOriginal \/ InjectOriginal \/ StartReplay
  \/ RunToEntry \/ ReplayEntry \/ FailReplay \/ RunReplayed \/ EndReplay
  \/ \E until \in Horizons : StopAt(until)

CampaignNext ==
  \/ callers.campaign /\ CampaignStep
  \/ ~callers.campaign /\ FaultNext /\ UNCHANGED campaign

CampaignSpec == CampaignInit /\ [][CampaignNext]_campaignVars

---------------------------------------------------------------------------
(* An exact replay (README.md:85, fault_campaign.py:481): a campaign that  *)
(* injected with the pace of a replay can be replayed to the end, and      *)
(* leaves the same events, in the same order, the same records and the     *)
(* same resources behind.                                                  *)
ReplayIsExact ==
  campaign.paced =>
    /\ campaign.phase # "failed"
    /\ campaign.phase = "done" => Outcome = campaign.original

===============================================================================
