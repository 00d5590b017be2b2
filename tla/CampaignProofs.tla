--------------------------- MODULE CampaignProofs ---------------------------
(***************************************************************************)
(* Fault campaigns, for any workers, links and capacities, any callers and *)
(* any faults: what holds of resources, faults and their records holds in  *)
(* the original run of a scenario and in the replay of its records, and    *)
(* the replay of a campaign that kept its pace is exact.                   *)
(***************************************************************************)
EXTENDS CampaignRuns, FaultInjectionProofs

(* What is shown of the current scenario, of the one that was prepared.    *)
SetUp == campaign.prepared

Prepares ==
  INSTANCE FaultInvariants
    WITH sim <- SetUp.sim, workers <- SetUp.workers, tasks <- SetUp.tasks, queues <- SetUp.queues,
         active <- SetUp.active, replicas <- SetUp.replicas, transfers <- SetUp.transfers,
         callers <- SetUp.callers, raised <- SetUp.raised, records <- << >>

---------------------------------------------------------------------------
(* Campaigns.  What has been shown of FaultSpec rests on AnyStep, and so   *)
(* it holds of campaigns too: their runs stop at horizons, and a replay    *)
(* applies whatever entry comes next.  Only StartReplay is no such step.   *)

(* The invariant of the prepared scenario is that of the current one.      *)
LEMMA PreparedIsCurrent ==
  /\ SetUp' = Scenario /\ records = << >> => (Prepares!FaultInv' <=> FaultInv)
  /\ Restored(SetUp) /\ records' = << >> => (Prepares!FaultInv <=> FaultInv')
  /\ SetUp' = SetUp => (Prepares!FaultInv' <=> Prepares!FaultInv)
<1> USE DEF FaultInv, ResourceInv, EventsInv, KernelInv, KernelTypes, HeapInv, TraceInv, Kinds, Events,
            History, IdsUsed, IdUsed, MaterializationStarted, SubjectsExist, SubjectExists, CompletionsTell,
            Tells, WorkerTypes, CallersTyped, RecordsListed, TaskSide, TaskTypes, TaskRecords, Slots, Once,
            Lists, MoveSide, MoveTypes, ReplicaRecords, TransferRecords, OneTransfer, DropsNoTask,
            TasksAreDelivered, Waiting, FailuresLast, LossesLast, StartedOnce, Copied, Starts, RecordsInv,
            RecordTyped, RecordTrue, AsRecorded, Ids, Before, Pending, ToSet, NoEvent, TaskComplete,
            Unfinished, AvailableIsReachable, Sound, Source, Destination, NobodyWaitsInVain, RunningTasksEnd,
            RaisesOnlyOnCopies, TransformationsAreSound, CancelledByFault, FaultClass, Calls,
            Prepares!FaultInv, Prepares!ResourceInv, Prepares!EventsInv, Prepares!KernelInv,
            Prepares!KernelTypes, Prepares!HeapInv, Prepares!TraceInv, Prepares!Kinds, Prepares!Events,
            Prepares!History, Prepares!IdsUsed, Prepares!IdUsed, Prepares!MaterializationStarted,
            Prepares!SubjectsExist, Prepares!SubjectExists, Prepares!CompletionsTell, Prepares!Tells,
            Prepares!WorkerTypes, Prepares!CallersTyped, Prepares!RecordsListed, Prepares!TaskSide,
            Prepares!TaskTypes, Prepares!TaskRecords, Prepares!Slots, Prepares!Once, Prepares!Lists,
            Prepares!MoveSide, Prepares!MoveTypes, Prepares!ReplicaRecords, Prepares!TransferRecords,
            Prepares!OneTransfer, Prepares!DropsNoTask, Prepares!TasksAreDelivered, Prepares!Waiting,
            Prepares!FailuresLast, Prepares!LossesLast, Prepares!StartedOnce, Prepares!Copied,
            Prepares!Starts, Prepares!RecordsInv, Prepares!RecordTyped, Prepares!RecordTrue,
            Prepares!AsRecorded, Prepares!Ids, Prepares!Before, Prepares!Pending, Prepares!ToSet,
            Prepares!NoEvent, Prepares!TaskComplete, Prepares!Unfinished, Prepares!AvailableIsReachable,
            Prepares!Sound, Prepares!Source, Prepares!Destination, Prepares!NobodyWaitsInVain,
            Prepares!RunningTasksEnd, Prepares!RaisesOnlyOnCopies, Prepares!TransformationsAreSound,
            Prepares!CancelledByFault, Prepares!FaultClass, Prepares!Calls
<1>1. ASSUME SetUp' = Scenario, records = << >> PROVE Prepares!FaultInv' <=> FaultInv
  <2>1. /\ SetUp'.sim = sim /\ SetUp'.workers = workers /\ SetUp'.tasks = tasks /\ SetUp'.queues = queues
        /\ SetUp'.active = active /\ SetUp'.replicas = replicas /\ SetUp'.transfers = transfers
        /\ SetUp'.callers = callers /\ SetUp'.raised = raised
    BY <1>1 DEF Scenario
  <2> QED
    BY <1>1, <2>1
<1>2. ASSUME Restored(SetUp), records' = << >> PROVE Prepares!FaultInv <=> FaultInv'
  <2>1. /\ sim' = SetUp.sim /\ workers' = SetUp.workers /\ tasks' = SetUp.tasks /\ queues' = SetUp.queues
        /\ active' = SetUp.active /\ replicas' = SetUp.replicas /\ transfers' = SetUp.transfers
        /\ callers' = SetUp.callers /\ raised' = SetUp.raised
    BY <1>2 DEF Restored
  <2> QED
    BY <1>2, <2>1
<1>3. ASSUME SetUp' = SetUp PROVE Prepares!FaultInv' <=> Prepares!FaultInv
  BY <1>3
<1> QED
  BY <1>1, <1>2, <1>3

(* The entries of a schedule have times.                                   *)
EntryTyped(entry) == entry.at \in Nat /\ entry.duration \in Nat /\ entry.gap \in Nat
ScheduleTyped(schedule) == \E S : schedule \in Seq(S) /\ \A entry \in S : EntryTyped(entry)

(* Until a scenario is prepared no event and no fault has happened; then   *)
(* it is put aside as it is, and until the first event is executed only    *)
(* deliveries differ from it.                                              *)
Aside ==
  /\ Prepares!FaultInv
  /\ SetUp.sim.trace = << >> /\ "campaign" \in DOMAIN SetUp.callers
  /\ sim.trace = << >> => tasks = SetUp.tasks /\ replicas = SetUp.replicas /\ transfers = SetUp.transfers

CampaignInv ==
  /\ FaultInv
  /\ DOMAIN campaign = DOMAIN NoCampaign /\ "campaign" \in DOMAIN callers
  /\ callers.campaign /\ campaign.phase = "prepare" => records = << >> /\ sim.trace = << >>
  /\ callers.campaign /\ campaign.phase = "inject" => Aside
  /\ campaign.phase = "replay" => ScheduleTyped(campaign.schedule)

LEMMA CampaignStarts ==
  ASSUME CampaignInit
  PROVE  CampaignInv
<1>1. FaultInv /\ records = << >> /\ sim.trace = << >> /\ campaign = NoCampaign /\ callers \in Callers
  BY InitiallyTrue DEF CampaignInit, FaultInit, ResourceInit, NewSimulator
<1>2. campaign.phase = "prepare"
  BY <1>1 DEF NoCampaign
<1> QED
  BY <1>1, <1>2, CampaignAssumption DEF CampaignInv

(* What the steps of a campaign do to the trace and to the callers.        *)
LEMMA TraceSteps ==
  ASSUME FaultInv
  PROVE  /\ AnyFault \/ Waited \/ (Operation /\ UNCHANGED records) => sim'.trace = sim.trace
         /\ RunNext /\ UNCHANGED records => sim'.trace # << >>
<1>1. ResourceInv /\ Sides /\ EventsInv /\ CallersTyped /\ RecordsListed /\ KernelInv(sim)
  BY DEF FaultInv, ResourceInv, Sides, EventsInv
<1>2. AnyFault => sim'.trace = sim.trace
  BY <1>1, FaultIsRecorded DEF FaultStep, Moved
<1>3. Waited => sim'.trace = sim.trace
  BY <1>1, WaitedMoves DEF Moved
<1>4. Operation /\ UNCHANGED records => sim'.trace = sim.trace
  BY <1>1, OperationStep DEF Kept, Result, Advance, Moved
<1>5. ASSUME RunNext, UNCHANGED records PROVE sim'.trace # << >>
  <2>1. PICK e \in Pending(sim) : Kept({e})
    BY <1>1, <1>5, RunEffects
  <2>2. sim'.trace = Append(sim.trace, e)
    BY <2>1 DEF Kept, Result, Advance, Moved
  <2>3. sim.trace \in Seq(Events(sim.known)) /\ e \in Events(sim.known)
    BY <1>1, KernelFacts
  <2> HIDE DEF Events
  <2> QED
    BY <2>2, <2>3
<1> QED
  BY <1>2, <1>3, <1>4, <1>5

LEMMA CallersStay ==
  ASSUME FaultInv, "campaign" \in DOMAIN callers, AnyStep
  PROVE  "campaign" \in DOMAIN callers' /\ callers'.campaign = callers.campaign
<1>1. \A kind \in Calls : Call(kind) =>
        "campaign" \in DOMAIN callers' /\ callers'.campaign = callers.campaign
  BY DEF Call, Calls
<1>2. {"tasks", "replicas", "transfers", "failures", "removals"} = Calls
  BY DEF Calls
<1>3. (\E kind \in Calls : Call(kind)) \/ callers' = callers
  <2>1. CASE AnyFault
    BY <1>2, <2>1 DEF AnyFault, DropDelivery, DelayDelivery, DuplicateDelivery, ReorderAfter, OnlyDeliveries,
       InjectWorkerFailure, InjectReplicaLoss, InjectReplicaEviction, FailWorker, FailOrRecover, EvictReplica,
       LoseReplica, EvictOrLose
  <2>2. CASE Operation
    BY <1>2, <2>2 DEF Operation, EnqueueTask, MaterializeReplica, FailWorker, RecoverWorker, FailOrRecover,
       StartTransfer, EvictReplica, LoseReplica, EvictOrLose
  <2>3. CASE RunNext
    BY <2>3, HandlersAreNoCallers DEF RunNext, FaultInv, ResourceInv, TaskSide
  <2>4. CASE Waited
    BY <2>4 DEF Waited
  <2>5. CASE UNCHANGED faultVars
    BY <2>5 DEF faultVars, vars
  <2> QED
    BY <2>1, <2>2, <2>3, <2>4, <2>5 DEF AnyStep
<1> QED
  BY <1>1, <1>3

(* from_injector: durations, gaps and times are naturals.                  *)
LEMMA SchedulesAreTyped ==
  ASSUME FaultInv
  PROVE  ScheduleTyped(Schedule)
<1> DEFINE S == {Entry(records[i]) : i \in DOMAIN records}
<1>1. \A i \in DOMAIN records : RecordTyped(sim, records[i])
  BY DEF FaultInv, RecordsInv
<1>2. \A record : RecordTyped(sim, record) => EntryTyped(Entry(record))
  BY DEF RecordTyped, EntryTyped, Entry
<1>3. \A entry \in S : EntryTyped(entry)
  BY <1>1, <1>2
<1>4. Schedule \in Seq(S)
  <2> DEFINE n == Len(records)
  <2>1. n \in Nat /\ DOMAIN records = 1..n
    BY SeqFacts DEF FaultInv, ResourceInv, RecordsListed
  <2>2. Schedule \in [1..n -> S]
    BY <2>1 DEF Schedule
  <2> HIDE DEF n, S
  <2> QED
    BY <2>1, <2>2, SeqIntro
<1> QED
  BY <1>3, <1>4 DEF ScheduleTyped

LEMMA EntriesAreTyped ==
  ASSUME NEW schedule, ScheduleTyped(schedule), schedule # << >>
  PROVE  EntryTyped(Head(schedule)) /\ ScheduleTyped(Tail(schedule))
<1>1. PICK S : schedule \in Seq(S) /\ \A entry \in S : EntryTyped(entry)
  BY DEF ScheduleTyped
<1>2. Head(schedule) \in S /\ Tail(schedule) \in Seq(S)
  BY <1>1
<1> QED
  BY <1>1, <1>2 DEF ScheduleTyped

(* _apply: the entry of a manifest is a fault like any other.              *)
LEMMA EntriesAreFaults ==
  ASSUME NEW entry, EntryTyped(entry), Applicable(entry), Apply(entry)
  PROVE  AnyFault
<1>1. entry.duration \in Nat /\ entry.gap \in Nat
  BY DEF EntryTyped
<1>2. /\ entry.class = "WORKER_FAILURE" => entry.target \in Workers
      /\ entry.class = "REPLICA_LOSS" => entry.target \in DOMAIN replicas
      /\ entry.class = "REPLICA_EVICTION" => entry.target \in DOMAIN replicas
  BY DEF Applicable
<1> QED
  BY <1>1, <1>2 DEF Apply, AnyFault

LEMMA CampaignStepIsAny ==
  ASSUME CampaignInv, [CampaignNext]_campaignVars
  PROVE  AnyStep \/ (callers.campaign /\ StartReplay)
<1>1. FaultInv /\ ResourceInv /\ CallersTyped
  BY DEF CampaignInv, FaultInv, ResourceInv
<1>2. UNCHANGED campaignVars \/ (FaultNext /\ UNCHANGED campaign) => AnyStep
  BY <1>1, FaultStepIsAny DEF campaignVars, AnyStep
<1>3. Prepare \/ Prepared \/ RunOriginal \/ FailReplay \/ RunReplayed \/ EndReplay => AnyStep
  BY DEF Prepare, Prepared, RunOriginal, FailReplay, RunReplayed, EndReplay, AnyStep
<1>4. InjectOriginal => AnyStep
  BY <1>1, InjectedFault DEF InjectOriginal, AnyStep
<1>5. ASSUME NEW until \in Nat, Reaches(sim, until), sim' = AtHorizon(sim, until),
             UNCHANGED <<taskVars, workers, replicas, transfers, callers, raised, records>>
      PROVE  AnyStep
  BY <1>5 DEF Waited, AnyStep
<1>6. \A until \in Horizons : StopAt(until) => AnyStep
  BY <1>5, CampaignAssumption DEF StopAt
<1>7. Replaying => EntryTyped(Head(Entries))
  BY EntriesAreTyped DEF CampaignInv, Replaying, Entries
<1>8. RunToEntry => AnyStep
  <2>1. Replaying => Head(Entries).at \in Nat
    BY <1>7 DEF EntryTyped
  <2> QED
    BY <1>5, <2>1 DEF RunToEntry, AnyStep
<1>9. ReplayEntry => AnyStep
  BY <1>7, EntriesAreFaults DEF ReplayEntry, AnyStep
<1> QED
  BY <1>2, <1>3, <1>4, <1>6, <1>8, <1>9 DEF CampaignNext, CampaignStep

LEMMA CampaignsKeepTruth ==
  ASSUME CampaignInv, [CampaignNext]_campaignVars
  PROVE  FaultInv' /\ "campaign" \in DOMAIN callers'
<1>1. CASE AnyStep
  BY <1>1, StepKeepsTruth, CallersStay DEF CampaignInv
<1>2. CASE callers.campaign /\ StartReplay
  <2>1. Prepares!FaultInv /\ "campaign" \in DOMAIN SetUp.callers /\ Restored(SetUp) /\ records' = << >>
    BY <1>2 DEF CampaignInv, Aside, StartReplay, SetUp
  <2> QED
    BY <2>1, PreparedIsCurrent DEF Restored
<1> QED
  BY <1>1, <1>2, CampaignStepIsAny

(* The phases of a campaign.                                               *)
LEMMA PhaseSteps ==
  ASSUME "phase" \in DOMAIN campaign
  PROVE  /\ Prepare => campaign.phase = "prepare" /\ campaign' = campaign
         /\ Prepared => campaign'.phase = "inject"
         /\ RunOriginal => campaign.phase = "inject" /\ campaign' = campaign
         /\ InjectOriginal => campaign'.phase = "inject"
         /\ \A until : StopAt(until) => campaign.phase = "inject" /\ campaign' = campaign
         /\ StartReplay => campaign'.phase = "replay"
         /\ RunToEntry => campaign'.phase = "replay"
         /\ ReplayEntry => campaign'.phase \in {"replay", "failed"}
         /\ FailReplay => campaign'.phase = "failed"
         /\ RunReplayed => campaign.phase = "replay" /\ campaign' = campaign
         /\ EndReplay => campaign'.phase = "done"
<1>1. /\ Prepare => campaign.phase = "prepare" /\ campaign' = campaign
      /\ RunOriginal => campaign.phase = "inject" /\ campaign' = campaign
      /\ \A until : StopAt(until) => campaign.phase = "inject" /\ campaign' = campaign
      /\ RunReplayed => campaign.phase = "replay" /\ campaign' = campaign
  BY DEF Prepare, RunOriginal, StopAt, RunReplayed
<1>2. Prepared => campaign'.phase = "inject"
  BY DEF Prepared
<1>3. InjectOriginal => campaign'.phase = "inject"
  <2>1. InjectOriginal =>
          campaign.phase = "inject" /\ \E paced, ran : campaign' = [campaign EXCEPT !.paced = paced, !.ran = ran]
    BY DEF InjectOriginal
  <2> QED
    BY <2>1
<1>4. StartReplay => campaign'.phase = "replay"
  BY DEF StartReplay
<1>5. RunToEntry => campaign'.phase = "replay"
  BY DEF RunToEntry, Replaying
<1>6. ReplayEntry => campaign'.phase \in {"replay", "failed"}
  BY DEF ReplayEntry, Replaying
<1>7. (FailReplay => campaign'.phase = "failed") /\ (EndReplay => campaign'.phase = "done")
  BY DEF FailReplay, EndReplay
<1> QED
  BY <1>1, <1>2, <1>3, <1>4, <1>5, <1>6, <1>7

LEMMA CampaignStepKeeps ==
  ASSUME CampaignInv, [CampaignNext]_campaignVars
  PROVE  CampaignInv'
<1>1. FaultInv /\ FaultInv' /\ "campaign" \in DOMAIN callers'
  BY CampaignsKeepTruth DEF CampaignInv
<1>2. \A field \in {"phase", "prepared", "schedule"} : field \in DOMAIN campaign
  BY DEF CampaignInv, NoCampaign
<1>3. callers.campaign /\ campaign.phase = "prepare" => records = << >> /\ sim.trace = << >>
  BY DEF CampaignInv
<1>4. callers.campaign /\ campaign.phase = "inject" => Aside
  BY DEF CampaignInv
<1>5. campaign.phase = "replay" => ScheduleTyped(campaign.schedule)
  BY DEF CampaignInv
<1>6. AnyStep => (callers'.campaign <=> callers.campaign)
  BY <1>1, CallersStay DEF CampaignInv
<1>7. DOMAIN campaign' = DOMAIN campaign
  BY DEF CampaignNext, CampaignStep, campaignVars, Prepare, Prepared, RunOriginal, InjectOriginal, StartReplay,
         RunToEntry, ReplayEntry, FailReplay, RunReplayed, EndReplay, StopAt
<1>8. ~callers.campaign /\ FaultNext => ~callers'.campaign
  BY <1>1, <1>6, FaultStepIsAny DEF FaultInv
<1>9. ASSUME callers'.campaign, campaign'.phase = "prepare"
      PROVE  records' = << >> /\ sim'.trace = << >>
  <2>1. CASE UNCHANGED campaignVars
    BY <1>3, <1>9, <2>1 DEF campaignVars, faultVars, vars
  <2>2. CASE callers.campaign /\ CampaignStep
    <3>1. Prepare
      BY <1>2, <1>9, <2>2, PhaseSteps DEF CampaignStep
    <3>2. Operation /\ UNCHANGED records /\ campaign.phase = "prepare"
      BY <3>1 DEF Prepare
    <3> QED
      BY <1>1, <1>3, <2>2, <3>2, TraceSteps
  <2> QED
    BY <1>8, <1>9, <2>1, <2>2 DEF CampaignNext
<1>10. ASSUME callers'.campaign, campaign'.phase = "inject"
       PROVE  Aside'
  <2>1. ASSUME Aside, SetUp' = SetUp,
               sim'.trace = << >> =>
                 sim.trace = << >> /\ tasks' = tasks /\ replicas' = replicas /\ transfers' = transfers
        PROVE  Aside'
    BY <2>1, PreparedIsCurrent DEF Aside
  <2>2. CASE UNCHANGED campaignVars
    <3>1. /\ Aside /\ SetUp' = SetUp /\ sim' = sim
          /\ tasks' = tasks /\ replicas' = replicas /\ transfers' = transfers
      BY <1>4, <1>10, <2>2 DEF campaignVars, faultVars, vars, SetUp
    <3> QED
      BY <2>1, <3>1
  <2>3. CASE Prepared /\ callers.campaign
    <3>1. SetUp' = Scenario /\ records = << >> /\ sim.trace = << >> /\ UNCHANGED faultVars
      BY <1>2, <1>3, <2>3 DEF Prepared, SetUp
    <3>2. Prepares!FaultInv'
      BY <1>1, <3>1, PreparedIsCurrent
    <3>3. /\ SetUp'.sim = sim' /\ SetUp'.callers = callers' /\ SetUp'.tasks = tasks'
          /\ SetUp'.replicas = replicas' /\ SetUp'.transfers = transfers'
      BY <3>1 DEF Scenario, faultVars, vars
    <3>4. sim'.trace = << >>
      BY <3>1 DEF faultVars, vars
    <3> QED
      BY <1>1, <3>2, <3>3, <3>4 DEF Aside
  <2>4. CASE RunOriginal /\ callers.campaign
    <3>1. Aside /\ SetUp' = SetUp /\ sim'.trace # << >>
      BY <1>1, <1>4, <2>4, TraceSteps DEF RunOriginal, SetUp
    <3> QED
      BY <2>1, <3>1
  <2>5. CASE InjectOriginal /\ callers.campaign
    <3>1. AnyFault
      BY <1>1, <2>5, InjectedFault DEF InjectOriginal, FaultInv, ResourceInv
    <3>2. Aside /\ SetUp' = SetUp
      BY <1>2, <1>4, <2>5 DEF InjectOriginal, SetUp
    <3> QED
      BY <1>1, <2>1, <3>1, <3>2, TraceSteps, FaultEffects
  <2>6. ASSUME NEW until \in Horizons, StopAt(until), callers.campaign
        PROVE  Aside'
    <3>1. /\ Aside /\ SetUp' = SetUp
          /\ tasks' = tasks /\ replicas' = replicas /\ transfers' = transfers
      BY <1>4, <2>6 DEF StopAt, SetUp, taskVars
    <3>2. Waited
      BY <2>6, CampaignAssumption DEF StopAt, Waited
    <3> QED
      BY <1>1, <2>1, <3>1, <3>2, TraceSteps
  <2>7. CASE callers.campaign /\ CampaignStep
    BY <1>2, <1>10, <2>3, <2>4, <2>5, <2>6, <2>7, PhaseSteps DEF CampaignStep
  <2> QED
    BY <1>8, <1>10, <2>2, <2>7 DEF CampaignNext
<1>11. ASSUME campaign'.phase = "replay"
       PROVE  ScheduleTyped(campaign'.schedule)
  <2>1. CASE campaign' = campaign
    BY <1>5, <1>11, <2>1
  <2>2. CASE StartReplay
    <3>1. campaign'.schedule = Schedule
      BY <1>2, <2>2 DEF StartReplay
    <3> QED
      BY <1>1, <3>1, SchedulesAreTyped
  <2>3. CASE RunToEntry
    <3>1. campaign'.schedule = campaign.schedule /\ campaign.phase = "replay"
      BY <1>2, <2>3 DEF RunToEntry, Replaying
    <3> QED
      BY <1>5, <3>1
  <2>4. CASE ReplayEntry
    <3>1. campaign.phase = "replay" /\ campaign.schedule # << >> /\ campaign'.schedule = Tail(campaign.schedule)
      BY <1>2, <1>11, <2>4 DEF ReplayEntry, Replaying, Entries
    <3> QED
      BY <1>5, <3>1, EntriesAreTyped
  <2> QED
    BY <1>2, <1>11, <2>1, <2>2, <2>3, <2>4, PhaseSteps DEF CampaignNext, CampaignStep, campaignVars
<1> QED
  BY <1>1, <1>7, <1>9, <1>10, <1>11 DEF CampaignInv, NoCampaign

(* What a campaign's simulators and records say is true throughout: while  *)
(* a scenario is prepared, run and injected into, and while it is replayed *)
(* from the schedule of its manifest.                                      *)
THEOREM CampaignInvariant == CampaignSpec => []CampaignInv
<1>1. CampaignInit => CampaignInv
  BY CampaignStarts
<1>2. CampaignInv /\ [CampaignNext]_campaignVars => CampaignInv'
  BY CampaignStepKeeps
<1> QED
  BY <1>1, <1>2, PTL DEF CampaignSpec

(* Slots match tasks and no task is forgotten, in the original run and in  *)
(* the replay of every schedule it leaves.                                 *)
THEOREM CampaignsForgetNoTask ==
  ASSUME TasksAreDelivered
  PROVE  CampaignSpec => []TasksAreNotForgotten
<1>1. CampaignInv => TasksAreNotForgotten
  BY SlotsAreRight DEF CampaignInv, FaultInv, ResourceInv, Waiting, TasksAreNotForgotten
<1> QED
  BY <1>1, CampaignInvariant, PTL

(* An available replica is on a worker that is up in both runs.            *)
THEOREM CampaignsReachWhatIsAvailable == CampaignSpec => []AvailableIsReachable
<1>1. CampaignInv => AvailableIsReachable
  BY DEF CampaignInv, FaultInv, ResourceInv, MoveSide
<1> QED
  BY <1>1, CampaignInvariant, PTL

(* assert_ground_truth and the trust oracle pass after each entry that a   *)
(* replay has applied, whatever became of it, as after each fault of the   *)
(* original run.                                                           *)
THEOREM CampaignsKeepGroundTruth == CampaignSpec => []GroundTruth
<1>1. CampaignInv => GroundTruth
  BY RecordsAreTrue DEF CampaignInv
<1> QED
  BY <1>1, CampaignInvariant, PTL

(* No handler raises in either run unless a start has been copied.         *)
THEOREM CampaignsRaiseOnCopies == CampaignSpec => []RaisesOnlyOnCopies
<1>1. CampaignInv => RaisesOnlyOnCopies
  BY DEF CampaignInv, FaultInv
<1> QED
  BY <1>1, CampaignInvariant, PTL

(* What has ended stays so in each run: only where the replay starts is    *)
(* there another scenario, before its first event.                         *)
THEOREM CampaignEndingsStay == CampaignSpec => EndingsAreFinal
<1> DEFINE Final == Len(sim'.trace) < Len(sim.trace) \/ (TasksEnded /\ ReplicasEnded /\ TransfersEnded)
<1>1. ASSUME CampaignInv, [CampaignNext]_campaignVars
      PROVE  Final
  <2>1. CASE AnyStep
    BY <1>1, <2>1, EndingsStep DEF CampaignInv, FaultInv
  <2>2. CASE callers.campaign /\ StartReplay
    <3>1. /\ Aside /\ sim' = SetUp.sim /\ tasks' = SetUp.tasks /\ replicas' = SetUp.replicas
          /\ transfers' = SetUp.transfers
      BY <1>1, <2>2 DEF CampaignInv, StartReplay, Restored, SetUp
    <3>2. CASE sim.trace = << >>
      BY <3>1, <3>2 DEF Aside, TasksEnded, ReplicasEnded, TransfersEnded
    <3>3. CASE sim.trace # << >>
      <4>1. sim.trace \in Seq(Events(sim.known))
        BY <1>1, KernelFacts DEF CampaignInv, FaultInv, ResourceInv, EventsInv
      <4>2. Len(sim.trace) > 0
        <5> HIDE DEF Events
        <5> QED
          BY <3>3, <4>1
      <4> QED
        BY <3>1, <4>2, EmptyFacts DEF Aside
    <3> QED
      BY <3>2, <3>3
  <2> QED
    BY <1>1, <2>1, <2>2, CampaignStepIsAny
<1>2. CampaignInv /\ [CampaignNext]_campaignVars => [Final]_vars
  BY <1>1
<1> QED
  BY <1>2, CampaignInvariant, PTL DEF CampaignSpec, EndingsAreFinal
---------------------------------------------------------------------------
(* Exact replays.  First, what is visible of the kernel: it moves as the   *)
(* kernel does, whatever is still to be popped.                            *)
Shaped(s) ==
  s = [now |-> s.now, queue |-> s.queue, cancelled |-> s.cancelled, known |-> s.known,
       next |-> s.next, trace |-> s.trace]
IsList(q) == Len(q) \in Nat /\ DOMAIN q = 1..Len(q)

LEMMA KernelIsShaped ==
  ASSUME NEW s, KernelInv(s)
  PROVE  Shaped(s)
BY DEF KernelInv, KernelTypes, Shaped

LEMMA ChangedFields ==
  ASSUME NEW s, Shaped(s)
  PROVE  /\ \A at : [s EXCEPT !.now = at] = [now |-> at, queue |-> s.queue, cancelled |-> s.cancelled,
                                            known |-> s.known, next |-> s.next, trace |-> s.trace]
         /\ \A q, known, next :
              [s EXCEPT !.queue = q, !.known = known, !.next = next] =
                [now |-> s.now, queue |-> q, cancelled |-> s.cancelled,
                 known |-> known, next |-> next, trace |-> s.trace]
<1> DEFINE a == s.now
           b == s.queue
           c == s.cancelled
           d == s.known
           f == s.next
           g == s.trace
<1>1. s = [now |-> a, queue |-> b, cancelled |-> c, known |-> d, next |-> f, trace |-> g]
  BY DEF Shaped
<1> HIDE DEF a, b, c, d, f, g
<1>2. ASSUME NEW at, NEW t, t = [s EXCEPT !.now = at]
      PROVE  t = [now |-> at, queue |-> b, cancelled |-> c, known |-> d, next |-> f, trace |-> g]
  BY <1>1, <1>2
<1>3. ASSUME NEW q, NEW known, NEW next, NEW t, t = [s EXCEPT !.queue = q, !.known = known, !.next = next]
      PROVE  t = [now |-> a, queue |-> q, cancelled |-> c, known |-> known, next |-> next, trace |-> g]
  BY <1>1, <1>3
<1> QED
  BY <1>2, <1>3 DEF a, b, c, d, f, g

LEMMA VisibleFields ==
  ASSUME NEW s, Shaped(s)
  PROVE  /\ Visible(s) = [now |-> s.now, queue |-> Pending(s), cancelled |-> {}, known |-> s.known,
                          next |-> s.next, trace |-> s.trace]
         /\ Shaped(Visible(s))
         /\ Pending(Visible(s)) = Pending(s)
         /\ \A e : IsEarliest(Visible(s), e) <=> IsEarliest(s, e)
<1> DEFINE P == Pending(s)
           v == Visible(s)
<1>1. v = [s EXCEPT !.queue = P, !.cancelled = {}]
  BY DEF Visible
<1> HIDE DEF P, v
<1>2. v = [now |-> s.now, queue |-> P, cancelled |-> {}, known |-> s.known,
           next |-> s.next, trace |-> s.trace]
  BY <1>1 DEF Shaped
<1>3. v.queue = P /\ v.cancelled = {}
  BY <1>2
<1>4. Pending(v) = P
  BY <1>3 DEF Pending
<1>5. Shaped(v)
  BY <1>2 DEF Shaped
<1> QED
  BY <1>2, <1>4, <1>5 DEF IsEarliest, P, v

LEMMA TakenFields ==
  ASSUME NEW s, Shaped(s), NEW e
  PROVE  Taken(s, e) = [now |-> e.time, queue |-> s.queue \ {e}, cancelled |-> s.cancelled,
                        known |-> s.known, next |-> s.next, trace |-> Append(s.trace, e)]
<1> DEFINE q == s.queue \ {e}
           l == Append(s.trace, e)
           at == e.time
           t == Taken(s, e)
<1>1. t = [s EXCEPT !.queue = q, !.now = at, !.trace = l]
  BY DEF Taken
<1> HIDE DEF q, l, at, t
<1>2. t = [now |-> at, queue |-> q, cancelled |-> s.cancelled, known |-> s.known,
           next |-> s.next, trace |-> l]
  BY <1>1 DEF Shaped
<1> QED
  BY <1>2 DEF q, l, at, t

LEMMA VisibleTaken ==
  ASSUME NEW s, KernelInv(s), NEW e \in s.queue, IsEarliest(s, e)
  PROVE  Visible(Popped(s, e)) = Taken(Visible(s), e)
<1> DEFINE t == Popped(s, e)
           P == Pending(s)
           v == Visible(s)
<1>1. /\ KernelInv(t) /\ t.known = s.known /\ t.next = s.next /\ t.now = e.time
      /\ t.trace = Append(s.trace, e) /\ Pending(t) = P \ {e}
  BY PoppedFields
<1>2. Shaped(v) /\ v = [now |-> s.now, queue |-> P, cancelled |-> {}, known |-> s.known,
                        next |-> s.next, trace |-> s.trace]
  BY VisibleFields, KernelIsShaped
<1> HIDE DEF t, P, v
<1>0. v.queue = P /\ v.trace = s.trace /\ v.cancelled = {} /\ v.known = s.known /\ v.next = s.next
  BY <1>2
<1> DEFINE T == [now |-> e.time, queue |-> P \ {e}, cancelled |-> {}, known |-> s.known,
                 next |-> s.next, trace |-> Append(s.trace, e)]
<1>3. Visible(t) = T
  BY <1>1, VisibleFields, KernelIsShaped
<1>4. Taken(v, e) = T
  <2>1. Taken(v, e) = [now |-> e.time, queue |-> v.queue \ {e}, cancelled |-> v.cancelled, known |-> v.known,
                       next |-> v.next, trace |-> Append(v.trace, e)]
    BY <1>2, TakenFields
  <2> QED
    BY <2>1, <1>0
<1> HIDE DEF T
<1> QED
  BY <1>3, <1>4 DEF t, v

(* No new id is that of an event that has been cancelled: the heap has     *)
(* each id once, and new events come after all others.                     *)
LEMMA VisibleScheduled ==
  ASSUME NEW s, KernelInv(s), NEW orders, IsList(orders),
         \A e, f \in Scheduled(s, orders).queue : e.id = f.id => e = f
  PROVE  /\ Shaped(Scheduled(s, orders))
         /\ Visible(Scheduled(s, orders)) = Scheduled(Visible(s), orders)
<1> DEFINE t == Scheduled(s, orders)
           P == Pending(s)
           new == EventsOf(s, orders)
           v == Visible(s)
           known == s.known \cup Ids(new)
           next == s.next + Len(orders)
<1>1. t = [s EXCEPT !.queue = s.queue \cup new, !.known = known, !.next = next]
  BY DEF Scheduled, EventsOf, EventOf
<1>2. t = [now |-> s.now, queue |-> s.queue \cup new, cancelled |-> s.cancelled,
           known |-> known, next |-> next, trace |-> s.trace]
  <2> DEFINE q == s.queue \cup new
  <2>1. t = [s EXCEPT !.queue = q, !.known = known, !.next = next]
    BY <1>1
  <2> HIDE DEF t, q, known, next
  <2>2. t = [now |-> s.now, queue |-> q, cancelled |-> s.cancelled, known |-> known,
             next |-> next, trace |-> s.trace]
    <3>1. Shaped(s)
      BY KernelIsShaped
    <3> QED
      BY <2>1, <3>1 DEF Shaped
  <2> QED
    BY <2>2 DEF q
<1>3. Shaped(v) /\ v = [now |-> s.now, queue |-> P, cancelled |-> {}, known |-> s.known,
                        next |-> s.next, trace |-> s.trace]
  BY VisibleFields, KernelIsShaped
<1>4. \A e \in new : e.id \notin s.cancelled
  <2> SUFFICES ASSUME NEW i \in DOMAIN orders, EventOf(s, orders, i).id \in s.cancelled PROVE FALSE
    BY DEF EventsOf
  <2> DEFINE e == EventOf(s, orders, i)
  <2>1. e.sequence = s.next + i - 1 /\ e \in new
    BY DEF EventOf, EventsOf
  <2>2. i \in Nat /\ i >= 1 /\ s.next \in Nat
    BY KernelFacts DEF IsList
  <2> HIDE DEF new, t
  <2>3. PICK f \in s.queue : f.id = e.id
    BY DEF KernelInv, HeapInv, Ids
  <2>4. f \in t.queue /\ e \in t.queue
    BY <1>2, <2>1
  <2>5. f = e
    BY <2>3, <2>4 DEF t
  <2>6. f.sequence < s.next /\ f.sequence \in Nat
    BY KernelFacts DEF KernelInv, HeapInv
  <2> HIDE DEF e
  <2> QED
    BY <2>1, <2>2, <2>5, <2>6
<1> HIDE DEF t
<1>5. Pending(t) = P \cup new
  <2>1. t.queue = s.queue \cup new /\ t.cancelled = s.cancelled
    BY <1>2
  <2> HIDE DEF new
  <2> QED
    BY <1>4, <2>1 DEF Pending
<1> HIDE DEF v
<1>0. v.queue = P /\ v.known = s.known /\ v.next = s.next /\ v.cancelled = {} /\ v.now = s.now /\ v.trace = s.trace
  BY <1>3
<1>6. Scheduled(v, orders) = [v EXCEPT !.queue = P \cup new, !.known = known, !.next = next]
  <2>1. EventsOf(v, orders) = new
    BY <1>0 DEF EventsOf, EventOf
  <2>2. Scheduled(v, orders) =
          [v EXCEPT !.queue = v.queue \cup EventsOf(v, orders),
                    !.known = v.known \cup Ids(EventsOf(v, orders)), !.next = v.next + Len(orders)]
    BY DEF Scheduled, EventsOf, EventOf
  <2> HIDE DEF new, P
  <2> QED
    BY <1>0, <2>1, <2>2
<1> HIDE DEF v, P, new
<1> DEFINE T == [now |-> s.now, queue |-> P \cup new, cancelled |-> {}, known |-> known,
                 next |-> next, trace |-> s.trace]
<1>7. Shaped(t) /\ Visible(t) = T
  <2>1. Shaped(t)
    BY <1>2 DEF Shaped
  <2>2. t.now = s.now /\ t.known = known /\ t.next = next /\ t.trace = s.trace
    BY <1>2
  <2> QED
    BY <1>5, <2>1, <2>2, VisibleFields
<1>8. Scheduled(v, orders) = T
  <2> DEFINE q == P \cup new
  <2>1. Scheduled(v, orders) = [v EXCEPT !.queue = q, !.known = known, !.next = next]
    BY <1>6
  <2> HIDE DEF q, known, next
  <2>2. Scheduled(v, orders) = [now |-> v.now, queue |-> q, cancelled |-> v.cancelled, known |-> known,
                                next |-> next, trace |-> v.trace]
    BY <2>1, <1>3, ChangedFields
  <2> QED
    BY <2>2, <1>0 DEF q
<1> HIDE DEF T
<1> QED
  BY <1>7, <1>8 DEF t, v

LEMMA VisibleWithout ==
  ASSUME NEW s, Shaped(s), NEW ids
  PROVE  /\ Shaped(Cancelled(s, ids))
         /\ Visible(Cancelled(s, ids)) = Without(Visible(s), ids)
<1> DEFINE t == Cancelled(s, ids)
           P == Pending(s)
           marks == s.cancelled \cup (ids \cap Ids(s.queue))
           v == Visible(s)
           rest == {e \in P : e.id \notin ids}
<1>1. t = [s EXCEPT !.cancelled = marks]
  BY DEF Cancelled
<1>2. v = [now |-> s.now, queue |-> P, cancelled |-> {}, known |-> s.known,
           next |-> s.next, trace |-> s.trace]
  BY VisibleFields
<1> HIDE DEF t, P, v
<1>3. t = [now |-> s.now, queue |-> s.queue, cancelled |-> marks, known |-> s.known,
           next |-> s.next, trace |-> s.trace]
  <2> HIDE DEF marks
  <2> QED
    BY <1>1 DEF Shaped
<1>4. /\ Shaped(t) /\ t.now = s.now /\ t.known = s.known /\ t.next = s.next /\ t.trace = s.trace
      /\ t.queue = s.queue /\ t.cancelled = marks
  <2> HIDE DEF marks
  <2> QED
    BY <1>3 DEF Shaped
<1>5. Pending(t) = rest
  BY <1>4 DEF Pending, Ids, P
<1> HIDE DEF rest
<1>6. Visible(t) = [now |-> s.now, queue |-> rest, cancelled |-> {},
                    known |-> s.known, next |-> s.next, trace |-> s.trace]
  BY <1>4, <1>5, VisibleFields
<1>7. Without(v, ids) = [v EXCEPT !.queue = rest]
  BY <1>2 DEF Without, rest
<1>8. Without(v, ids) = [now |-> s.now, queue |-> rest, cancelled |-> {},
                         known |-> s.known, next |-> s.next, trace |-> s.trace]
  BY <1>2, <1>7
<1> QED
  BY <1>4, <1>6, <1>8 DEF t, v

LEMMA VisibleAt ==
  ASSUME NEW s, Shaped(s), NEW until
  PROVE  /\ Shaped(AtHorizon(s, until))
         /\ Visible(AtHorizon(s, until)) = [Visible(s) EXCEPT !.now = until]
<1> DEFINE rest == {e \in s.queue : e.id \in s.cancelled => e.time > until}
           marks == s.cancelled \cap Ids(rest)
           t == AtHorizon(s, until)
           P == Pending(s)
           v == Visible(s)
<1>1. t = [s EXCEPT !.queue = rest, !.cancelled = marks, !.now = until]
  BY DEF AtHorizon
<1>2. Shaped(v) /\ v = [now |-> s.now, queue |-> P, cancelled |-> {}, known |-> s.known,
                        next |-> s.next, trace |-> s.trace]
  BY VisibleFields
<1> HIDE DEF t, v, P
<1>0. v.queue = P /\ v.known = s.known /\ v.next = s.next /\ v.cancelled = {} /\ v.trace = s.trace
  BY <1>2
<1>3. /\ Shaped(t) /\ t.now = until /\ t.known = s.known /\ t.next = s.next /\ t.trace = s.trace
      /\ t.queue = rest /\ t.cancelled = marks
  <2> HIDE DEF rest, marks
  <2> QED
    BY <1>1 DEF Shaped
<1>4. Pending(t) = P
  BY <1>3 DEF Pending, Ids, P
<1>5. Visible(t) = [now |-> until, queue |-> P, cancelled |-> {}, known |-> s.known,
                    next |-> s.next, trace |-> s.trace]
  BY <1>3, <1>4, VisibleFields
<1>6. [v EXCEPT !.now = until] = [now |-> until, queue |-> v.queue, cancelled |-> v.cancelled,
                                 known |-> v.known, next |-> v.next, trace |-> v.trace]
  BY <1>2, ChangedFields
<1>7. Visible(t) = [v EXCEPT !.now = until]
  BY <1>0, <1>5, <1>6
<1> QED
  BY <1>3, <1>7 DEF t, v

---------------------------------------------------------------------------
(* What each handler makes of what is seen.  s is the kernel after the     *)
(* event was popped.                                                       *)
From(s) == Scene(Visible(s), workers, tasks, queues, active, replicas, transfers, callers, raised)

LEMMA SceneFields ==
  ASSUME NEW s, NEW up, NEW ta, NEW qu, NEW ac, NEW re, NEW tr, NEW ca, NEW ra
  PROVE  LET x == Scene(s, up, ta, qu, ac, re, tr, ca, ra) IN
         /\ x.sim = s /\ x.workers = up /\ x.tasks = ta /\ x.queues = qu /\ x.active = ac
         /\ x.replicas = re /\ x.transfers = tr /\ x.callers = ca /\ x.raised = ra
BY DEF Scene

LEMMA SeenIs ==
  /\ Seen = From(sim)
  /\ Seen' = Scene(Visible(sim'), workers', tasks', queues', active', replicas', transfers', callers', raised')
BY DEF Seen, Scenario, Scene, From

LEMMA FromFields ==
  ASSUME NEW s, KernelInv(s)
  PROVE  LET x == From(s) IN
         /\ x.sim = Visible(s) /\ x.workers = workers /\ x.tasks = tasks /\ x.queues = queues
         /\ x.active = active /\ x.replicas = replicas /\ x.transfers = transfers
         /\ x.callers = callers /\ x.raised = raised
         /\ x.sim.now = s.now /\ x.sim.known = s.known /\ x.sim.next = s.next /\ x.sim.trace = s.trace
         /\ x.sim.queue = Pending(s)
<1>1. Visible(s) = [now |-> s.now, queue |-> Pending(s), cancelled |-> {}, known |-> s.known,
                    next |-> s.next, trace |-> s.trace]
  BY VisibleFields, KernelIsShaped
<1> DEFINE v == Visible(s)
<1> HIDE DEF v
<1>2. v.now = s.now /\ v.known = s.known /\ v.next = s.next /\ v.trace = s.trace /\ v.queue = Pending(s)
  BY <1>1 DEF v
<1> QED
  BY <1>2, SceneFields DEF From, v

LEMMA IgnoredSeen ==
  ASSUME NEW s, Ignored(s)
  PROVE  Seen' = From(s)
<1>1. /\ sim' = s /\ workers' = workers /\ tasks' = tasks /\ queues' = queues /\ active' = active
      /\ replicas' = replicas /\ transfers' = transfers /\ callers' = callers /\ raised' = raised
  BY DEF Ignored, taskVars
<1> QED
  BY <1>1, SeenIs DEF From

(* Events that are scheduled are seen, when each has an id of its own.     *)
LEMMA ScheduledIsSeen ==
  ASSUME NEW s, KernelInv(s), NEW t, KernelInv(t), NEW orders, IsList(orders), t = Scheduled(s, orders)
  PROVE  Visible(t) = Scheduled(Visible(s), orders)
<1>1. \A e, f \in Scheduled(s, orders).queue : e.id = f.id => e = f
  BY DEF KernelInv, HeapInv
<1> QED
  BY <1>1, VisibleScheduled

LEMMA OneIsList ==
  ASSUME NEW order
  PROVE  IsList(<<order>>)
BY DEF IsList

LEMMA DispatchSeen ==
  ASSUME TaskSide, KernelInv(sim'), NEW s, KernelInv(s), NEW w \in Workers, NEW up, NEW running, NEW known,
         Startable(w, up, running), Dispatch(w, s, up, running, known),
         UNCHANGED <<replicas, transfers, callers, raised>>
  PROVE  Seen' = Filled(From(s), up, w, running, known, workers')
<1> DEFINE chosen == Started(w, up, queues[w], running)
           orders == Completions(s, chosen, known)
<1>1. queues[w] \in Seq(DOMAIN tasks) /\ Once(queues[w])
  BY TaskFacts DEF TaskSide, Slots, Lists
<1>2. chosen \in Seq(DOMAIN tasks)
  BY <1>1, StartedFacts DEF Startable, Fills
<1>3. /\ queues' = [queues EXCEPT ![w] = SubSeq(queues[w], Len(chosen) + 1, Len(queues[w]))]
      /\ active' = [active EXCEPT ![w] = running \o chosen]
      /\ tasks' = RunningOf(known, chosen)
      /\ sim' = Scheduled(s, orders)
  BY DEF Dispatch, RunningOf
<1>4. IsList(orders)
  <2> HIDE DEF chosen
  <2>1. DOMAIN chosen = 1..Len(chosen) /\ Len(chosen) \in Nat
    BY <1>2, SeqFacts
  <2> DEFINE S == {orders[i] : i \in DOMAIN chosen}
  <2>2. orders \in [1..Len(chosen) -> S]
    BY <2>1 DEF Completions
  <2> HIDE DEF S, orders
  <2> QED
    BY <2>1, <2>2, SeqIntro DEF IsList
<1>5. Visible(sim') = Scheduled(Visible(s), orders)
  BY <1>3, <1>4, ScheduledIsSeen
<1> DEFINE x == From(s)
<1>6. /\ x.sim = Visible(s) /\ x.queues = queues /\ x.active = active /\ x.replicas = replicas
      /\ x.transfers = transfers /\ x.callers = callers /\ x.raised = raised /\ x.sim.now = s.now
  BY FromFields
<1> HIDE DEF x
<1>7. Completions(x.sim, chosen, known) = orders
  <2> HIDE DEF chosen
  <2> QED
    BY <1>6 DEF Completions
<1> HIDE DEF orders
<1>8. Filled(x, up, w, running, known, workers') =
        Scene(Scheduled(x.sim, orders), workers', RunningOf(known, chosen),
              [queues EXCEPT ![w] = SubSeq(queues[w], Len(chosen) + 1, Len(queues[w]))],
              [active EXCEPT ![w] = running \o chosen], replicas, transfers, callers, raised)
  BY <1>6, <1>7 DEF Filled, WithTasks
<1> HIDE DEF chosen
<1>9. Seen' = Scene(Scheduled(x.sim, orders), workers', tasks', queues', active', replicas, transfers,
                    callers, raised)
  BY <1>5, <1>6, SeenIs
<1> QED
  BY <1>3, <1>8, <1>9 DEF x

LEMMA TasksSeen ==
  ASSUME Sides, KernelInv(sim'), NEW s, KernelInv(s), NEW e, SubjectExists(e), Handle(e, s),
         e.kind \in {"WORKER_TASK_ENQUEUED", "WORKER_TASK_COMPLETED", "WORKER_RECOVERED"}
  PROVE  Seen' = Handled(From(s), e)
<1>1. /\ TaskSide /\ TaskTypes /\ Slots /\ WorkerTypes
      /\ \A w \in Workers : /\ active[w] \in Seq(DOMAIN tasks) /\ Len(active[w]) <= WorkerCapacity[w]
                            /\ Len(active[w]) \in Nat /\ WorkerCapacity[w] \in Nat
                            /\ workers[w] # "UP" => active[w] = << >>
  BY TaskFacts, TopologyAssumption DEF Sides, TaskSide, Slots, WorkerTypes
<1> DEFINE x == From(s)
<1>2. x.workers = workers /\ x.tasks = tasks /\ x.active = active
  BY FromFields
<1>3. Ignored(s) => Seen' = x
  BY IgnoredSeen
<1> HIDE DEF x
<1>4. CASE e.kind = "WORKER_TASK_ENQUEUED"
  <2> DEFINE w == e.subject
             up == workers[w] = "UP"
  <2>1. w \in Workers /\ OnTaskEnqueued(w, s) /\ Handled(x, e) = AfterTaskEnqueued(x, w)
    BY <1>4 DEF Handle, SubjectExists, Handled
  <2>2. /\ Dispatch(w, s, up, active[w], tasks) /\ workers' = workers
        /\ UNCHANGED <<replicas, transfers, callers, raised>>
    BY <2>1 DEF OnTaskEnqueued
  <2>3. Startable(w, up, active[w])
    BY <1>1, <2>1 DEF Startable
  <2>4. Handled(x, e) = Filled(x, up, w, active[w], tasks, workers)
    BY <1>2, <2>1 DEF AfterTaskEnqueued
  <2> HIDE DEF up, w
  <2> QED
    BY <1>1, <2>1, <2>2, <2>3, <2>4, DispatchSeen DEF x
<1>5. CASE e.kind = "WORKER_TASK_COMPLETED"
  <2> DEFINE t == e.subject
             w == tasks[t].worker
             up == workers[w] = "UP"
             running == RemoveFirst(active[w], t)
             known == [tasks EXCEPT ![t].status = "COMPLETED", ![t].completion = NoEvent]
  <2>1. t \in DOMAIN tasks /\ OnTaskCompleted(t, s) /\ w \in Workers /\ Handled(x, e) = AfterTaskCompleted(x, t)
    BY <1>1, <1>5, TaskFacts DEF Handle, SubjectExists, Handled
  <2>2. CASE tasks[t].status # "RUNNING" /\ Ignored(s)
    BY <1>2, <1>3, <2>1, <2>2 DEF AfterTaskCompleted, x
  <2>3. CASE /\ tasks[t].status = "RUNNING" /\ Dispatch(w, s, up, running, known)
             /\ UNCHANGED <<workers, replicas, transfers, callers, raised>>
    <3>1. t \in ToSet(active[w]) /\ Once(active[w])
      BY <1>1, <2>1, <2>3 DEF Slots, Lists
    <3>2. running \in Seq(DOMAIN tasks) /\ Len(running) < Len(active[w]) /\ Len(running) \in Nat
      BY <1>1, <2>1, <3>1, OnceRemove
    <3>3. Len(running) <= WorkerCapacity[w]
      <4> HIDE DEF running, w
      <4> QED
        BY <1>1, <2>1, <3>2
    <3>4. up
      <4>1. active[w] # << >>
        BY <3>1 DEF ToSet
      <4> QED
        BY <1>1, <2>1, <4>1
    <3>5. Startable(w, up, running)
      <4> HIDE DEF running, w
      <4> QED
        BY <3>2, <3>3, <3>4 DEF Startable
    <3>6. Handled(x, e) = Filled(x, up, w, running, known, workers)
      BY <1>2, <2>1, <2>3 DEF AfterTaskCompleted
    <3> HIDE DEF running, known, up, w, t
    <3>7. Seen' = Filled(x, up, w, running, known, workers')
      <4>1. /\ w \in Workers /\ Dispatch(w, s, up, running, known)
            /\ UNCHANGED <<replicas, transfers, callers, raised>>
        BY <2>1, <2>3
      <4> QED
        BY <1>1, <3>5, <4>1, DispatchSeen DEF x
    <3> QED
      BY <2>3, <3>6, <3>7 DEF x
  <2> QED
    BY <2>1, <2>2, <2>3 DEF OnTaskCompleted
<1>6. CASE e.kind = "WORKER_RECOVERED"
  <2> DEFINE w == e.subject
             ups == [workers EXCEPT ![w] = "UP"]
  <2>1. w \in Workers /\ OnWorkerRecovered(w, s) /\ Handled(x, e) = AfterWorkerRecovered(x, w)
    BY <1>6 DEF Handle, SubjectExists, Handled
  <2>2. CASE workers[w] = "UP" /\ Ignored(s)
    BY <1>2, <1>3, <2>1, <2>2 DEF AfterWorkerRecovered, x
  <2>3. CASE /\ workers[w] = "DOWN" /\ workers' = ups /\ Dispatch(w, s, TRUE, active[w], tasks)
             /\ UNCHANGED <<replicas, transfers, callers, raised>>
    <3> DEFINE up == TRUE
    <3>1. Startable(w, up, active[w]) /\ Dispatch(w, s, up, active[w], tasks)
      BY <1>1, <2>1, <2>3 DEF Startable
    <3>2. Handled(x, e) = Filled(x, up, w, active[w], tasks, workers')
      BY <1>2, <2>1, <2>3 DEF AfterWorkerRecovered
    <3> HIDE DEF up, w, ups
    <3> QED
      BY <1>1, <2>1, <2>3, <3>1, <3>2, DispatchSeen DEF x
  <2> QED
    BY <2>1, <2>2, <2>3 DEF OnWorkerRecovered
<1> QED
  BY <1>4, <1>5, <1>6

(* The events that a handler adds without delay.                           *)
LEMMA AllAtOnceIsList ==
  ASSUME NEW now, NEW kind, NEW list, IsList(list)
  PROVE  /\ IsList(AllAtOnce(now, kind, list))
         /\ AllAtOnce(now, kind, list) \in Seq({AllAtOnce(now, kind, list)[i] : i \in DOMAIN list})
<1> DEFINE f == AllAtOnce(now, kind, list)
           S == {f[i] : i \in DOMAIN list}
<1>1. f \in [1..Len(list) -> S]
  BY DEF AllAtOnce, IsList
<1> HIDE DEF f, S
<1>2. f \in Seq(S) /\ Len(f) = Len(list) /\ DOMAIN f = 1..Len(list)
  BY <1>1, SeqIntro DEF IsList
<1> QED
  BY <1>2 DEF IsList, f, S

LEMMA ThreeLists ==
  ASSUME NEW S, NEW T, NEW U, NEW p \in Seq(S), NEW q \in Seq(T), NEW r \in Seq(U)
  PROVE  IsList(p \o q \o r)
<1>1. p \in Seq(S \cup T \cup U) /\ q \in Seq(S \cup T \cup U) /\ r \in Seq(S \cup T \cup U)
  BY SeqGrows
<1>2. p \o q \o r \in Seq(S \cup T \cup U)
  BY <1>1
<1> QED
  BY <1>2 DEF IsList

LEMMA AscendingIsList ==
  ASSUME NEW n \in Nat, NEW ids \in SUBSET (1..n)
  PROVE  IsList(Ascending(ids))
BY AscendingFacts DEF IsList

LEMMA WorkerFailedSeen ==
  ASSUME Sides, KernelInv(sim'), NEW s, KernelInv(s), NEW w \in Workers, OnWorkerFailed(w, s)
  PROVE  Seen' = AfterWorkerFailed(From(s), w)
<1> DEFINE x == From(s)
           lost == Present(w)
           broken == Touching(w)
           running == active[w]
           ends == {tasks[t].completion : t \in ToSet(active[w])}
                     \cup {replicas[r].completion : r \in Present(w)}
                     \cup {transfers[t].completion : t \in Touching(w)}
           a == AllAtOnce(s.now, "WORKER_TASK_FAILED", running)
           b == AllAtOnce(s.now, "STATE_LOST", Ascending(lost))
           c == AllAtOnce(s.now, "STATE_TRANSFER_FAILED", Ascending(broken))
           z == Cancelled(s, ends)
<1>1. /\ x.sim = Visible(s) /\ x.workers = workers /\ x.tasks = tasks /\ x.queues = queues
      /\ x.active = active /\ x.replicas = replicas /\ x.transfers = transfers
      /\ x.callers = callers /\ x.raised = raised /\ x.sim.now = s.now
  BY FromFields
<1>2. CASE workers[w] = "DOWN" /\ Ignored(s)
  <2>1. Seen' = x
    BY <1>2, IgnoredSeen
  <2> HIDE DEF x
  <2> QED
    BY <1>1, <1>2, <2>1 DEF AfterWorkerFailed, x
<1>3. CASE /\ workers[w] = "UP"
           /\ workers' = [workers EXCEPT ![w] = "DOWN"]
           /\ active' = [active EXCEPT ![w] = << >>]
           /\ tasks' = FailedTasksOf(tasks, running)
           /\ replicas' = LostOf(replicas, lost)
           /\ transfers' = FailedOf(transfers, broken)
           /\ sim' = Scheduled(z, a \o b \o c)
           /\ UNCHANGED <<queues, callers, raised>>
  <2>1. IsList(a \o b \o c)
    <3>1. IsList(running)
      BY TaskFacts DEF Sides, TaskSide, IsList
    <3>2. IsList(Ascending(lost)) /\ IsList(Ascending(broken))
      <4>1. lost \in SUBSET (1..Len(replicas)) /\ Len(replicas) \in Nat
        BY MoveFacts DEF Present, Sides, MoveSide
      <4>2. broken \in SUBSET (1..Len(transfers)) /\ Len(transfers) \in Nat
        BY MoveFacts DEF Touching, Sides, MoveSide
      <4> HIDE DEF lost, broken
      <4> QED
        BY <4>1, <4>2, AscendingIsList
    <3> HIDE DEF lost, broken, running
    <3>3. /\ a \in Seq({a[i] : i \in DOMAIN running}) /\ b \in Seq({b[i] : i \in DOMAIN Ascending(lost)})
          /\ c \in Seq({c[i] : i \in DOMAIN Ascending(broken)})
      BY <3>1, <3>2, AllAtOnceIsList
    <3> HIDE DEF a, b, c
    <3> QED
      BY <3>3, ThreeLists
  <2>2. KernelInv(z) /\ Visible(z) = Without(Visible(s), ends)
    <3> HIDE DEF ends
    <3> QED
      BY CancelledFields, KernelIsShaped, VisibleWithout
  <2>3. Visible(sim') = Scheduled(Without(Visible(s), ends), a \o b \o c)
    <3> DEFINE orders == a \o b \o c
    <3> HIDE DEF orders, ends, z
    <3>1. Visible(sim') = Scheduled(Visible(z), orders)
      BY <1>3, <2>1, <2>2, ScheduledIsSeen DEF orders
    <3> QED
      BY <2>2, <3>1 DEF orders
  <2>4. /\ PresentOf(replicas, w) = lost /\ TouchingOf(transfers, w) = broken
        /\ CompletionsOf(tasks, ToSet(running)) \cup CompletionsOf(replicas, lost)
             \cup CompletionsOf(transfers, broken) = ends
    BY DEF PresentOf, Present, TouchingOf, Touching, UnfinishedOf, Unfinished, SourceOf, Source,
           DestinationOf, Destination, CompletionsOf
  <2> HIDE DEF x, lost, broken, running, ends, a, b, c, z
  <2>5. AfterWorkerFailed(x, w) =
          Scene(Scheduled(Without(x.sim, ends), a \o b \o c), [workers EXCEPT ![w] = "DOWN"],
                FailedTasksOf(tasks, running), queues, [active EXCEPT ![w] = << >>],
                LostOf(replicas, lost), FailedOf(transfers, broken), callers, raised)
    <3>1. workers[w] # "DOWN"
      BY <1>3
    <3>2. active[w] = running
      BY DEF running
    <3> QED
      BY <1>1, <2>4, <3>1, <3>2 DEF AfterWorkerFailed, a, b, c
  <2>6. Seen' = Scene(Visible(sim'), workers', tasks', queues, active', replicas', transfers', callers, raised)
    BY <1>3, SeenIs
  <2> QED
    BY <1>1, <1>3, <2>3, <2>5, <2>6 DEF x
<1>4. /\ [i \in DOMAIN active[w] |-> AtOnce(s, "WORKER_TASK_FAILED", active[w][i])] = a
      /\ [i \in DOMAIN Ascending(lost) |-> AtOnce(s, "STATE_LOST", Ascending(lost)[i])] = b
      /\ [i \in DOMAIN Ascending(broken) |-> AtOnce(s, "STATE_TRANSFER_FAILED", Ascending(broken)[i])] = c
  BY Zenon DEF AllAtOnce, AtOnce
<1>5. Failed(broken) = FailedOf(transfers, broken)
  BY DEF Failed, FailedOf
<1>6. \/ workers[w] = "DOWN" /\ Ignored(s)
      \/ /\ workers[w] = "UP"
         /\ workers' = [workers EXCEPT ![w] = "DOWN"]
         /\ active' = [active EXCEPT ![w] = << >>]
         /\ tasks' = FailedTasksOf(tasks, running)
         /\ replicas' = LostOf(replicas, lost)
         /\ transfers' = Failed(broken)
         /\ sim' = Scheduled(z, [i \in DOMAIN active[w] |-> AtOnce(s, "WORKER_TASK_FAILED", active[w][i])]
                       \o [i \in DOMAIN Ascending(lost) |-> AtOnce(s, "STATE_LOST", Ascending(lost)[i])]
                       \o [i \in DOMAIN Ascending(broken) |->
                             AtOnce(s, "STATE_TRANSFER_FAILED", Ascending(broken)[i])])
         /\ UNCHANGED <<queues, callers, raised>>
  BY Zenon DEF OnWorkerFailed, FailedTasksOf, LostOf
<1> QED
  BY <1>2, <1>3, <1>4, <1>5, <1>6, Zenon

(* One event more.                                                         *)
LEMMA AddedIsSeen ==
  ASSUME KernelInv(sim'), NEW s, KernelInv(s), NEW order, sim' = Scheduled(s, <<order>>)
  PROVE  Visible(sim') = Adding(Visible(s), order)
BY OneIsList, ScheduledIsSeen DEF Adding

LEMMA LostSeen ==
  ASSUME KernelInv(sim'), NEW s, KernelInv(s), NEW r, LostWithWorker(r, s)
  PROVE  Seen' = AfterLost(From(s), r)
<1> DEFINE x == From(s)
<1>1. /\ x.sim = Visible(s) /\ x.workers = workers /\ x.tasks = tasks /\ x.queues = queues
      /\ x.active = active /\ x.replicas = replicas /\ x.transfers = transfers
      /\ x.callers = callers /\ x.raised = raised /\ x.sim.now = s.now
  BY FromFields
<1> HIDE DEF x
<1>2. Visible(sim') = Adding(x.sim, Now(x, "STATE_LOST", r))
  <2>1. sim' = Scheduled(s, <<AtOnce(s, "STATE_LOST", r)>>)
    BY DEF LostWithWorker
  <2>2. Now(x, "STATE_LOST", r) = AtOnce(s, "STATE_LOST", r)
    BY <1>1 DEF Now, AtOnce
  <2> QED
    BY <1>1, <2>1, <2>2, AddedIsSeen
<1>3. /\ replicas' = [replicas EXCEPT ![r].status = "LOST", ![r].completion = NoEvent]
      /\ UNCHANGED <<workers, tasks, queues, active, transfers, callers, raised>>
  BY DEF LostWithWorker, taskVars
<1>4. AfterLost(x, r) =
        Scene(Adding(x.sim, Now(x, "STATE_LOST", r)), workers, tasks, queues, active,
              [replicas EXCEPT ![r].status = "LOST", ![r].completion = NoEvent], transfers, callers, raised)
  BY <1>1 DEF AfterLost, WithMoves
<1> QED
  BY <1>2, <1>3, <1>4, SeenIs DEF x

LEMMA MaterializingSeen ==
  ASSUME KernelInv(sim'), NEW s, KernelInv(s), NEW r
  PROVE  /\ OnMaterializationStarted(r, s) => Seen' = AfterMaterializationStarted(From(s), r)
         /\ OnStateMaterialized(r, s) => Seen' = AfterStateMaterialized(From(s), r)
<1> DEFINE x == From(s)
           completion == Order("STATE_MATERIALIZED", s.now + replicas[r].duration, MaterializeComplete(r), r)
<1>1. /\ x.sim = Visible(s) /\ x.workers = workers /\ x.tasks = tasks /\ x.queues = queues
      /\ x.active = active /\ x.replicas = replicas /\ x.transfers = transfers
      /\ x.callers = callers /\ x.raised = raised
      /\ x.sim.now = s.now /\ x.sim.known = s.known /\ x.sim.next = s.next
  BY FromFields
<1>2. /\ Ignored(s) => Seen' = x
      /\ LostWithWorker(r, s) => Seen' = AfterLost(x, r)
  BY IgnoredSeen, LostSeen
<1> HIDE DEF x
<1>3. ASSUME OnMaterializationStarted(r, s)
      PROVE  Seen' = AfterMaterializationStarted(x, r)
  <2> DEFINE materializing == replicas[r].status = "MATERIALIZING"
             up == workers[replicas[r].location] = "UP"
             down == workers[replicas[r].location] = "DOWN"
  <2>1. CASE ~materializing /\ Ignored(s)
    BY <1>1, <1>2, <2>1 DEF AfterMaterializationStarted
  <2>2. CASE materializing /\ down /\ LostWithWorker(r, s)
    BY <1>1, <1>2, <2>2 DEF AfterMaterializationStarted
  <2>3. Schedulable(x.sim, completion) <=> Schedulable(s, completion)
    BY <1>1 DEF Schedulable
  <2>4. CASE /\ materializing /\ up /\ Schedulable(s, completion)
             /\ sim' = Scheduled(s, <<completion>>)
             /\ replicas' = [replicas EXCEPT ![r].completion = MaterializeComplete(r)]
             /\ UNCHANGED <<workers, tasks, queues, active, transfers, callers, raised>>
    <3>1. AfterMaterializationStarted(x, r) =
            Scene(Adding(x.sim, completion), workers, tasks, queues, active,
                  [replicas EXCEPT ![r].completion = MaterializeComplete(r)], transfers, callers, raised)
      BY <1>1, <2>3, <2>4 DEF AfterMaterializationStarted, WithMoves
    <3> HIDE DEF completion
    <3>2. Visible(sim') = Adding(x.sim, completion)
      BY <1>1, <2>4, AddedIsSeen
    <3> QED
      BY <2>4, <3>1, <3>2, SeenIs
  <2>5. CASE /\ materializing /\ up /\ ~Schedulable(s, completion)
             /\ sim' = s /\ raised' = TRUE
             /\ UNCHANGED <<workers, tasks, queues, active, replicas, transfers, callers>>
    <3>1. AfterMaterializationStarted(x, r) =
            Scene(x.sim, workers, tasks, queues, active, replicas, transfers, callers, TRUE)
      BY <1>1, <2>3, <2>5 DEF AfterMaterializationStarted
    <3> QED
      BY <1>1, <2>5, <3>1, SeenIs
  <2> QED
    BY <1>3, <2>1, <2>2, <2>4, <2>5 DEF OnMaterializationStarted, taskVars
<1>4. ASSUME OnStateMaterialized(r, s)
      PROVE  Seen' = AfterStateMaterialized(x, r)
  <2>1. CASE replicas[r].status # "MATERIALIZING" /\ Ignored(s)
    BY <1>1, <1>2, <2>1 DEF AfterStateMaterialized
  <2>2. CASE /\ replicas[r].status = "MATERIALIZING" /\ workers[replicas[r].location] = "DOWN"
             /\ LostWithWorker(r, s)
    BY <1>1, <1>2, <2>2 DEF AfterStateMaterialized
  <2>3. CASE /\ replicas[r].status = "MATERIALIZING" /\ workers[replicas[r].location] = "UP"
             /\ replicas' = [replicas EXCEPT ![r].status = "AVAILABLE", ![r].completion = NoEvent]
             /\ sim' = s
             /\ UNCHANGED <<workers, tasks, queues, active, transfers, callers, raised>>
    <3>1. AfterStateMaterialized(x, r) =
            Scene(x.sim, workers, tasks, queues, active,
                  [replicas EXCEPT ![r].status = "AVAILABLE", ![r].completion = NoEvent],
                  transfers, callers, raised)
      BY <1>1, <2>3 DEF AfterStateMaterialized, WithMoves
    <3> QED
      BY <1>1, <2>3, <3>1, SeenIs
  <2> QED
    BY <1>4, <2>1, <2>2, <2>3 DEF OnStateMaterialized, taskVars
<1> QED
  BY <1>3, <1>4 DEF x

LEMMA TransfersSeen ==
  ASSUME KernelInv(sim'), NEW s, KernelInv(s), NEW t
  PROVE  /\ OnTransferStarted(t, s) => Seen' = AfterTransferStarted(From(s), t)
         /\ OnTransferCompleted(t, s) => Seen' = AfterTransferCompleted(From(s), t)
<1> DEFINE x == From(s)
<1>1. /\ x.sim = Visible(s) /\ x.workers = workers /\ x.tasks = tasks /\ x.queues = queues
      /\ x.active = active /\ x.replicas = replicas /\ x.transfers = transfers
      /\ x.callers = callers /\ x.raised = raised /\ x.sim.now = s.now
  BY FromFields
<1>2. Ignored(s) => Seen' = x
  BY IgnoredSeen
<1> HIDE DEF x
<1>3. SoundIn(x, t) <=> Sound(t)
  BY <1>1 DEF SoundIn, Sound, SourceOf, Source, DestinationOf, Destination
<1>4. ASSUME FailTransfer(t, s)
      PROVE  Seen' = AfterTransferFailed(x, t)
  <2> DEFINE order == AtOnce(s, "STATE_TRANSFER_FAILED", t)
  <2>1. /\ transfers' = FailedOf(transfers, {t}) /\ sim' = Scheduled(s, <<order>>)
        /\ UNCHANGED <<workers, tasks, queues, active, replicas, callers, raised>>
    BY <1>4 DEF FailTransfer, Failed, FailedOf, taskVars
  <2>2. Now(x, "STATE_TRANSFER_FAILED", t) = order
    BY <1>1 DEF Now, AtOnce
  <2> HIDE DEF order
  <2>3. Visible(sim') = Adding(x.sim, order)
    BY <1>1, <2>1, AddedIsSeen
  <2>4. AfterTransferFailed(x, t) =
          Scene(Adding(x.sim, order), workers, tasks, queues, active, replicas,
                FailedOf(transfers, {t}), callers, raised)
    BY <1>1, <2>2 DEF AfterTransferFailed, WithMoves
  <2> QED
    BY <2>1, <2>3, <2>4, SeenIs
<1>5. ASSUME OnTransferStarted(t, s)
      PROVE  Seen' = AfterTransferStarted(x, t)
  <2> DEFINE order == Order("STATE_TRANSFER_COMPLETED", s.now + Links[transfers[t].link].duration,
                            TransferComplete(t), t)
             scheduled == transfers[t].status = "SCHEDULED"
  <2>1. CASE ~scheduled /\ Ignored(s)
    BY <1>1, <1>2, <2>1 DEF AfterTransferStarted
  <2>2. CASE scheduled /\ ~Sound(t) /\ FailTransfer(t, s)
    BY <1>1, <1>3, <1>4, <2>2 DEF AfterTransferStarted
  <2>3. CASE /\ scheduled /\ Sound(t) /\ sim' = Scheduled(s, <<order>>)
             /\ transfers' = [transfers EXCEPT ![t].status = "RUNNING", ![t].completion = TransferComplete(t)]
             /\ UNCHANGED <<workers, tasks, queues, active, replicas, callers, raised>>
    <3>1. AfterTransferStarted(x, t) =
            Scene(Adding(x.sim, order), workers, tasks, queues, active, replicas,
                  [transfers EXCEPT ![t].status = "RUNNING", ![t].completion = TransferComplete(t)],
                  callers, raised)
      BY <1>1, <1>3, <2>3 DEF AfterTransferStarted, WithMoves
    <3> HIDE DEF order
    <3>2. Visible(sim') = Adding(x.sim, order)
      BY <1>1, <2>3, AddedIsSeen
    <3> QED
      BY <2>3, <3>1, <3>2, SeenIs
  <2> QED
    BY <1>5, <2>1, <2>2, <2>3 DEF OnTransferStarted, taskVars
<1>6. ASSUME OnTransferCompleted(t, s)
      PROVE  Seen' = AfterTransferCompleted(x, t)
  <2> DEFINE order == AtOnce(s, "STATE_MOVED", transfers[t].replica)
             running == transfers[t].status = "RUNNING"
  <2>1. CASE ~running /\ Ignored(s)
    BY <1>1, <1>2, <2>1 DEF AfterTransferCompleted
  <2>2. CASE running /\ ~Sound(t) /\ FailTransfer(t, s)
    BY <1>1, <1>3, <1>4, <2>2 DEF AfterTransferCompleted
  <2>3. CASE /\ running /\ Sound(t) /\ sim' = Scheduled(s, <<order>>)
             /\ replicas' = [replicas EXCEPT ![transfers[t].replica].location = Destination(t)]
             /\ transfers' = [transfers EXCEPT ![t].status = "COMPLETED", ![t].completion = NoEvent]
             /\ UNCHANGED <<workers, tasks, queues, active, callers, raised>>
    <3>1. Now(x, "STATE_MOVED", transfers[t].replica) = order
      BY <1>1 DEF Now, AtOnce
    <3>2. DestinationOf(transfers, t) = Destination(t)
      BY DEF DestinationOf, Destination
    <3> HIDE DEF order
    <3>3. AfterTransferCompleted(x, t) =
            Scene(Adding(x.sim, order), workers, tasks, queues, active,
                  [replicas EXCEPT ![transfers[t].replica].location = Destination(t)],
                  [transfers EXCEPT ![t].status = "COMPLETED", ![t].completion = NoEvent], callers, raised)
      BY <1>1, <1>3, <2>3, <3>1, <3>2 DEF AfterTransferCompleted, WithMoves
    <3>4. Visible(sim') = Adding(x.sim, order)
      BY <1>1, <2>3, AddedIsSeen
    <3> QED
      BY <2>3, <3>3, <3>4, SeenIs
  <2> QED
    BY <1>6, <2>1, <2>2, <2>3 DEF OnTransferCompleted, taskVars
<1> QED
  BY <1>5, <1>6 DEF x

LEMMA StateGoneSeen ==
  ASSUME Sides, KernelInv(sim'), NEW s, KernelInv(s), NEW r, NEW status, OnStateGone(r, s, status)
  PROVE  Seen' = AfterStateGone(From(s), r, status)
<1> DEFINE x == From(s)
           moving == {t \in DOMAIN transfers : transfers[t].replica = r /\ Unfinished(t)}
           orders == AllAtOnce(s.now, "STATE_TRANSFER_FAILED", Ascending(moving))
           ends == {transfers[t].completion : t \in moving} \cup {replicas[r].completion}
           z == Scheduled(s, orders)
           gone == [replicas EXCEPT ![r].status = status, ![r].completion = NoEvent]
<1>1. /\ x.sim = Visible(s) /\ x.workers = workers /\ x.tasks = tasks /\ x.queues = queues
      /\ x.active = active /\ x.replicas = replicas /\ x.transfers = transfers
      /\ x.callers = callers /\ x.raised = raised /\ x.sim.now = s.now
  BY FromFields
<1>2. CASE replicas[r].status = "LOST" /\ Ignored(s)
  <2>1. Seen' = x
    BY <1>2, IgnoredSeen
  <2> HIDE DEF x
  <2> QED
    BY <1>1, <1>2, <2>1 DEF AfterStateGone, x
<1>3. CASE /\ replicas[r].status # "LOST"
           /\ replicas' = gone /\ transfers' = FailedOf(transfers, moving)
           /\ sim' = Cancelled(z, ends)
           /\ UNCHANGED <<workers, tasks, queues, active, callers, raised>>
  <2>1. IsList(orders)
    <3>1. moving \in SUBSET (1..Len(transfers)) /\ Len(transfers) \in Nat
      BY MoveFacts DEF Sides, MoveSide
    <3> HIDE DEF moving
    <3>2. IsList(Ascending(moving))
      BY <3>1, AscendingIsList
    <3> QED
      BY <3>2, AllAtOnceIsList
  <2>2. \A e, f \in z.queue : e.id = f.id => e = f
    <3>1. sim'.queue = z.queue
      <4> HIDE DEF z, ends
      <4>1. sim' = [z EXCEPT !.cancelled = z.cancelled \cup (ends \cap Ids(z.queue))]
        BY <1>3 DEF Cancelled
      <4>2. DOMAIN sim' = DOMAIN z
        BY <4>1
      <4>3. "queue" \in DOMAIN sim'
        BY DEF KernelInv, KernelTypes
      <4> QED
        BY <4>1, <4>2, <4>3
    <3> QED
      BY <3>1 DEF KernelInv, HeapInv
  <2>3. Shaped(z) /\ Visible(z) = Scheduled(Visible(s), orders)
    <3> HIDE DEF orders
    <3> QED
      BY <2>1, <2>2, VisibleScheduled
  <2>4. Visible(sim') = Without(Scheduled(Visible(s), orders), ends)
    <3> HIDE DEF z, ends, orders
    <3> QED
      BY <1>3, <2>3, VisibleWithout
  <2>5. MovingOf(transfers, r) = moving /\ CompletionsOf(transfers, moving) \cup {replicas[r].completion} = ends
    BY DEF MovingOf, UnfinishedOf, Unfinished, CompletionsOf
  <2> HIDE DEF x, moving, orders, ends, z
  <2>6. AfterStateGone(x, r, status) =
          Scene(Without(Scheduled(x.sim, orders), ends), workers, tasks, queues, active,
                gone, FailedOf(transfers, moving), callers, raised)
    BY <1>1, <1>3, <2>5 DEF AfterStateGone, WithMoves, orders
  <2> QED
    BY <1>1, <1>3, <2>4, <2>6, SeenIs DEF x
<1>4. [i \in DOMAIN Ascending(moving) |-> AtOnce(s, "STATE_TRANSFER_FAILED", Ascending(moving)[i])] = orders
  BY Zenon DEF AllAtOnce, AtOnce
<1>5. Failed(moving) = FailedOf(transfers, moving)
  BY DEF Failed, FailedOf
<1>6. \/ replicas[r].status = "LOST" /\ Ignored(s)
      \/ /\ replicas[r].status # "LOST"
         /\ replicas' = gone
         /\ transfers' = Failed(moving)
         /\ sim' = Cancelled(Scheduled(s, [i \in DOMAIN Ascending(moving) |->
                                             AtOnce(s, "STATE_TRANSFER_FAILED", Ascending(moving)[i])]), ends)
         /\ UNCHANGED <<workers, tasks, queues, active, callers, raised>>
  BY Zenon DEF OnStateGone, taskVars
<1> QED
  BY <1>2, <1>3, <1>4, <1>5, <1>6, Zenon

LEMMA HandleSeen ==
  ASSUME Sides, KernelInv(sim'), NEW s, KernelInv(s), NEW e, SubjectExists(e), Handle(e, s)
  PROVE  Seen' = Handled(From(s), e)
<1> DEFINE k == e.kind
<1>1. CASE k \in {"WORKER_TASK_ENQUEUED", "WORKER_TASK_COMPLETED", "WORKER_RECOVERED"}
  BY <1>1, TasksSeen
<1>2. CASE k = "WORKER_FAILED"
  <2>1. e.subject \in Workers /\ OnWorkerFailed(e.subject, s)
    BY <1>2 DEF SubjectExists, Handle
  <2>2. Handled(From(s), e) = AfterWorkerFailed(From(s), e.subject)
    BY <1>2 DEF Handled
  <2> QED
    BY <2>1, <2>2, WorkerFailedSeen
<1>3. CASE k = "STATE_MATERIALIZATION_STARTED"
  <2>1. OnMaterializationStarted(e.subject, s)
    BY <1>3 DEF Handle
  <2>2. Handled(From(s), e) = AfterMaterializationStarted(From(s), e.subject)
    BY <1>3 DEF Handled
  <2> QED
    BY <2>1, <2>2, MaterializingSeen
<1>4. CASE k = "STATE_MATERIALIZED"
  <2>1. OnStateMaterialized(e.subject, s)
    BY <1>4 DEF Handle
  <2>2. Handled(From(s), e) = AfterStateMaterialized(From(s), e.subject)
    BY <1>4 DEF Handled
  <2> QED
    BY <2>1, <2>2, MaterializingSeen
<1>5. CASE k = "STATE_TRANSFER_STARTED"
  <2>1. OnTransferStarted(e.subject, s)
    BY <1>5 DEF Handle
  <2>2. Handled(From(s), e) = AfterTransferStarted(From(s), e.subject)
    BY <1>5 DEF Handled
  <2> QED
    BY <2>1, <2>2, TransfersSeen
<1>6. CASE k = "STATE_TRANSFER_COMPLETED"
  <2>1. OnTransferCompleted(e.subject, s)
    BY <1>6 DEF Handle
  <2>2. Handled(From(s), e) = AfterTransferCompleted(From(s), e.subject)
    BY <1>6 DEF Handled
  <2> QED
    BY <2>1, <2>2, TransfersSeen
<1>7. CASE k = "STATE_EVICTED"
  <2>1. OnStateGone(e.subject, s, "EVICTED")
    BY <1>7 DEF Handle
  <2>2. Handled(From(s), e) = AfterStateGone(From(s), e.subject, "EVICTED")
    BY <1>7 DEF Handled
  <2> QED
    BY <2>1, <2>2, StateGoneSeen
<1>8. CASE k = "STATE_LOST"
  <2>1. OnStateGone(e.subject, s, "LOST")
    BY <1>8 DEF Handle
  <2>2. Handled(From(s), e) = AfterStateGone(From(s), e.subject, "LOST")
    BY <1>8 DEF Handled
  <2> QED
    BY <2>1, <2>2, StateGoneSeen
<1>9. CASE k \notin {"WORKER_TASK_ENQUEUED", "WORKER_TASK_COMPLETED", "WORKER_RECOVERED", "WORKER_FAILED",
                     "STATE_MATERIALIZATION_STARTED", "STATE_MATERIALIZED", "STATE_TRANSFER_STARTED",
                     "STATE_TRANSFER_COMPLETED", "STATE_EVICTED", "STATE_LOST"}
  <2>1. Ignored(s)
    BY <1>9 DEF Handle
  <2>2. Handled(From(s), e) = From(s)
    BY <1>9 DEF Handled
  <2> QED
    BY <2>1, <2>2, IgnoredSeen
<1> QED
  BY <1>1, <1>2, <1>3, <1>4, <1>5, <1>6, <1>7, <1>8, <1>9

---------------------------------------------------------------------------
(* run executes one event of what is seen, and time alone changes nothing. *)
LEMMA RunSeen ==
  ASSUME ResourceInv, UNCHANGED records, RunNext
  PROVE  \E e \in Pending(sim) :
           /\ IsEarliest(Seen.sim, e) /\ Seen' = Ran(Seen, e)
           /\ e.time <= sim'.now /\ sim.now <= sim'.now /\ sim'.trace = Append(sim.trace, e)
<1>1. PICK e \in sim.queue : IsEarliest(sim, e) /\ Handle(e, Popped(sim, e))
  BY DEF RunNext
<1> DEFINE s == Popped(sim, e)
<1>2. Sides /\ KernelInv(sim)
  BY DEF ResourceInv, Sides, EventsInv
<1>3. Moved(sim, s, {e}, {}, {})
  BY <1>1, <1>2, MovedPop
<1>4. e \in Pending(sim) /\ SubjectExists(e)
  BY <1>1, <1>2 DEF IsEarliest, Sides, EventsInv, SubjectsExist, History
<1>5. Visible(s) = Taken(Visible(sim), e)
  BY <1>1, <1>2, VisibleTaken
<1>6. Handle(e, s)
  BY <1>1
<1> HIDE DEF s
<1>7. KernelInv(s)
  BY <1>3 DEF Moved
<1>8. ResourceInv'
  BY StepKeepsInvariant DEF AnyStep
<1>9. KernelInv(sim')
  BY <1>8 DEF ResourceInv, EventsInv
<1>10. Seen' = Handled(From(s), e)
  BY <1>2, <1>4, <1>6, <1>7, <1>9, HandleSeen
<1>11. Seen' = Ran(Seen, e)
  <2>1. /\ Seen.sim = Visible(sim) /\ Seen.workers = workers /\ Seen.tasks = tasks /\ Seen.queues = queues
        /\ Seen.active = active /\ Seen.replicas = replicas /\ Seen.transfers = transfers
        /\ Seen.callers = callers /\ Seen.raised = raised
    BY <1>2, SeenIs, FromFields
  <2>2. WithSim(Seen, Taken(Seen.sim, e)) = From(s)
    BY <1>5, <2>1 DEF WithSim, From
  <2> QED
    BY <1>10, <2>2 DEF Ran
<1>12. IsEarliest(Seen.sim, e)
  BY <1>1, <1>2, SeenIs, FromFields, KernelIsShaped, VisibleFields
<1>13. e.time <= sim'.now /\ sim.now <= sim'.now /\ sim'.trace = Append(sim.trace, e)
  <2>1. PICK f \in Pending(sim) : Kept({f}) /\ Effects(f)
    BY <1>2, RunEffects
  <2>2. Kept({e})
    BY <1>3, <1>4, <1>6, <1>2, HandleStep
  <2>3. PICK gone, new : Moved(sim, sim', {e}, gone, new)
    BY <2>2 DEF Kept, Result, Advance
  <2>4. sim'.trace = Append(sim.trace, e) /\ sim.now <= sim'.now
    BY <2>3 DEF Moved
  <2>5. Len(sim.trace) + 1 \in DOMAIN sim'.trace /\ sim'.trace[Len(sim.trace) + 1] = e
    BY <1>2, <2>4, KernelFacts
  <2>6. e.time <= sim'.now
    BY <1>9, <2>5 DEF KernelInv, TraceInv
  <2> QED
    BY <2>4, <2>6
<1> QED
  BY <1>4, <1>11, <1>12, <1>13

LEMMA HandlersRaise ==
  ASSUME raised, NEW e, NEW s, Handle(e, s)
  PROVE  raised'
<1>1. \A r, t, w, status :
        /\ (Ignored(s) => raised') /\ (LostWithWorker(r, s) => raised') /\ (FailTransfer(t, s) => raised')
        /\ OnTaskEnqueued(w, s) => raised'
  BY DEF Ignored, LostWithWorker, FailTransfer, OnTaskEnqueued
<1>2. \A t, w : (OnTaskCompleted(t, s) => raised') /\ (OnWorkerRecovered(w, s) => raised')
  BY <1>1 DEF OnTaskCompleted, OnWorkerRecovered
<1>3. \A w : OnWorkerFailed(w, s) => raised'
  BY <1>1 DEF OnWorkerFailed
<1>4. \A r : OnMaterializationStarted(r, s) => raised'
  BY <1>1 DEF OnMaterializationStarted
<1>5. \A r : OnStateMaterialized(r, s) => raised'
  BY <1>1 DEF OnStateMaterialized
<1>6. \A t : (OnTransferStarted(t, s) => raised') /\ (OnTransferCompleted(t, s) => raised')
  BY <1>1 DEF OnTransferStarted, OnTransferCompleted
<1>7. \A r, status : OnStateGone(r, s, status) => raised'
  BY <1>1 DEF OnStateGone
<1> QED
  BY <1>1, <1>2, <1>3, <1>4, <1>5, <1>6, <1>7 DEF Handle

LEMMA SimFields ==
  ASSUME NEW s, NEW up, NEW ta, NEW qu, NEW ac, NEW re, NEW tr, NEW ca, NEW ra, NEW c
  PROVE  LET x == Scene(s, up, ta, qu, ac, re, tr, ca, ra) IN
         /\ WithSim(x, c) = Scene(c, up, ta, qu, ac, re, tr, ca, ra)
         /\ WithSim(x, c).sim = c /\ WithSim(x, c).raised = ra /\ WithSim(x, s) = x
<1> DEFINE x == Scene(s, up, ta, qu, ac, re, tr, ca, ra)
<1>1. /\ x.sim = s /\ x.workers = up /\ x.tasks = ta /\ x.queues = qu /\ x.active = ac
      /\ x.replicas = re /\ x.transfers = tr /\ x.callers = ca /\ x.raised = ra
  BY SceneFields
<1> HIDE DEF x
<1>2. WithSim(x, c) = Scene(c, up, ta, qu, ac, re, tr, ca, ra)
  BY <1>1 DEF WithSim
<1>3. WithSim(x, s) = Scene(s, up, ta, qu, ac, re, tr, ca, ra)
  BY <1>1 DEF WithSim
<1> QED
  BY <1>2, <1>3, SceneFields DEF x

(* Something that can be seen.                                             *)
Sight(x) ==
  \E s, up, ta, qu, ac, re, tr, ca, ra : Shaped(s) /\ x = Scene(s, up, ta, qu, ac, re, tr, ca, ra)

LEMMA AtFields ==
  ASSUME NEW x, Sight(x), NEW time
  PROVE  /\ Sight(At(x, time)) /\ At(x, time).sim.now = time
         /\ At(x, time).sim.queue = x.sim.queue /\ At(x, time).sim.cancelled = x.sim.cancelled
         /\ At(x, time).raised = x.raised
         /\ At(x, x.sim.now) = x
         /\ \A until : At(At(x, time), until) = At(x, until)
         /\ \A e : Ran(At(x, time), e) = Ran(x, e)
         /\ \A e : IsEarliest(At(x, time).sim, e) <=> IsEarliest(x.sim, e)
<1>1. PICK s, up, ta, qu, ac, re, tr, ca, ra : Shaped(s) /\ x = Scene(s, up, ta, qu, ac, re, tr, ca, ra)
  BY DEF Sight
<1> DEFINE t == [s EXCEPT !.now = time]
           y == At(x, time)
<1>2. x.sim = s /\ x.raised = ra
  BY <1>1, SceneFields
<1>3. /\ Shaped(t) /\ t.now = time /\ t.queue = s.queue /\ t.cancelled = s.cancelled
      /\ t.known = s.known /\ t.next = s.next /\ t.trace = s.trace
  <2>1. t = [now |-> time, queue |-> s.queue, cancelled |-> s.cancelled, known |-> s.known,
             next |-> s.next, trace |-> s.trace]
    BY <1>1, ChangedFields
  <2> HIDE DEF t
  <2> QED
    BY <2>1 DEF Shaped
<1>4. [s EXCEPT !.now = s.now] = s
  BY <1>1 DEF Shaped
<1>5. y = Scene(t, up, ta, qu, ac, re, tr, ca, ra)
  BY <1>1, <1>2, SimFields DEF At
<1>6. ASSUME NEW until
      PROVE  [t EXCEPT !.now = until] = [s EXCEPT !.now = until]
  <2> DEFINE u == [s EXCEPT !.now = until]
  <2>1. u = [now |-> until, queue |-> s.queue, cancelled |-> s.cancelled, known |-> s.known,
             next |-> s.next, trace |-> s.trace]
    BY <1>1, ChangedFields
  <2> HIDE DEF u, t
  <2>2. [t EXCEPT !.now = until] =
          [now |-> until, queue |-> t.queue, cancelled |-> t.cancelled, known |-> t.known,
           next |-> t.next, trace |-> t.trace]
    BY <1>3, ChangedFields
  <2>3. [t EXCEPT !.now = until] = u
    BY <1>3, <2>1, <2>2
  <2> QED
    BY <2>3 DEF u
<1>7. ASSUME NEW e
      PROVE  Taken(t, e) = Taken(s, e)
  <2>1. Shaped(s) /\ Shaped(t)
    BY <1>1, <1>3
  <2> HIDE DEF t
  <2>2. Taken(s, e) = [now |-> e.time, queue |-> s.queue \ {e}, cancelled |-> s.cancelled, known |-> s.known,
                       next |-> s.next, trace |-> Append(s.trace, e)]
    BY <2>1, TakenFields
  <2>3. Taken(t, e) = [now |-> e.time, queue |-> t.queue \ {e}, cancelled |-> t.cancelled, known |-> t.known,
                       next |-> t.next, trace |-> Append(t.trace, e)]
    BY <2>1, TakenFields
  <2> QED
    BY <1>3, <2>2, <2>3
<1> HIDE DEF t
<1>8. y.sim = t /\ y.raised = ra
  BY <1>5, SceneFields
<1>9. Sight(y)
  BY <1>3, <1>5 DEF Sight
<1>10. At(x, x.sim.now) = x
  BY <1>1, <1>2, <1>4, SimFields DEF At
<1>11. ASSUME NEW until
       PROVE  At(y, until) = At(x, until)
  <2>1. At(y, until) = Scene([t EXCEPT !.now = until], up, ta, qu, ac, re, tr, ca, ra)
    BY <1>5, <1>8, SimFields DEF At
  <2>2. At(x, until) = Scene([s EXCEPT !.now = until], up, ta, qu, ac, re, tr, ca, ra)
    BY <1>1, <1>2, SimFields DEF At
  <2> QED
    BY <1>6, <2>1, <2>2
<1>12. ASSUME NEW e
       PROVE  Ran(y, e) = Ran(x, e)
  <2>1. WithSim(y, Taken(y.sim, e)) = Scene(Taken(t, e), up, ta, qu, ac, re, tr, ca, ra)
    BY <1>5, <1>8, SimFields
  <2>2. WithSim(x, Taken(x.sim, e)) = Scene(Taken(s, e), up, ta, qu, ac, re, tr, ca, ra)
    BY <1>1, <1>2, SimFields
  <2> QED
    BY <1>7, <2>1, <2>2 DEF Ran
<1>13. \A e : IsEarliest(y.sim, e) <=> IsEarliest(x.sim, e)
  BY <1>2, <1>3, <1>8 DEF IsEarliest, Pending
<1> HIDE DEF y
<1>14. \A until : At(y, until) = At(x, until)
  BY <1>11
<1>15. \A e : Ran(y, e) = Ran(x, e)
  BY <1>12
<1> QED
  BY <1>2, <1>3, <1>8, <1>9, <1>10, <1>13, <1>14, <1>15 DEF y

LEMMA SeenSight ==
  ASSUME KernelInv(sim)
  PROVE  /\ Sight(Seen) /\ Seen.sim = Visible(sim) /\ Seen.sim.now = sim.now /\ Seen.sim.queue = Pending(sim)
         /\ Seen.sim.next = sim.next /\ Seen.raised = raised /\ Seen.replicas = replicas
<1>1. Shaped(Visible(sim))
  BY KernelIsShaped, VisibleFields
<1> QED
  BY <1>1, SeenIs, FromFields DEF Sight, From

LEMMA WaitSeen ==
  ASSUME KernelInv(sim), NEW until, sim' = AtHorizon(sim, until),
         UNCHANGED <<taskVars, workers, replicas, transfers, callers, raised>>
  PROVE  Seen' = At(Seen, until) /\ sim'.now = until /\ sim'.trace = sim.trace
<1>1. Visible(sim') = [Visible(sim) EXCEPT !.now = until]
  BY KernelIsShaped, VisibleAt
<1>2. Seen = Scene(Visible(sim), workers, tasks, queues, active, replicas, transfers, callers, raised)
  BY SeenIs DEF From
<1>3. Seen.sim = Visible(sim)
  BY SeenSight
<1>4. At(Seen, until) =
        Scene([Visible(sim) EXCEPT !.now = until], workers, tasks, queues, active, replicas, transfers,
              callers, raised)
  BY <1>2, <1>3, SimFields DEF At
<1>5. Seen' = At(Seen, until)
  BY <1>1, <1>4, SeenIs DEF taskVars
<1>6. sim'.now = until /\ sim'.trace = sim.trace
  BY DEF AtHorizon, KernelInv, KernelTypes
<1> QED
  BY <1>5, <1>6

---------------------------------------------------------------------------
(* What a fault makes of what is seen, and that its entry makes the same   *)
(* of the same.                                                            *)
Replaced(class, e, at, cancelled, anchor) ==
  Records(Seen, class, e.id, e.time, at, {CopyId(e, Len(records))}, cancelled, anchor)
Dropped(e) == Records(Seen, "DELIVERY_DROP", e.id, e.time, e.time, {}, {e.id}, NoAnchor)
Passed(class, target) ==
  Records(Seen, class, target, Seen.sim.now, Seen.sim.now, {<<"event", Seen.sim.next>>}, {}, NoAnchor)

LEMMA RecordFields ==
  ASSUME NEW x, NEW class, NEW target, NEW original, NEW at, NEW produced, NEW cancelled, NEW anchor
  PROVE  LET r == Records(x, class, target, original, at, produced, cancelled, anchor) IN
         /\ r.class = class /\ r.target = target /\ r.injected = x.sim.now /\ r.duration = at - original
         /\ r.original = original /\ r.redelivered = at /\ r.anchor = anchor
         /\ Entry(r).class = class /\ Entry(r).target = target /\ Entry(r).at = x.sim.now
         /\ Entry(r).duration = at - original /\ Entry(r).time = original /\ Entry(r).anchor = anchor
         /\ Entry(r).gap = IF at > anchor.time THEN at - anchor.time ELSE 0
BY DEF Records, Entry

LEMMA TimeStays ==
  ASSUME NEW s, Shaped(s), NEW orders, NEW ids
  PROVE  /\ Shaped(Scheduled(s, orders)) /\ Scheduled(s, orders).now = s.now
         /\ Shaped(Cancelled(s, ids)) /\ Cancelled(s, ids).now = s.now /\ Cancelled(s, ids).queue = s.queue
<1> DEFINE q == s.queue \cup EventsOf(s, orders)
           known == s.known \cup Ids(EventsOf(s, orders))
           next == s.next + Len(orders)
           t == Scheduled(s, orders)
           u == Cancelled(s, ids)
           marks == s.cancelled \cup (ids \cap Ids(s.queue))
<1>1. t = [s EXCEPT !.queue = q, !.known = known, !.next = next]
  BY DEF Scheduled, EventsOf, EventOf
<1>2. u = [s EXCEPT !.cancelled = marks]
  BY DEF Cancelled
<1> HIDE DEF t, u, q, known, next, marks
<1>3. t = [now |-> s.now, queue |-> q, cancelled |-> s.cancelled, known |-> known, next |-> next,
           trace |-> s.trace]
  BY <1>1 DEF Shaped
<1>4. u = [now |-> s.now, queue |-> s.queue, cancelled |-> marks, known |-> s.known, next |-> s.next,
           trace |-> s.trace]
  BY <1>2 DEF Shaped
<1>5. Shaped(t) /\ t.now = s.now
  BY <1>3 DEF Shaped
<1>6. Shaped(u) /\ u.now = s.now /\ u.queue = s.queue
  BY <1>4 DEF Shaped
<1> QED
  BY <1>5, <1>6 DEF t, u

LEMMA DeliveriesSeen ==
  ASSUME OnlyDeliveries
  PROVE  \A s : Visible(sim') = s => Seen' = WithSim(Seen, s)
<1>1. Seen = Scene(Visible(sim), workers, tasks, queues, active, replicas, transfers, callers, raised)
  BY SeenIs DEF From
<1>2. /\ workers' = workers /\ tasks' = tasks /\ queues' = queues /\ active' = active
      /\ replicas' = replicas /\ transfers' = transfers /\ callers' = callers /\ raised' = raised
  BY DEF OnlyDeliveries, taskVars
<1>3. ASSUME NEW s, Visible(sim') = s
      PROVE  Seen' = WithSim(Seen, s)
  <2>1. WithSim(Seen, s) = Scene(s, workers, tasks, queues, active, replicas, transfers, callers, raised)
    BY <1>1, SimFields
  <2> QED
    BY <1>2, <1>3, <2>1, SeenIs
<1> QED
  BY <1>3

LEMMA PutOffSeen ==
  ASSUME KernelInv(sim), KernelInv(sim'), OnlyDeliveries, NEW e, NEW r, sim' = PutOff(e, r.redelivered)
  PROVE  Seen' = PutOffAfter(Seen, e, Len(records), r) /\ sim'.now = sim.now
<1> DEFINE order == Redelivery(e, r.redelivered)
           z == Scheduled(sim, <<order>>)
<1>1. sim' = Cancelled(z, {e.id})
  BY DEF PutOff
<1>2. Shaped(z) /\ z.now = sim.now
  BY KernelIsShaped, TimeStays
<1>3. sim'.queue = z.queue /\ sim'.now = z.now
  <2> HIDE DEF z
  <2> QED
    BY <1>1, <1>2, TimeStays
<1>4. \A f, g \in z.queue : f.id = g.id => f = g
  BY <1>3 DEF KernelInv, HeapInv
<1>5. Visible(z) = Adding(Visible(sim), order)
  <2> HIDE DEF order
  <2> QED
    BY <1>4, OneIsList, VisibleScheduled DEF Adding
<1>6. order = Again(e, Len(records), r)
  BY DEF Redelivery, FaultEventId, Again, CopyId
<1> HIDE DEF order, z
<1>7. Visible(sim') = Without(Adding(Visible(sim), order), {e.id})
  BY <1>1, <1>2, <1>5, VisibleWithout
<1> QED
  BY <1>2, <1>3, <1>6, <1>7, DeliveriesSeen, SeenSight DEF PutOffAfter

LEMMA CopySeen ==
  ASSUME KernelInv(sim), KernelInv(sim'), OnlyDeliveries, NEW e, NEW r,
         sim' = Scheduled(sim, <<Redelivery(e, r.redelivered)>>)
  PROVE  Seen' = CopiedAfter(Seen, e, Len(records), r) /\ sim'.now = sim.now
<1> DEFINE order == Redelivery(e, r.redelivered)
<1>1. order = Again(e, Len(records), r)
  BY DEF Redelivery, FaultEventId, Again, CopyId
<1> HIDE DEF order
<1>2. sim' = Scheduled(sim, <<order>>)
  BY DEF order
<1>3. sim'.now = sim.now
  BY <1>2, KernelIsShaped, TimeStays
<1>4. Visible(sim') = Adding(Visible(sim), order)
  BY <1>2, AddedIsSeen
<1> QED
  BY <1>1, <1>3, <1>4, DeliveriesSeen, SeenSight DEF CopiedAfter

LEMMA DelaySeen ==
  ASSUME KernelInv(sim), KernelInv(sim'), NEW e, NEW d, DelayDelivery(e, d)
  PROVE  LET r == Replaced("DELIVERY_DELAY", e, e.time + d, {e.id}, NoAnchor) IN
         /\ records' = Append(records, r) /\ Seen' = PutOffAfter(Seen, e, Len(records), r)
         /\ sim'.now = sim.now
<1> DEFINE r == Replaced("DELIVERY_DELAY", e, e.time + d, {e.id}, NoAnchor)
<1>1. r = FaultRecord("DELIVERY_DELAY", e, e.time + d, {FaultEventId(e)}, {e.id}, NoAnchor)
  BY SeenSight DEF Replaced, Records, FaultRecord, CopyId, FaultEventId
<1>2. r.redelivered = e.time + d
  BY RecordFields DEF Replaced
<1> HIDE DEF r
<1>3. records' = Append(records, r) /\ sim' = PutOff(e, r.redelivered) /\ OnlyDeliveries
  BY <1>1, <1>2 DEF DelayDelivery, Recorded
<1> QED
  BY <1>3, PutOffSeen DEF r

LEMMA DuplicateSeen ==
  ASSUME KernelInv(sim), KernelInv(sim'), NEW e, NEW d, DuplicateDelivery(e, d)
  PROVE  LET r == Replaced("DELIVERY_DUPLICATE", e, e.time + d, {}, NoAnchor) IN
         /\ records' = Append(records, r) /\ Seen' = CopiedAfter(Seen, e, Len(records), r)
         /\ sim'.now = sim.now
<1> DEFINE r == Replaced("DELIVERY_DUPLICATE", e, e.time + d, {}, NoAnchor)
<1>1. r = FaultRecord("DELIVERY_DUPLICATE", e, e.time + d, {FaultEventId(e)}, {}, NoAnchor)
  BY SeenSight DEF Replaced, Records, FaultRecord, CopyId, FaultEventId
<1>2. r.redelivered = e.time + d
  BY RecordFields DEF Replaced
<1> HIDE DEF r
<1>3. /\ records' = Append(records, r) /\ sim' = Scheduled(sim, <<Redelivery(e, r.redelivered)>>)
      /\ OnlyDeliveries
  BY <1>1, <1>2 DEF DuplicateDelivery, Recorded
<1> QED
  BY <1>3, CopySeen DEF r

LEMMA ReorderSeen ==
  ASSUME KernelInv(sim), KernelInv(sim'), NEW e, NEW anchor, NEW gap, ReorderAfter(e, anchor, gap)
  PROVE  LET r == Replaced("DELIVERY_REORDER", e, TimeAfter(e, anchor, gap), {e.id},
                           [id |-> anchor.id, time |-> anchor.time]) IN
         /\ records' = Append(records, r) /\ Seen' = PutOffAfter(Seen, e, Len(records), r)
         /\ sim'.now = sim.now
<1> DEFINE at == TimeAfter(e, anchor, gap)
           to == [id |-> anchor.id, time |-> anchor.time]
           r == Replaced("DELIVERY_REORDER", e, at, {e.id}, to)
<1>1. Recorded(FaultRecord("DELIVERY_REORDER", e, at, {FaultEventId(e)}, {e.id}, to))
  BY DEF ReorderAfter
<1> HIDE DEF to
<1>2. sim' = PutOff(e, at) /\ OnlyDeliveries
  BY DEF ReorderAfter
<1> HIDE DEF at
<1>3. r = FaultRecord("DELIVERY_REORDER", e, at, {FaultEventId(e)}, {e.id}, to)
  BY SeenSight DEF Replaced, Records, FaultRecord, CopyId, FaultEventId
<1>4. r.redelivered = at
  BY RecordFields DEF Replaced
<1> HIDE DEF r
<1>5. records' = Append(records, r) /\ sim' = PutOff(e, r.redelivered)
  BY <1>1, <1>2, <1>3, <1>4 DEF Recorded
<1> QED
  BY <1>2, <1>5, PutOffSeen DEF r, at, to

LEMMA DropSeen ==
  ASSUME KernelInv(sim), NEW e, DropDelivery(e)
  PROVE  /\ records' = Append(records, Dropped(e)) /\ Seen' = DroppedAfter(Seen, e)
         /\ sim'.now = sim.now
<1>1. Dropped(e) = FaultRecord("DELIVERY_DROP", e, e.time, {}, {e.id}, NoAnchor)
  BY SeenSight DEF Dropped, Records, FaultRecord
<1>2. records' = Append(records, Dropped(e)) /\ sim' = Cancelled(sim, {e.id}) /\ OnlyDeliveries
  BY <1>1 DEF DropDelivery, Recorded
<1>3. Visible(sim') = Without(Visible(sim), {e.id}) /\ sim'.now = sim.now
  BY <1>2, KernelIsShaped, VisibleWithout, TimeStays
<1> QED
  BY <1>2, <1>3, DeliveriesSeen, SeenSight DEF DroppedAfter

LEMMA AskedSeen ==
  ASSUME KernelInv(sim), KernelInv(sim'), NEW class, NEW target, Delegated(class, target),
         NEW call, NEW kind, callers' = [callers EXCEPT ![call] = @ - 1],
         sim' = Scheduled(sim, <<AtOnce(sim, kind, target)>>),
         UNCHANGED <<workers, taskVars, replicas, transfers, raised>>
  PROVE  /\ records' = Append(records, Passed(class, target))
         /\ Seen' = AskedFor(Seen, call, kind, target) /\ sim'.now = sim.now
<1>1. Passed(class, target) =
        FaultRecord(class, [id |-> target, time |-> sim.now], sim.now, {<<"event", sim.next>>}, {}, NoAnchor)
  BY SeenSight DEF Passed, Records, FaultRecord
<1>2. records' = Append(records, Passed(class, target))
  BY <1>1 DEF Delegated, Recorded
<1>3. Now(Seen, kind, target) = AtOnce(sim, kind, target)
  BY SeenSight DEF Now, AtOnce
<1>4. Visible(sim') = Adding(Visible(sim), Now(Seen, kind, target)) /\ sim'.now = sim.now
  BY <1>3, AddedIsSeen, KernelIsShaped, TimeStays
<1>5. /\ Seen.sim = Visible(sim) /\ Seen.workers = workers /\ Seen.tasks = tasks /\ Seen.queues = queues
      /\ Seen.active = active /\ Seen.replicas = replicas /\ Seen.transfers = transfers
      /\ Seen.callers = callers /\ Seen.raised = raised
  BY SeenIs, FromFields
<1>6. AskedFor(Seen, call, kind, target) =
        Scene(Visible(sim'), workers, tasks, queues, active, replicas, transfers,
              [callers EXCEPT ![call] = callers[call] - 1], raised)
  BY <1>4, <1>5 DEF AskedFor
<1>7. Seen' = AskedFor(Seen, call, kind, target)
  BY <1>6, SeenIs DEF taskVars
<1> QED
  BY <1>2, <1>4, <1>7

LEMMA FaultHits ==
  ASSUME ResourceInv, AnyFault
  PROVE  \E r : /\ records' = Append(records, r) /\ r.injected = sim.now
                /\ Hits(Seen, Len(records), r, Seen')
                /\ sim'.now = sim.now /\ raised' = raised /\ sim'.trace = sim.trace
<1> DEFINE n == Len(records)
<1>1. KernelInv(sim) /\ KernelInv(sim')
  <2>1. ResourceInv'
    BY StepKeepsInvariant DEF AnyStep
  <2> QED
    BY <2>1 DEF ResourceInv, EventsInv
<1>2. Seen.sim.now = sim.now /\ Seen.sim.queue = Pending(sim) /\ Seen.replicas = replicas
  BY <1>1, SeenSight
<1>3. \A e \in Pending(sim) : e.time \in Nat
  BY <1>1, KernelFacts
<1>4. raised' = raised /\ sim'.trace = sim.trace
  BY FaultEffects, FaultIsRecorded DEF FaultStep, Moved
<1> SUFFICES \E r : /\ records' = Append(records, r) /\ r.injected = sim.now
                    /\ Hits(Seen, n, r, Seen') /\ sim'.now = sim.now
  BY <1>4
<1>5. ASSUME NEW e \in Pending(sim), DropDelivery(e)
      PROVE  \E r : /\ records' = Append(records, r) /\ r.injected = sim.now
                    /\ Hits(Seen, n, r, Seen') /\ sim'.now = sim.now
  <2> DEFINE r == Dropped(e)
  <2>1. r.injected = sim.now /\ r.redelivered = e.time
    BY <1>2, RecordFields DEF Dropped
  <2>2. records' = Append(records, r) /\ Seen' = DroppedAfter(Seen, e) /\ sim'.now = sim.now
    BY <1>1, <1>5, DropSeen
  <2>3. DeliveryHit(Seen, n, r, Seen')
    BY <1>2, <1>3, <2>1, <2>2 DEF DeliveryHit, Dropped
  <2> HIDE DEF r
  <2> QED
    BY <2>1, <2>2, <2>3 DEF Hits
<1>6. ASSUME NEW e \in Pending(sim), NEW d \in Nat, DelayDelivery(e, d)
      PROVE  \E r : /\ records' = Append(records, r) /\ r.injected = sim.now
                    /\ Hits(Seen, n, r, Seen') /\ sim'.now = sim.now
  <2> DEFINE at == e.time + d
             r == Replaced("DELIVERY_DELAY", e, at, {e.id}, NoAnchor)
  <2>1. r.injected = sim.now /\ r.redelivered = at
    BY <1>2, RecordFields DEF Replaced
  <2>2. records' = Append(records, r) /\ Seen' = PutOffAfter(Seen, e, n, r) /\ sim'.now = sim.now
    BY <1>1, <1>6, DelaySeen
  <2>3. at \in Nat
    BY <1>3
  <2> HIDE DEF at
  <2>4. r = Records(Seen, "DELIVERY_DELAY", e.id, e.time, at, {CopyId(e, n)}, {e.id}, NoAnchor)
    BY DEF Replaced
  <2> HIDE DEF r
  <2>5. DeliveryHit(Seen, n, r, Seen')
    BY <1>2, <2>1, <2>2, <2>3, <2>4 DEF DeliveryHit
  <2> QED
    BY <2>1, <2>2, <2>5 DEF Hits
<1>7. ASSUME NEW e \in Pending(sim), NEW d \in Nat, DuplicateDelivery(e, d)
      PROVE  \E r : /\ records' = Append(records, r) /\ r.injected = sim.now
                    /\ Hits(Seen, n, r, Seen') /\ sim'.now = sim.now
  <2> DEFINE at == e.time + d
             r == Replaced("DELIVERY_DUPLICATE", e, at, {}, NoAnchor)
  <2>1. r.injected = sim.now /\ r.redelivered = at
    BY <1>2, RecordFields DEF Replaced
  <2>2. records' = Append(records, r) /\ Seen' = CopiedAfter(Seen, e, n, r) /\ sim'.now = sim.now
    BY <1>1, <1>7, DuplicateSeen
  <2>3. at \in Nat
    BY <1>3
  <2> HIDE DEF at
  <2>4. r = Records(Seen, "DELIVERY_DUPLICATE", e.id, e.time, at, {CopyId(e, n)}, {}, NoAnchor)
    BY DEF Replaced
  <2> HIDE DEF r
  <2>5. DeliveryHit(Seen, n, r, Seen')
    BY <1>2, <2>1, <2>2, <2>3, <2>4 DEF DeliveryHit
  <2> QED
    BY <2>1, <2>2, <2>5 DEF Hits
<1>8. ASSUME NEW e \in Pending(sim), NEW anchor \in Pending(sim), NEW d \in Nat, ReorderAfter(e, anchor, d)
      PROVE  \E r : /\ records' = Append(records, r) /\ r.injected = sim.now
                    /\ Hits(Seen, n, r, Seen') /\ sim'.now = sim.now
  <2> DEFINE at == TimeAfter(e, anchor, d)
             to == [id |-> anchor.id, time |-> anchor.time]
             r == Replaced("DELIVERY_REORDER", e, at, {e.id}, to)
  <2>1. r.injected = sim.now /\ r.redelivered = at
    BY <1>2, RecordFields DEF Replaced
  <2>2. records' = Append(records, r) /\ Seen' = PutOffAfter(Seen, e, n, r) /\ sim'.now = sim.now
    BY <1>1, <1>8, ReorderSeen
  <2>3. at \in Nat /\ at >= anchor.time /\ at >= e.time
    BY <1>3 DEF TimeAfter
  <2> HIDE DEF at
  <2>4. r = Records(Seen, "DELIVERY_REORDER", e.id, e.time, at, {CopyId(e, n)}, {e.id},
                    [id |-> anchor.id, time |-> anchor.time])
    BY DEF Replaced
  <2> HIDE DEF r
  <2>5. DeliveryHit(Seen, n, r, Seen')
    BY <1>2, <2>1, <2>2, <2>3, <2>4 DEF DeliveryHit
  <2> QED
    BY <2>1, <2>2, <2>5 DEF Hits
<1>9. ASSUME NEW class, NEW target, Delegated(class, target), NEW call, NEW kind,
             callers' = [callers EXCEPT ![call] = @ - 1],
             sim' = Scheduled(sim, <<AtOnce(sim, kind, target)>>),
             UNCHANGED <<workers, taskVars, replicas, transfers, raised>>,
             \/ class = "WORKER_FAILURE" /\ call = "failures" /\ kind = "WORKER_FAILED" /\ target \in Workers
             \/ class = "REPLICA_LOSS" /\ call = "removals" /\ kind = "STATE_LOST" /\ target \in DOMAIN replicas
             \/ class = "REPLICA_EVICTION" /\ call = "removals" /\ kind = "STATE_EVICTED"
                  /\ target \in DOMAIN replicas
      PROVE  \E r : /\ records' = Append(records, r) /\ r.injected = sim.now
                    /\ Hits(Seen, n, r, Seen') /\ sim'.now = sim.now
  <2> DEFINE r == Passed(class, target)
  <2>1. r.injected = sim.now /\ r.target = target
    BY <1>2, RecordFields DEF Passed
  <2>2. records' = Append(records, r) /\ Seen' = AskedFor(Seen, call, kind, target) /\ sim'.now = sim.now
    BY <1>1, <1>9, AskedSeen
  <2>3. r = Records(Seen, class, target, Seen.sim.now, Seen.sim.now, {<<"event", Seen.sim.next>>}, {}, NoAnchor)
    BY DEF Passed
  <2> HIDE DEF r
  <2>4. ResourceHit(Seen, r, Seen')
    BY <1>2, <1>9, <2>1, <2>2, <2>3 DEF ResourceHit, Asks
  <2> QED
    BY <2>1, <2>2, <2>4 DEF Hits
<1>10. ASSUME NEW w \in Workers, InjectWorkerFailure(w)
       PROVE  \E r : /\ records' = Append(records, r) /\ r.injected = sim.now
                     /\ Hits(Seen, n, r, Seen') /\ sim'.now = sim.now
  <2>1. /\ Delegated("WORKER_FAILURE", w) /\ callers' = [callers EXCEPT !["failures"] = @ - 1]
        /\ sim' = Scheduled(sim, <<AtOnce(sim, "WORKER_FAILED", w)>>)
        /\ UNCHANGED <<workers, taskVars, replicas, transfers, raised>>
    BY <1>10 DEF InjectWorkerFailure, FailWorker, FailOrRecover, Call
  <2> QED
    BY <1>9, <2>1
<1>11. ASSUME NEW r \in DOMAIN replicas, InjectReplicaLoss(r)
       PROVE  \E q : /\ records' = Append(records, q) /\ q.injected = sim.now
                     /\ Hits(Seen, n, q, Seen') /\ sim'.now = sim.now
  <2>1. /\ Delegated("REPLICA_LOSS", r) /\ callers' = [callers EXCEPT !["removals"] = @ - 1]
        /\ sim' = Scheduled(sim, <<AtOnce(sim, "STATE_LOST", r)>>)
        /\ UNCHANGED <<workers, taskVars, replicas, transfers, raised>>
    BY <1>11 DEF InjectReplicaLoss, LoseReplica, EvictOrLose, Call
  <2> QED
    BY <1>9, <2>1
<1>12. ASSUME NEW r \in DOMAIN replicas, InjectReplicaEviction(r)
       PROVE  \E q : /\ records' = Append(records, q) /\ q.injected = sim.now
                     /\ Hits(Seen, n, q, Seen') /\ sim'.now = sim.now
  <2>1. /\ Delegated("REPLICA_EVICTION", r) /\ callers' = [callers EXCEPT !["removals"] = @ - 1]
        /\ sim' = Scheduled(sim, <<AtOnce(sim, "STATE_EVICTED", r)>>)
        /\ UNCHANGED <<workers, taskVars, replicas, transfers, raised>>
    BY <1>12 DEF InjectReplicaEviction, EvictReplica, EvictOrLose, Call
  <2> QED
    BY <1>9, <2>1
<1> QED
  BY <1>5, <1>6, <1>7, <1>8, <1>10, <1>11, <1>12, Zenon DEF AnyFault

LEMMA HitsApply ==
  ASSUME KernelInv(sim), NEW r, NEW y, Hits(Seen, Len(records), r, y)
  PROVE  Applicable(Entry(r)) /\ r.injected = sim.now
<1> DEFINE n == Len(records)
<1>1. Seen.sim.now = sim.now /\ Seen.sim.queue = Pending(sim) /\ Seen.replicas = replicas
  BY SeenSight
<1>2. CASE DeliveryHit(Seen, n, r, y)
  <2>1. PICK e \in Seen.sim.queue :
          \/ r = Records(Seen, "DELIVERY_DELAY", e.id, e.time, r.redelivered, {CopyId(e, n)}, {e.id}, NoAnchor)
          \/ r = Records(Seen, "DELIVERY_DROP", e.id, e.time, e.time, {}, {e.id}, NoAnchor)
          \/ r = Records(Seen, "DELIVERY_DUPLICATE", e.id, e.time, r.redelivered, {CopyId(e, n)}, {}, NoAnchor)
          \/ \E anchor \in Seen.sim.queue :
               r = Records(Seen, "DELIVERY_REORDER", e.id, e.time, r.redelivered, {CopyId(e, n)}, {e.id},
                           [id |-> anchor.id, time |-> anchor.time])
    BY <1>2, Zenon DEF DeliveryHit
  <2>2. PendingAt(e.id, e.time)
    BY <1>1 DEF PendingAt
  <2>3. CASE \E anchor \in Seen.sim.queue :
               r = Records(Seen, "DELIVERY_REORDER", e.id, e.time, r.redelivered, {CopyId(e, n)}, {e.id},
                           [id |-> anchor.id, time |-> anchor.time])
    <3>1. PICK anchor \in Seen.sim.queue :
            r = Records(Seen, "DELIVERY_REORDER", e.id, e.time, r.redelivered, {CopyId(e, n)}, {e.id},
                        [id |-> anchor.id, time |-> anchor.time])
      BY <2>3
    <3>2. /\ Entry(r).class = "DELIVERY_REORDER" /\ Entry(r).target = e.id /\ Entry(r).time = e.time
          /\ Entry(r).anchor = [id |-> anchor.id, time |-> anchor.time] /\ r.injected = Seen.sim.now
      BY <3>1, RecordFields
    <3>3. PendingAt(anchor.id, anchor.time)
      BY <1>1 DEF PendingAt
    <3> QED
      BY <1>1, <2>2, <3>2, <3>3 DEF Applicable
  <2>4. ASSUME NEW class \in {"DELIVERY_DELAY", "DELIVERY_DROP", "DELIVERY_DUPLICATE"},
               NEW at, NEW produced, NEW cancelled,
               r = Records(Seen, class, e.id, e.time, at, produced, cancelled, NoAnchor)
        PROVE  Applicable(Entry(r)) /\ r.injected = sim.now
    <3>1. /\ Entry(r).class = class /\ Entry(r).target = e.id /\ Entry(r).time = e.time
          /\ r.injected = Seen.sim.now
      BY <2>4, RecordFields
    <3> QED
      BY <1>1, <2>2, <3>1 DEF Applicable
  <2> QED
    BY <2>1, <2>3, <2>4
<1>3. CASE ResourceHit(Seen, r, y)
  <2>1. ASSUME NEW class, Asks(Seen, r, class)
        PROVE  r.injected = sim.now /\ Entry(r).class = class /\ Entry(r).target = r.target
    <3>1. r = Records(Seen, class, r.target, Seen.sim.now, Seen.sim.now, {<<"event", Seen.sim.next>>}, {},
                      NoAnchor)
      BY <2>1 DEF Asks
    <3>2. /\ r.injected = Seen.sim.now /\ Entry(r).class = class
          /\ Entry(r).target = r.target
      BY <3>1, RecordFields
    <3> QED
      BY <1>1, <3>2
  <2> QED
    BY <1>1, <1>3, <2>1 DEF ResourceHit, Applicable
<1> QED
  BY <1>2, <1>3 DEF Hits

LEMMA HitsAgain ==
  ASSUME ResourceInv, ResourceInv', NEW r, NEW y, Hits(Seen, Len(records), r, y), Apply(Entry(r))
  PROVE  records' = Append(records, r) /\ Seen' = y /\ sim'.now = sim.now
<1> DEFINE n == Len(records)
           x == Seen
<1>1. KernelInv(sim) /\ KernelInv(sim')
  BY DEF ResourceInv, EventsInv
<1>2. /\ x.sim.now = sim.now /\ x.sim.queue = Pending(sim) /\ x.replicas = replicas
      /\ \A e, f \in Pending(sim) : e.id = f.id => e = f
      /\ \A e \in Pending(sim) : e.time \in Nat
  BY <1>1, SeenSight, KernelFacts DEF KernelInv, HeapInv
<1>3. CASE DeliveryHit(x, n, r, y)
  <2>1. r.redelivered \in Nat
    BY <1>3 DEF DeliveryHit
  <2>2. ASSUME NEW e \in Pending(sim), y = PutOffAfter(x, e, n, r),
               r = Records(x, "DELIVERY_DELAY", e.id, e.time, r.redelivered, {CopyId(e, n)}, {e.id}, NoAnchor)
        PROVE  records' = Append(records, r) /\ Seen' = y /\ sim'.now = sim.now
    <3>1. /\ Entry(r).class = "DELIVERY_DELAY" /\ Entry(r).target = e.id
          /\ Entry(r).duration = r.redelivered - e.time
      BY <2>2, RecordFields
    <3>2. DelayDelivery(e, r.redelivered - e.time)
      BY <1>2, <3>1 DEF Apply
    <3>3. e.time + (r.redelivered - e.time) = r.redelivered
      BY <1>2, <2>1
    <3>4. r = Replaced("DELIVERY_DELAY", e, r.redelivered, {e.id}, NoAnchor)
      BY <2>2 DEF Replaced
    <3> QED
      BY <1>1, <2>2, <3>2, <3>3, <3>4, DelaySeen
  <2>3. ASSUME NEW e \in Pending(sim), y = DroppedAfter(x, e),
               r = Records(x, "DELIVERY_DROP", e.id, e.time, e.time, {}, {e.id}, NoAnchor)
        PROVE  records' = Append(records, r) /\ Seen' = y /\ sim'.now = sim.now
    <3>1. Entry(r).class = "DELIVERY_DROP" /\ Entry(r).target = e.id
      BY <2>3, RecordFields
    <3>2. DropDelivery(e)
      BY <1>2, <3>1 DEF Apply
    <3>3. r = Dropped(e)
      BY <2>3 DEF Dropped
    <3> QED
      BY <1>1, <2>3, <3>2, <3>3, DropSeen
  <2>4. ASSUME NEW e \in Pending(sim), y = CopiedAfter(x, e, n, r),
               r = Records(x, "DELIVERY_DUPLICATE", e.id, e.time, r.redelivered, {CopyId(e, n)}, {}, NoAnchor)
        PROVE  records' = Append(records, r) /\ Seen' = y /\ sim'.now = sim.now
    <3>1. /\ Entry(r).class = "DELIVERY_DUPLICATE" /\ Entry(r).target = e.id
          /\ Entry(r).duration = r.redelivered - e.time
      BY <2>4, RecordFields
    <3>2. DuplicateDelivery(e, r.redelivered - e.time)
      BY <1>2, <3>1 DEF Apply
    <3>3. e.time + (r.redelivered - e.time) = r.redelivered
      BY <1>2, <2>1
    <3>4. r = Replaced("DELIVERY_DUPLICATE", e, r.redelivered, {}, NoAnchor)
      BY <2>4 DEF Replaced
    <3> QED
      BY <1>1, <2>4, <3>2, <3>3, <3>4, DuplicateSeen
  <2>5. ASSUME NEW e \in Pending(sim), NEW anchor \in Pending(sim), y = PutOffAfter(x, e, n, r),
               r = Records(x, "DELIVERY_REORDER", e.id, e.time, r.redelivered, {CopyId(e, n)}, {e.id},
                           [id |-> anchor.id, time |-> anchor.time]),
               r.redelivered >= anchor.time, r.redelivered >= e.time
        PROVE  records' = Append(records, r) /\ Seen' = y /\ sim'.now = sim.now
    <3> DEFINE to == [id |-> anchor.id, time |-> anchor.time]
               gap == IF r.redelivered > anchor.time THEN r.redelivered - anchor.time ELSE 0
    <3>1. /\ Entry(r).class = "DELIVERY_REORDER" /\ Entry(r).target = e.id /\ Entry(r).anchor = to
          /\ Entry(r).gap = IF r.redelivered > to.time THEN r.redelivered - to.time ELSE 0
      BY <2>5, RecordFields
    <3>2. Entry(r).anchor.id = anchor.id /\ Entry(r).gap = gap
      BY <3>1
    <3>3. ReorderAfter(e, anchor, gap)
      <4> HIDE DEF gap
      <4>1. PICK f \in Pending(sim), a \in Pending(sim) :
              f.id = e.id /\ a.id = anchor.id /\ ReorderAfter(f, a, gap)
        BY <3>1, <3>2 DEF Apply
      <4>2. f = e /\ a = anchor
        BY <1>2, <4>1
      <4> QED
        BY <4>1, <4>2
    <3>4. TimeAfter(e, anchor, gap) = r.redelivered
      BY <1>2, <2>1, <2>5 DEF TimeAfter
    <3>5. r = Replaced("DELIVERY_REORDER", e, r.redelivered, {e.id}, to)
      BY <2>5 DEF Replaced
    <3> HIDE DEF gap
    <3> QED
      BY <1>1, <2>5, <3>3, <3>4, <3>5, ReorderSeen
  <2> HIDE DEF x, n
  <2>6. PICK e \in Pending(sim) :
          \/ /\ r = Records(x, "DELIVERY_DELAY", e.id, e.time, r.redelivered, {CopyId(e, n)}, {e.id}, NoAnchor)
             /\ y = PutOffAfter(x, e, n, r)
          \/ /\ r = Records(x, "DELIVERY_DROP", e.id, e.time, e.time, {}, {e.id}, NoAnchor)
             /\ y = DroppedAfter(x, e)
          \/ /\ r = Records(x, "DELIVERY_DUPLICATE", e.id, e.time, r.redelivered, {CopyId(e, n)}, {}, NoAnchor)
             /\ y = CopiedAfter(x, e, n, r)
          \/ \E anchor \in Pending(sim) :
               /\ r = Records(x, "DELIVERY_REORDER", e.id, e.time, r.redelivered, {CopyId(e, n)}, {e.id},
                              [id |-> anchor.id, time |-> anchor.time])
               /\ r.redelivered >= anchor.time /\ r.redelivered >= e.time
               /\ y = PutOffAfter(x, e, n, r)
    BY <1>2, <1>3, Zenon DEF DeliveryHit
  <2> QED
    BY <2>2, <2>3, <2>4, <2>5, <2>6
<1>4. ASSUME NEW class, Asks(x, r, class), NEW call, NEW kind, y = AskedFor(x, call, kind, r.target),
             Delegated(class, r.target), callers' = [callers EXCEPT ![call] = @ - 1],
             sim' = Scheduled(sim, <<AtOnce(sim, kind, r.target)>>),
             UNCHANGED <<workers, taskVars, replicas, transfers, raised>>
      PROVE  records' = Append(records, r) /\ Seen' = y /\ sim'.now = sim.now
  <2>1. r = Passed(class, r.target)
    BY <1>4 DEF Asks, Passed
  <2>2. /\ records' = Append(records, Passed(class, r.target))
        /\ Seen' = AskedFor(x, call, kind, r.target) /\ sim'.now = sim.now
    BY <1>1, <1>4, AskedSeen
  <2> QED
    BY <1>4, <2>1, <2>2
<1>5. ASSUME NEW class, Asks(x, r, class)
      PROVE  Entry(r).class = class /\ Entry(r).target = r.target
  BY <1>5, RecordFields DEF Asks
<1> HIDE DEF x
<1>6. CASE Asks(x, r, "WORKER_FAILURE") /\ y = AskedFor(x, "failures", "WORKER_FAILED", r.target)
  <2>1. InjectWorkerFailure(r.target)
    BY <1>5, <1>6 DEF Apply
  <2>2. /\ Delegated("WORKER_FAILURE", r.target) /\ callers' = [callers EXCEPT !["failures"] = @ - 1]
        /\ sim' = Scheduled(sim, <<AtOnce(sim, "WORKER_FAILED", r.target)>>)
        /\ UNCHANGED <<workers, taskVars, replicas, transfers, raised>>
    BY <2>1 DEF InjectWorkerFailure, FailWorker, FailOrRecover, Call
  <2> QED
    BY <1>4, <1>6, <2>2
<1>7. CASE Asks(x, r, "REPLICA_LOSS") /\ y = AskedFor(x, "removals", "STATE_LOST", r.target)
  <2>1. InjectReplicaLoss(r.target)
    BY <1>5, <1>7 DEF Apply
  <2>2. /\ Delegated("REPLICA_LOSS", r.target) /\ callers' = [callers EXCEPT !["removals"] = @ - 1]
        /\ sim' = Scheduled(sim, <<AtOnce(sim, "STATE_LOST", r.target)>>)
        /\ UNCHANGED <<workers, taskVars, replicas, transfers, raised>>
    BY <2>1 DEF InjectReplicaLoss, LoseReplica, EvictOrLose, Call
  <2> QED
    BY <1>4, <1>7, <2>2
<1>8. CASE Asks(x, r, "REPLICA_EVICTION") /\ y = AskedFor(x, "removals", "STATE_EVICTED", r.target)
  <2>1. InjectReplicaEviction(r.target)
    BY <1>5, <1>8 DEF Apply
  <2>2. /\ Delegated("REPLICA_EVICTION", r.target) /\ callers' = [callers EXCEPT !["removals"] = @ - 1]
        /\ sim' = Scheduled(sim, <<AtOnce(sim, "STATE_EVICTED", r.target)>>)
        /\ UNCHANGED <<workers, taskVars, replicas, transfers, raised>>
    BY <2>1 DEF InjectReplicaEviction, EvictReplica, EvictOrLose, Call
  <2> QED
    BY <1>4, <1>8, <2>2
<1> QED
  BY <1>3, <1>6, <1>7, <1>8 DEF Hits, ResourceHit, x

LEMMA OperationTime ==
  ASSUME KernelInv(sim), Operation
  PROVE  sim'.now = sim.now
<1>1. \A order : sim' = Scheduled(sim, <<order>>) => sim'.now = sim.now
  BY KernelIsShaped, TimeStays
<1>2. \A w, d : EnqueueTask(w, d) \/ MaterializeReplica(w, d) => sim'.now = sim.now
  BY <1>1 DEF EnqueueTask, MaterializeReplica
<1>3. \A w : FailWorker(w) \/ RecoverWorker(w) => sim'.now = sim.now
  BY <1>1 DEF FailWorker, RecoverWorker, FailOrRecover
<1>4. \A r, l : StartTransfer(r, l) => sim'.now = sim.now
  BY <1>1 DEF StartTransfer
<1>5. \A r : EvictReplica(r) \/ LoseReplica(r) => sim'.now = sim.now
  BY <1>1 DEF EvictReplica, LoseReplica, EvictOrLose
<1> QED
  BY <1>2, <1>3, <1>4, <1>5 DEF Operation

---------------------------------------------------------------------------
(* Paths: with one point more, and with the record of one fault more.      *)
Further(p, z) == [i \in 1..Len(p) + 1 |-> IF i <= Len(p) THEN p[i] ELSE z]

LEMMA FurtherFields ==
  ASSUME NEW p, Len(p) \in Nat, NEW z
  PROVE  /\ Len(Further(p, z)) = Len(p) + 1 /\ DOMAIN Further(p, z) = 1..Len(p) + 1
         /\ Further(p, z)[Len(p) + 1] = z
         /\ \A i \in 1..Len(p) : Further(p, z)[i] = p[i]
<1> DEFINE q == Further(p, z)
           S == {q[i] : i \in 1..Len(p) + 1}
<1>1. q \in [1..Len(p) + 1 -> S] /\ Len(p) + 1 \in Nat
  BY DEF Further
<1>2. q[Len(p) + 1] = z /\ \A i \in 1..Len(p) : q[i] = p[i]
  BY DEF Further
<1> HIDE DEF q, S
<1>3. Len(q) = Len(p) + 1 /\ DOMAIN q = 1..Len(p) + 1
  BY <1>1, SeqIntro
<1> QED
  BY <1>2, <1>3 DEF q

LEMMA PathFurther ==
  ASSUME NEW p, NEW R, Path(p, R), NEW z, z.faults \in 0..Len(R),
         EventStep(p[Len(p)], z, R) \/ FaultStepIn(p[Len(p)], z, R)
  PROVE  Path(Further(p, z), R)
<1> DEFINE q == Further(p, z)
<1>1. Len(p) \in Nat \ {0} /\ DOMAIN p = 1..Len(p) /\ \A i \in DOMAIN p : p[i].faults \in 0..Len(R)
  BY DEF Path
<1>2. /\ Len(q) = Len(p) + 1 /\ DOMAIN q = 1..Len(p) + 1 /\ q[Len(p) + 1] = z
      /\ \A i \in 1..Len(p) : q[i] = p[i]
  BY <1>1, FurtherFields
<1> HIDE DEF q
<1>3. \A i \in DOMAIN q : q[i].faults \in 0..Len(R)
  <2> TAKE i \in DOMAIN q
  <2>1. CASE i \in 1..Len(p)
    BY <1>1, <1>2, <2>1
  <2>2. CASE i = Len(p) + 1
    BY <1>2, <2>2
  <2> QED
    BY <1>1, <1>2, <2>1, <2>2
<1>4. \A i \in 1..Len(q) - 1 : EventStep(q[i], q[i + 1], R) \/ FaultStepIn(q[i], q[i + 1], R)
  <2> TAKE i \in 1..Len(q) - 1
  <2>1. CASE i \in 1..Len(p) - 1
    <3>1. q[i] = p[i] /\ q[i + 1] = p[i + 1]
      BY <1>1, <1>2, <2>1
    <3> QED
      BY <2>1, <3>1 DEF Path
  <2>2. CASE i = Len(p)
    <3>1. q[i] = p[Len(p)] /\ q[i + 1] = z
      BY <1>1, <1>2, <2>2
    <3> QED
      BY <3>1
  <2>3. i \in 1..Len(p) - 1 \/ i = Len(p)
    <3>1. Len(q) = Len(p) + 1 /\ Len(p) \in Nat
      BY <1>1, <1>2
    <3> QED
      BY <3>1
  <2> QED
    BY <2>1, <2>2, <2>3
<1> QED
  BY <1>1, <1>2, <1>3, <1>4 DEF Path, q

LEMMA PathRecorded ==
  ASSUME NEW p, NEW S, NEW R \in Seq(S), NEW r, Path(p, R),
         \A i \in 1..Len(p) - 1 :
           p[i].faults = Len(R) => ReachedIn(R, Len(R)) < r.injected /\ p[i + 1].seen.sim.now <= r.injected
  PROVE  Path(p, Append(R, r))
<1> DEFINE Q == Append(R, r)
           n == Len(R)
<1>1. Len(p) \in Nat \ {0} /\ DOMAIN p = 1..Len(p) /\ \A i \in DOMAIN p : p[i].faults \in 0..n
  BY DEF Path
<1>2. n \in Nat /\ Len(Q) = n + 1 /\ Q[n + 1] = r /\ \A k \in 1..n : Q[k] = R[k]
  OBVIOUS
<1> HIDE DEF Q, n
<1>3. \A k \in 0..n : ReachedIn(Q, k) = ReachedIn(R, k)
  BY <1>2 DEF ReachedIn
<1>4. ASSUME NEW i \in 1..Len(p) - 1
      PROVE  EventStep(p[i], p[i + 1], Q) \/ FaultStepIn(p[i], p[i + 1], Q)
  <2> DEFINE a == p[i]
             b == p[i + 1]
  <2>1. a.faults \in 0..n /\ (a.faults < n => a.faults + 1 \in 1..n /\ a.faults < Len(Q))
    BY <1>1, <1>2
  <2>2. EventStep(a, b, R) \/ FaultStepIn(a, b, R)
    BY DEF Path
  <2>3. a.faults = n => ReachedIn(R, n) < r.injected /\ b.seen.sim.now <= r.injected
    BY <1>2 DEF n
  <2> HIDE DEF a, b
  <2>4. CASE EventStep(a, b, R)
    <3>1. a.faults < Len(Q) =>
            ReachedIn(Q, a.faults) < Q[a.faults + 1].injected /\ b.seen.sim.now <= Q[a.faults + 1].injected
      <4>1. CASE a.faults < n
        <5>1. Q[a.faults + 1] = R[a.faults + 1] /\ ReachedIn(Q, a.faults) = ReachedIn(R, a.faults)
          BY <1>2, <1>3, <2>1, <4>1
        <5> QED
          BY <2>4, <4>1, <5>1 DEF EventStep, n
      <4>2. CASE a.faults = n
        BY <1>2, <1>3, <2>3, <4>2
      <4> QED
        BY <1>2, <2>1, <4>1, <4>2
    <3>2. /\ b.faults = a.faults
          /\ \E e \in a.seen.sim.queue :
               /\ IsEarliest(a.seen.sim, e)
               /\ b.seen = Ran(a.seen, e) /\ e.time <= b.seen.sim.now
      BY <2>4, Zenon DEF EventStep
    <3>3. EventStep(a, b, Q)
      BY <3>1, <3>2, Zenon DEF EventStep
    <3> QED
      BY <3>3 DEF a, b
  <2>5. CASE FaultStepIn(a, b, R)
    <3>1. a.faults < n
      BY <2>5 DEF FaultStepIn, n
    <3>2. /\ Q[a.faults + 1] = R[a.faults + 1] /\ ReachedIn(Q, a.faults) = ReachedIn(R, a.faults)
          /\ a.faults < Len(Q)
      BY <1>2, <1>3, <2>1, <3>1
    <3>3. FaultStepIn(a, b, Q)
      BY <2>5, <3>2, Zenon DEF FaultStepIn
    <3> QED
      BY <3>3 DEF a, b
  <2> QED
    BY <2>2, <2>4, <2>5 DEF a, b
<1>5. \A i \in DOMAIN p : p[i].faults \in 0..Len(Q)
  BY <1>1, <1>2
<1> QED
  BY <1>1, <1>4, <1>5 DEF Path, Q

---------------------------------------------------------------------------
(* The original run has gone the path p: what is seen is what the path has *)
(* come to, but for the time that has passed since, which it does only     *)
(* while there is more to come.                                            *)
Start ==
  Scene(Visible(SetUp.sim), SetUp.workers, SetUp.tasks, SetUp.queues, SetUp.active, SetUp.replicas,
        SetUp.transfers, SetUp.callers, SetUp.raised)

Goes(p) ==
  /\ Path(p, records) /\ p[1] = Point(Start, 0)
  /\ \A i \in DOMAIN p :
       Sight(p[i].seen) /\ p[i].seen.sim.now \in 0..sim.now /\ (p[i].seen.raised => raised)
  /\ p[Len(p)].faults = Len(records) /\ Seen = At(p[Len(p)].seen, sim.now)
  /\ sim.now # p[Len(p)].seen.sim.now => Pending(sim) # {}
  /\ Len(sim.trace) = campaign.ran => \A i \in 1..Len(p) - 1 : p[i].faults < Len(records)

Injecting ==
  /\ SetUp.sim.now = 0 /\ SetUp.callers.campaign
  /\ campaign.reached = 0 /\ campaign.ran \in 0..Len(sim.trace)
  /\ campaign.paced => \E p : Goes(p)

LEMMA PointFields ==
  ASSUME NEW x, NEW n
  PROVE  Point(x, n).seen = x /\ Point(x, n).faults = n
BY DEF Point

LEMMA VisibleShape ==
  ASSUME NEW s, KernelInv(s)
  PROVE  Shaped(Visible(s)) /\ Visible(s).now = s.now
<1>1. Shaped(s)
  BY KernelIsShaped
<1>2. /\ Visible(s) = [now |-> s.now, queue |-> Pending(s), cancelled |-> {}, known |-> s.known,
                       next |-> s.next, trace |-> s.trace]
      /\ Shaped(Visible(s))
  BY <1>1, VisibleFields
<1>3. Visible(s).now = s.now
  <2> DEFINE v == Visible(s)
  <2>1. v = [now |-> s.now, queue |-> Pending(s), cancelled |-> {}, known |-> s.known,
             next |-> s.next, trace |-> s.trace]
    BY <1>2
  <2> HIDE DEF v
  <2>2. v.now = s.now
    BY <2>1
  <2> QED
    BY <2>2 DEF v
<1> QED
  BY <1>2, <1>3

LEMMA ListFacts ==
  ASSUME RecordsListed, KernelInv(sim)
  PROVE  Len(records) \in Nat /\ Len(sim.trace) \in Nat /\ sim.now \in Nat
BY KernelFacts DEF RecordsListed

LEMMA GoesFields ==
  ASSUME NEW p, Goes(p)
  PROVE  /\ Len(p) \in Nat \ {0} /\ DOMAIN p = 1..Len(p) /\ Len(p) \in DOMAIN p /\ 1 \in DOMAIN p
         /\ \A i \in DOMAIN p : p[i].faults \in 0..Len(records)
         /\ Sight(p[Len(p)].seen)
BY DEF Goes, Path

LEMMA PathStarts ==
  ASSUME FaultInv, records = << >>, SetUp' = Scenario, sim.now = 0, campaign'.ran = 0, UNCHANGED faultVars
  PROVE  \E p : Goes(p)'
<1> PICK p : p = <<Point(Seen, 0)>>
  OBVIOUS
<1>1. /\ sim' = sim /\ workers' = workers /\ tasks' = tasks /\ queues' = queues /\ active' = active
      /\ replicas' = replicas /\ transfers' = transfers /\ callers' = callers /\ raised' = raised
      /\ records' = records
  BY DEF faultVars, vars
<1>2. KernelInv(sim)
  BY DEF FaultInv, ResourceInv, EventsInv
<1>3. Seen' = Seen /\ Start' = Seen
  <2>1. /\ SetUp'.sim = sim /\ SetUp'.workers = workers /\ SetUp'.tasks = tasks /\ SetUp'.queues = queues
        /\ SetUp'.active = active /\ SetUp'.replicas = replicas /\ SetUp'.transfers = transfers
        /\ SetUp'.callers = callers /\ SetUp'.raised = raised
    BY DEF Scenario
  <2> HIDE DEF SetUp
  <2> QED
    BY <1>1, <2>1, SeenIs DEF Start, From
<1>4. Sight(Seen) /\ Seen.sim.now = sim.now /\ Seen.raised = raised /\ At(Seen, Seen.sim.now) = Seen
  BY <1>2, SeenSight, AtFields
<1>5. /\ Len(p) = 1 /\ DOMAIN p = 1..1 /\ p[1] = Point(Seen, 0) /\ Len(records) = 0
      /\ p[1].seen = Seen /\ p[1].faults = 0
  BY PointFields
<1>6. Path(p, records)
  BY <1>5 DEF Path
<1>7. Path(p, records') /\ p[1] = Point(Start', 0)
  BY <1>1, <1>3, <1>5, <1>6
<1>8. \A i \in DOMAIN p :
        Sight(p[i].seen) /\ p[i].seen.sim.now \in 0..sim'.now /\ (p[i].seen.raised => raised')
  BY <1>1, <1>4, <1>5
<1>9. p[Len(p)].faults = Len(records') /\ Seen' = At(p[Len(p)].seen, sim'.now)
  BY <1>1, <1>3, <1>4, <1>5
<1>10. sim'.now = p[Len(p)].seen.sim.now /\ \A i \in 1..Len(p) - 1 : FALSE
  BY <1>1, <1>4, <1>5
<1>11. Goes(p)'
  <2>1. sim'.now # p[Len(p)].seen.sim.now => Pending(sim') # {}
    BY <1>10
  <2>2. Len(sim'.trace) = campaign'.ran => \A i \in 1..Len(p) - 1 : p[i].faults < Len(records')
    BY <1>10
  <2> QED
    BY <1>7, <1>8, <1>9, <2>1, <2>2 DEF Goes
<1> QED
  BY <1>11

(* The path goes one point further.                                        *)
LEMMA GoesFurther ==
  ASSUME NEW p, Goes(p), KernelInv(sim), KernelInv(sim'), Start' = Start, sim.now <= sim'.now,
         raised => raised', NEW R, records' = R, Len(R) \in Nat, Len(records) <= Len(R),
         Len(records) \in Nat, Path(p, R),
         EventStep(p[Len(p)], Point(Seen', Len(R)), R) \/ FaultStepIn(p[Len(p)], Point(Seen', Len(R)), R),
         Len(sim'.trace) = campaign'.ran => Len(records) < Len(R)
  PROVE  \E q : Goes(q)'
<1> DEFINE z == Point(Seen', Len(R))
<1> PICK q : q = Further(p, z)
  OBVIOUS
<1>1. /\ Len(p) \in Nat \ {0} /\ DOMAIN p = 1..Len(p) /\ Len(p) \in DOMAIN p
      /\ \A i \in DOMAIN p : p[i].faults \in 0..Len(records)
  BY GoesFields
<1>2. z.seen = Seen' /\ z.faults = Len(R)
  BY PointFields
<1>3. Sight(Seen') /\ Seen'.sim.now = sim'.now /\ Seen'.raised = raised' /\ At(Seen', Seen'.sim.now) = Seen'
  <2>1. Shaped(Visible(sim')) /\ Visible(sim').now = sim'.now
    BY VisibleShape
  <2>2. Seen' = Scene(Visible(sim'), workers', tasks', queues', active', replicas', transfers', callers', raised')
    BY SeenIs
  <2>3. Sight(Seen')
    BY <2>1, <2>2, Zenon DEF Sight
  <2>4. Seen'.sim = Visible(sim') /\ Seen'.raised = raised'
    BY <2>2, SceneFields
  <2> QED
    BY <2>1, <2>3, <2>4, AtFields
<1> HIDE DEF z
<1>4. Path(q, R)
  BY <1>2, PathFurther DEF z
<1>5. /\ Len(q) = Len(p) + 1 /\ DOMAIN q = 1..Len(p) + 1 /\ q[Len(p) + 1] = z
      /\ \A i \in 1..Len(p) : q[i] = p[i]
  BY <1>1, FurtherFields
<1>6. q[1] = Point(Start', 0)
  BY <1>1, <1>5 DEF Goes
<1>7. \A i \in DOMAIN q :
        Sight(q[i].seen) /\ q[i].seen.sim.now \in 0..sim'.now /\ (q[i].seen.raised => raised')
  <2>1. sim.now \in Nat /\ sim'.now \in Nat
    BY KernelFacts
  <2> TAKE i \in DOMAIN q
  <2>2. CASE i \in 1..Len(p)
    <3>1. Sight(p[i].seen) /\ p[i].seen.sim.now \in 0..sim.now /\ (p[i].seen.raised => raised) /\ q[i] = p[i]
      BY <1>1, <1>5, <2>2 DEF Goes
    <3> QED
      BY <2>1, <3>1
  <2>3. CASE i = Len(p) + 1
    BY <1>2, <1>3, <1>5, <2>1, <2>3
  <2> QED
    BY <1>1, <1>5, <2>2, <2>3
<1>8. q[Len(q)] = z
  BY <1>5
<1>9. Len(sim'.trace) = campaign'.ran => \A i \in 1..Len(q) - 1 : q[i].faults < Len(R)
  <2> SUFFICES ASSUME Len(records) < Len(R), NEW i \in 1..Len(q) - 1
               PROVE  q[i].faults < Len(R)
    OBVIOUS
  <2>1. i \in 1..Len(p)
    <3>1. Len(q) = Len(p) + 1 /\ Len(p) \in Nat
      BY <1>1, <1>5
    <3> QED
      BY <3>1
  <2>2. q[i] = p[i] /\ p[i].faults \in 0..Len(records)
    BY <1>1, <1>5, <2>1
  <2> QED
    BY <2>2
<1>10. Goes(q)'
  <2>1. /\ q[Len(q)].faults = Len(R) /\ Seen' = At(q[Len(q)].seen, sim'.now)
        /\ sim'.now = q[Len(q)].seen.sim.now
    BY <1>2, <1>3, <1>8
  <2>2. sim'.now # q[Len(q)].seen.sim.now => Pending(sim') # {}
    BY <2>1
  <2> QED
    BY <1>4, <1>6, <1>7, <1>9, <2>1, <2>2 DEF Goes
<1> QED
  BY <1>10

LEMMA EventGoes ==
  ASSUME FaultInv, RunNext, UNCHANGED <<records, campaign>>, campaign.ran \in 0..Len(sim.trace),
         NEW p, Goes(p)
  PROVE  \E q : Goes(q)'
<1>1. ResourceInv /\ KernelInv(sim) /\ RecordsListed
  BY DEF FaultInv, ResourceInv, EventsInv
<1>2. KernelInv(sim')
  <2>1. ResourceInv'
    BY <1>1, StepKeepsInvariant DEF AnyStep
  <2> QED
    BY <2>1 DEF ResourceInv, EventsInv
<1>3. PICK e \in Pending(sim) :
        /\ IsEarliest(Seen.sim, e) /\ Seen' = Ran(Seen, e)
        /\ e.time <= sim'.now /\ sim.now <= sim'.now /\ sim'.trace = Append(sim.trace, e)
  BY <1>1, RunSeen
<1>4. Start' = Start /\ records' = records /\ campaign' = campaign
  <2>1. SetUp' = SetUp
    BY DEF SetUp
  <2> QED
    BY <2>1 DEF Start
<1>5. raised => raised'
  BY HandlersRaise DEF RunNext
<1>6. Len(records) \in Nat /\ Path(p, records) /\ p[Len(p)].faults = Len(records)
  BY <1>1, ListFacts DEF Goes
<1>7. Len(sim'.trace) # campaign'.ran
  <2>1. Len(sim'.trace) = Len(sim.trace) + 1 /\ Len(sim.trace) \in Nat
    BY <1>1, <1>3, KernelFacts
  <2> QED
    BY <1>4, <2>1
<1> DEFINE last == p[Len(p)].seen
           z == Point(Seen', Len(records))
<1>8. z.seen = Seen' /\ z.faults = Len(records)
  BY PointFields
<1>9. Sight(last) /\ Seen = At(last, sim.now)
  BY GoesFields DEF Goes
<1>10. Seen'.sim.now = sim'.now /\ Seen.sim.queue = Pending(sim)
  <2>1. Visible(sim').now = sim'.now
    BY <1>2, VisibleShape
  <2>2. Seen'.sim = Visible(sim')
    BY SeenIs, SceneFields
  <2> QED
    BY <1>1, <2>1, <2>2, SeenSight
<1> HIDE DEF last
<1>11. e \in last.sim.queue /\ IsEarliest(last.sim, e) /\ Seen' = Ran(last, e)
  BY <1>3, <1>9, <1>10, AtFields
<1> HIDE DEF z
<1>12. EventStep(p[Len(p)], z, records)
  BY <1>3, <1>6, <1>8, <1>10, <1>11 DEF EventStep, last
<1> QED
  BY <1>1, <1>2, <1>3, <1>4, <1>5, <1>6, <1>7, <1>12, GoesFurther DEF z

LEMMA WaitGoes ==
  ASSUME FaultInv, NEW until \in Nat, StopAt(until), campaign.ran \in 0..Len(sim.trace), NEW p, Goes(p)
  PROVE  Goes(p)' /\ sim'.trace = sim.trace
<1>1. KernelInv(sim)
  BY DEF FaultInv, ResourceInv, EventsInv
<1>2. Seen' = At(Seen, until) /\ sim'.now = until /\ sim'.trace = sim.trace
  BY <1>1, WaitSeen DEF StopAt
<1>3. sim.now \in Nat /\ sim.now < until
  BY <1>1, KernelFacts DEF StopAt
<1>4. Start' = Start /\ records' = records /\ campaign' = campaign /\ raised' = raised
  <2>1. SetUp' = SetUp
    BY DEF StopAt, SetUp
  <2> QED
    BY <2>1 DEF StopAt, Start
<1> DEFINE last == p[Len(p)].seen
<1>5. Sight(last) /\ Seen = At(last, sim.now)
  BY GoesFields DEF Goes
<1> HIDE DEF last
<1>6. Seen' = At(last, sim'.now)
  BY <1>2, <1>5, AtFields
<1>7. Pending(sim') # {}
  <2>1. PICK e \in Pending(sim) : e.time > until
    BY DEF StopAt
  <2>2. sim' = AtHorizon(sim, until)
    BY DEF StopAt
  <2>3. Waited
    BY <2>2, <1>3 DEF StopAt, Waited
  <2>4. EventsInv
    BY DEF FaultInv, ResourceInv
  <2>5. Pending(sim') = Pending(sim)
    BY <2>3, <2>4, WaitedMoves
  <2> QED
    BY <2>1, <2>5
<1>8. \A i \in DOMAIN p : p[i].seen.sim.now \in 0..sim'.now
  BY <1>2, <1>3 DEF Goes
<1>9. Goes(p)'
  BY <1>2, <1>4, <1>6, <1>7, <1>8 DEF Goes, last
<1> QED
  BY <1>2, <1>9

(* A fault that keeps the pace of a replay: it follows the last one at     *)
(* once, with nothing between them, or when everything up to now has run.  *)
LEMMA InPaceMeans ==
  ASSUME FaultInv, InPace, campaign.ran \in 0..Len(sim.trace)
  PROVE  \/ ReachedIn(records, Len(records)) = sim.now /\ Len(sim.trace) = campaign.ran
         \/ /\ ReachedIn(records, Len(records)) < sim.now
            /\ \A e \in Pending(sim) : e.time > sim.now
<1>1. RecordsListed /\ KernelInv(sim)
  BY DEF FaultInv, ResourceInv, EventsInv
<1>2. Len(records) \in Nat /\ sim.now \in Nat
  BY <1>1, ListFacts
<1> DEFINE n == Len(records)
<1>3. CASE records = << >>
  <2>1. ReachedIn(records, n) = 0
    BY <1>3 DEF ReachedIn
  <2>2. sim.trace = << >> => Len(sim.trace) = campaign.ran
    BY <1>2
  <2> QED
    BY <1>2, <1>3, <2>1, <2>2 DEF InPace
<1>4. CASE records # << >>
  <2>1. n # 0 /\ n \in DOMAIN records
    BY <1>1, <1>4 DEF RecordsListed
  <2>2. records[n].injected \in Nat /\ records[n].injected <= sim.now
    BY <2>1 DEF FaultInv, RecordsInv, RecordTyped
  <2>3. ReachedIn(records, n) = records[n].injected /\ Last(records) = records[n]
    BY <2>1 DEF ReachedIn, Last
  <2> HIDE DEF n
  <2> QED
    BY <1>2, <1>4, <2>2, <2>3 DEF InPace, n
<1> QED
  BY <1>3, <1>4

LEMMA FaultGoes ==
  ASSUME FaultInv, Inject, InPace, campaign.ran \in 0..Len(sim.trace), Start' = Start,
         campaign'.ran = Len(sim.trace), NEW p, Goes(p)
  PROVE  \E q : Goes(q)'
<1>1. ResourceInv /\ KernelInv(sim) /\ RecordsListed /\ AnyFault
  BY InjectedFault DEF FaultInv, ResourceInv, EventsInv
<1>2. KernelInv(sim')
  <2>1. ResourceInv'
    BY <1>1, StepKeepsInvariant DEF AnyStep
  <2> QED
    BY <2>1 DEF ResourceInv, EventsInv
<1> DEFINE n == Len(records)
<1>3. PICK r : /\ records' = Append(records, r) /\ r.injected = sim.now /\ Hits(Seen, n, r, Seen')
               /\ sim'.now = sim.now /\ raised' = raised /\ sim'.trace = sim.trace
  BY <1>1, FaultHits
<1> DEFINE R == Append(records, r)
<1>4. n \in Nat /\ Len(R) = n + 1 /\ R[n + 1] = r /\ sim.now \in Nat /\ \A k \in 1..n : R[k] = records[k]
  BY <1>1, ListFacts DEF RecordsListed
<1>5. /\ Len(p) \in Nat \ {0} /\ DOMAIN p = 1..Len(p) /\ Len(p) \in DOMAIN p
      /\ Sight(p[Len(p)].seen) /\ \A i \in DOMAIN p : p[i].faults \in 0..n
  BY GoesFields
<1>6. /\ Path(p, records) /\ p[Len(p)].faults = n /\ Seen = At(p[Len(p)].seen, sim.now)
      /\ \A i \in DOMAIN p : p[i].seen.sim.now \in 0..sim.now
      /\ Len(sim.trace) = campaign.ran => \A i \in 1..Len(p) - 1 : p[i].faults < n
  BY DEF Goes
<1>7. \/ ReachedIn(records, n) = sim.now /\ Len(sim.trace) = campaign.ran
      \/ ReachedIn(records, n) < sim.now /\ \A e \in Pending(sim) : e.time > sim.now
  BY InPaceMeans
<1>8. ReachedIn(R, n) = ReachedIn(records, n)
  <2> HIDE DEF R
  <2> QED
    BY <1>4 DEF ReachedIn
<1>9. Path(p, R)
  <2>1. ASSUME NEW i \in 1..Len(p) - 1, p[i].faults = n
        PROVE  ReachedIn(records, n) < r.injected /\ p[i + 1].seen.sim.now <= r.injected
    <3>1. ReachedIn(records, n) < sim.now
      BY <1>4, <1>6, <1>7, <2>1
    <3>2. i + 1 \in DOMAIN p
      BY <1>5
    <3>3. p[i + 1].seen.sim.now \in 0..sim.now
      BY <1>6, <3>2
    <3> QED
      BY <1>3, <1>4, <3>1, <3>3
  <2>2. records \in Seq(ToSet(records))
    BY <1>1 DEF RecordsListed
  <2> HIDE DEF R
  <2> QED
    BY <1>6, <2>1, <2>2, PathRecorded DEF R
<1> DEFINE z == Point(Seen', Len(R))
           last == p[Len(p)]
<1>10. z.seen = Seen' /\ z.faults = n + 1
  BY <1>4, PointFields
<1> HIDE DEF R, z, n
<1>11. FaultStepIn(last, z, R)
  <2>1. last.faults < Len(R) /\ z.faults = last.faults + 1 /\ R[last.faults + 1] = r /\ last.faults = n
    BY <1>4, <1>6, <1>10
  <2>2. Hits(At(last.seen, r.injected), n, r, z.seen)
    BY <1>3, <1>6, <1>10
  <2>3. \/ ReachedIn(R, n) = r.injected
        \/ \A e \in last.seen.sim.queue : e.time > r.injected
    <3>1. last.seen.sim.queue = Pending(sim)
      <4>1. Seen.sim.queue = last.seen.sim.queue
        BY <1>5, <1>6, AtFields
      <4> QED
        BY <1>1, <4>1, SeenSight
    <3> QED
      BY <1>3, <1>7, <1>8, <3>1
  <2> HIDE DEF last
  <2> QED
    BY <2>1, <2>2, <2>3 DEF FaultStepIn
<1>12. /\ records' = R /\ sim.now <= sim'.now /\ (raised => raised') /\ Len(records) = n
       /\ Len(R) \in Nat /\ n < Len(R) /\ n <= Len(R)
  BY <1>3, <1>4 DEF R, n
<1> QED
  BY <1>1, <1>2, <1>4, <1>9, <1>11, <1>12, GoesFurther DEF z

---------------------------------------------------------------------------
(* The replay of a run with the outcome O, which has gone the path p: it   *)
(* has come to the point j of it, and to the time of the next entry or     *)
(* else not beyond the point.                                              *)
Complete(O, p) ==
  /\ O = [scenario |-> O.scenario, records |-> O.records]
  /\ O.records \in Seq(ToSet(O.records))
  /\ Path(p, O.records)
  /\ \A i \in DOMAIN p : Sight(p[i].seen) /\ p[i].seen.sim.now \in Nat /\ ~p[i].seen.raised
  /\ p[Len(p)].seen = O.scenario /\ p[Len(p)].faults = Len(O.records)
  /\ O.scenario.sim.queue = {}

Remaining(schedule, R, k) ==
  /\ \E S : schedule \in Seq(S)
  /\ Len(schedule) = Len(R) - k
  /\ \A i \in DOMAIN schedule : schedule[i] = Entry(R[k + i])

AtPoint(O, p, j) ==
  /\ campaign.reached = ReachedIn(O.records, Len(records)) /\ Seen = p[j].seen
  /\ Len(records) < Len(O.records) /\ campaign.reached = O.records[Len(records) + 1].injected =>
       sim.now = campaign.reached

BeforeEntry(O, p, j) ==
  /\ Len(records) < Len(O.records) /\ campaign.reached = O.records[Len(records) + 1].injected
  /\ Seen = At(p[j].seen, campaign.reached)
  /\ \A e \in Pending(sim) : e.time > campaign.reached

Follows(O, p, j) ==
  /\ j \in DOMAIN p /\ p[j].faults = Len(records)
  /\ \A i \in DOMAIN records : records[i] = O.records[i]
  /\ Remaining(campaign.schedule, O.records, Len(records))
  /\ AtPoint(O, p, j) \/ BeforeEntry(O, p, j)

Repeating == \E O, p, j : O = campaign.original /\ Complete(O, p) /\ Follows(O, p, j)

ReplayInv ==
  /\ campaign.phase # "prepare" => callers.campaign
  /\ campaign.phase = "prepare" => campaign = NoCampaign /\ (callers.campaign => sim.now = 0)
  /\ campaign.phase = "inject" => Injecting
  /\ campaign.phase = "replay" /\ campaign.paced => Repeating
  /\ ReplayIsExact

LEMMA FollowFields ==
  ASSUME FaultInv, NEW O, NEW p, NEW j, Complete(O, p), Follows(O, p, j)
  PROVE  /\ Len(O.records) \in Nat /\ DOMAIN O.records = 1..Len(O.records)
         /\ Len(records) \in 0..Len(O.records) /\ DOMAIN records = 1..Len(records)
         /\ Len(p) \in Nat \ {0} /\ j \in 1..Len(p) /\ DOMAIN p = 1..Len(p)
         /\ Sight(p[j].seen)
         /\ p[j].seen.raised = raised /\ ~raised
         /\ p[j].seen.sim.queue = Pending(sim)
         /\ j = Len(p) => Len(records) = Len(O.records) /\ Pending(sim) = {}
<1>1. KernelInv(sim) /\ RecordsListed
  BY DEF FaultInv, ResourceInv, EventsInv
<1>2. /\ Len(O.records) \in Nat /\ DOMAIN O.records = 1..Len(O.records)
      /\ Len(records) \in Nat /\ DOMAIN records = 1..Len(records)
  BY <1>1, SeqFacts DEF Complete, RecordsListed
<1>3. Len(p) \in Nat \ {0} /\ j \in 1..Len(p) /\ DOMAIN p = 1..Len(p) /\ p[j].faults \in 0..Len(O.records)
  BY DEF Complete, Follows, Path
<1>4. p[j].faults = Len(records)
  BY DEF Follows
<1>5. Sight(p[j].seen) /\ ~p[j].seen.raised
  BY <1>3 DEF Complete
<1>6. Seen.sim.queue = Pending(sim) /\ Seen.raised = raised
  BY <1>1, SeenSight
<1>7. Seen = p[j].seen \/ \E time : Seen = At(p[j].seen, time)
  BY DEF Follows, AtPoint, BeforeEntry
<1>8. p[j].seen.sim.queue = Pending(sim) /\ p[j].seen.raised = raised
  BY <1>5, <1>6, <1>7, AtFields
<1>9. j = Len(p) => Len(records) = Len(O.records) /\ Pending(sim) = {}
  BY <1>4, <1>8 DEF Complete
<1> QED
  BY <1>2, <1>3, <1>4, <1>5, <1>8, <1>9

LEMMA NextOfPath ==
  ASSUME NEW O, NEW p, Complete(O, p), NEW j \in DOMAIN p, j # Len(p)
  PROVE  /\ j + 1 \in DOMAIN p
         /\ EventStep(p[j], p[j + 1], O.records) \/ FaultStepIn(p[j], p[j + 1], O.records)
BY DEF Complete, Path

(* The first entry of the schedule is that of the next fault of the path.  *)
LEMMA NextEntry ==
  ASSUME FaultInv, NEW O, NEW p, NEW j, Complete(O, p), Follows(O, p, j)
  PROVE  /\ campaign.schedule = << >> <=> Len(records) = Len(O.records)
         /\ campaign.schedule # << >> =>
              /\ Len(records) < Len(O.records) /\ j # Len(p)
              /\ Head(campaign.schedule) = Entry(O.records[Len(records) + 1])
              /\ Head(campaign.schedule).at = O.records[Len(records) + 1].injected
<1> DEFINE k == Len(records)
           R == O.records
           schedule == campaign.schedule
<1>1. Len(R) \in Nat /\ k \in 0..Len(R) /\ (j = Len(p) => k = Len(R))
  BY FollowFields
<1>2. Len(schedule) = Len(R) - k /\ \A i \in DOMAIN schedule : schedule[i] = Entry(R[k + i])
  BY DEF Follows, Remaining
<1>3. PICK S : schedule \in Seq(S)
  BY DEF Follows, Remaining
<1> HIDE DEF k, R, schedule
<1>4. schedule = << >> => k = Len(R)
  BY <1>1, <1>2, EmptyFacts
<1>5. ASSUME schedule # << >>
      PROVE  k < Len(R) /\ Head(schedule) = Entry(R[k + 1])
  <2>1. Len(schedule) > 0 /\ 1 \in DOMAIN schedule /\ Head(schedule) = schedule[1]
    BY <1>3, <1>5
  <2> QED
    BY <1>1, <1>2, <2>1
<1> QED
  BY <1>1, <1>4, <1>5 DEF k, R, schedule, Entry

(* An event of the replay is the next of the path.                         *)
LEMMA EventFollows ==
  ASSUME FaultInv, RunNext, UNCHANGED records, campaign' = campaign,
         NEW O, NEW p, NEW j, Complete(O, p), Follows(O, p, j), AtPoint(O, p, j), j # Len(p),
         EventStep(p[j], p[j + 1], O.records),
         Len(records) < Len(O.records) => campaign.reached # O.records[Len(records) + 1].injected
  PROVE  Follows(O, p, j + 1)'
<1>1. ResourceInv /\ KernelInv(sim)
  BY DEF FaultInv, ResourceInv, EventsInv
<1>2. PICK e \in Pending(sim) : IsEarliest(Seen.sim, e) /\ Seen' = Ran(Seen, e)
  BY <1>1, RunSeen
<1>3. PICK f \in p[j].seen.sim.queue : IsEarliest(p[j].seen.sim, f) /\ p[j + 1].seen = Ran(p[j].seen, f)
  BY DEF EventStep
<1>4. Seen = p[j].seen
  BY DEF AtPoint
<1>5. e = f
  <2>1. f \in Pending(sim)
    BY <1>3, FollowFields
  <2>2. e.time \in Nat /\ f.time \in Nat /\ e.sequence \in Nat /\ f.sequence \in Nat
    BY <1>1, <2>1, KernelFacts
  <2>3. (e = f \/ Before(e, f)) /\ (e = f \/ Before(f, e))
    BY <1>2, <1>3, <1>4 DEF IsEarliest
  <2> QED
    BY <2>2, <2>3 DEF Before
<1>6. Seen' = p[j + 1].seen
  BY <1>2, <1>3, <1>4, <1>5
<1>7. j + 1 \in DOMAIN p /\ p[j + 1].faults = p[j].faults
  BY NextOfPath DEF Follows, EventStep
<1>8. records' = records /\ campaign' = campaign
  OBVIOUS
<1>9. AtPoint(O, p, j + 1)'
  BY <1>6, <1>8 DEF AtPoint
<1> QED
  BY <1>7, <1>8, <1>9 DEF Follows

(* run(until) comes to the time of the next entry.                         *)
LEMMA WaitFollows ==
  ASSUME FaultInv, NEW until \in Nat, Reaches(sim, until), sim' = AtHorizon(sim, until),
         UNCHANGED <<taskVars, workers, replicas, transfers, callers, raised, records>>,
         campaign'.reached = until, campaign'.schedule = campaign.schedule,
         NEW O, NEW p, NEW j, Complete(O, p), Follows(O, p, j),
         Len(records) < Len(O.records), until = O.records[Len(records) + 1].injected
  PROVE  Follows(O, p, j)'
<1>1. EventsInv /\ KernelInv(sim)
  BY DEF FaultInv, ResourceInv, EventsInv
<1>2. Seen' = At(Seen, until)
  BY <1>1, WaitSeen
<1>3. Waited
  BY DEF Waited
<1>4. Pending(sim') = Pending(sim)
  BY <1>1, <1>3, WaitedMoves
<1>5. \A e \in Pending(sim') : e.time > until
  BY <1>4 DEF Reaches
<1>6. Seen' = At(p[j].seen, until)
  <2>1. Sight(p[j].seen)
    BY FollowFields
  <2>2. Seen = p[j].seen \/ Seen = At(p[j].seen, campaign.reached)
    BY DEF Follows, AtPoint, BeforeEntry
  <2> QED
    BY <1>2, <2>1, <2>2, AtFields
<1>7. records' = records /\ campaign'.reached = until /\ campaign'.schedule = campaign.schedule
  OBVIOUS
<1>8. BeforeEntry(O, p, j)'
  BY <1>5, <1>6, <1>7 DEF BeforeEntry
<1> QED
  BY <1>7, <1>8 DEF Follows

(* When an entry is due, the path has a fault there.                       *)
LEMMA FaultIsDue ==
  ASSUME FaultInv, NEW O, NEW p, NEW j, Complete(O, p), Follows(O, p, j),
         Len(records) < Len(O.records), j # Len(p),
         campaign.reached = O.records[Len(records) + 1].injected, campaign.reached \in Nat
  PROVE  /\ j + 1 \in DOMAIN p /\ p[j + 1].faults = Len(records) + 1
         /\ Hits(Seen, Len(records), O.records[Len(records) + 1], p[j + 1].seen)
<1> DEFINE r == O.records[Len(records) + 1]
<1>1. KernelInv(sim) /\ p[j].faults = Len(records)
  BY DEF FaultInv, ResourceInv, EventsInv, Follows
<1>2. Sight(p[j].seen) /\ p[j].seen.sim.queue = Pending(sim) /\ j \in DOMAIN p
  BY FollowFields DEF Follows
<1>3. /\ j + 1 \in DOMAIN p
      /\ EventStep(p[j], p[j + 1], O.records) \/ FaultStepIn(p[j], p[j + 1], O.records)
  BY <1>2, NextOfPath
<1>4. ~EventStep(p[j], p[j + 1], O.records)
  <2> SUFFICES ASSUME EventStep(p[j], p[j + 1], O.records)
               PROVE  FALSE
    OBVIOUS
  <2>1. PICK e \in p[j].seen.sim.queue : e.time <= p[j + 1].seen.sim.now
    BY DEF EventStep
  <2>2. ReachedIn(O.records, Len(records)) < r.injected /\ p[j + 1].seen.sim.now <= r.injected
    BY <1>1 DEF EventStep
  <2>3. e.time \in Nat /\ e \in Pending(sim)
    BY <1>1, <1>2, <2>1, KernelFacts
  <2>4. p[j + 1].seen.sim.now \in Nat
    BY <1>3 DEF Complete
  <2>5. CASE AtPoint(O, p, j)
    BY <2>2, <2>5 DEF AtPoint
  <2>6. CASE BeforeEntry(O, p, j)
    <3>1. e.time > campaign.reached
      BY <2>3, <2>6 DEF BeforeEntry
    <3> QED
      BY <2>1, <2>2, <2>3, <2>4, <3>1
  <2> QED
    BY <2>5, <2>6 DEF Follows
<1>5. FaultStepIn(p[j], p[j + 1], O.records)
  BY <1>3, <1>4
<1>6. p[j + 1].faults = Len(records) + 1 /\ Hits(At(p[j].seen, r.injected), Len(records), r, p[j + 1].seen)
  BY <1>1, <1>5 DEF FaultStepIn
<1>7. Seen = At(p[j].seen, r.injected)
  <2>1. CASE AtPoint(O, p, j)
    <3>1. Seen = p[j].seen /\ sim.now = r.injected
      BY <2>1 DEF AtPoint
    <3> QED
      BY <1>1, <1>2, <3>1, SeenSight, AtFields
  <2>2. CASE BeforeEntry(O, p, j)
    BY <2>2 DEF BeforeEntry
  <2> QED
    BY <2>1, <2>2 DEF Follows
<1> QED
  BY <1>3, <1>6, <1>7

(* An entry that is applied is the fault of the path.                      *)
LEMMA FaultFollows ==
  ASSUME FaultInv, FaultInv', NEW O, NEW p, NEW j, Complete(O, p), Follows(O, p, j),
         campaign.schedule # << >>, campaign.reached = Head(campaign.schedule).at, campaign.reached \in Nat,
         Apply(Head(campaign.schedule))
  PROVE  /\ Last(records') = O.records[Len(records) + 1]
         /\ campaign'.schedule = Tail(campaign.schedule) /\ campaign'.reached = campaign.reached =>
              Follows(O, p, j + 1)'
<1> DEFINE k == Len(records)
           r == O.records[k + 1]
<1>1. /\ k < Len(O.records) /\ j # Len(p) /\ Head(campaign.schedule) = Entry(r)
      /\ Head(campaign.schedule).at = r.injected
  BY NextEntry
<1>2. j + 1 \in DOMAIN p /\ p[j + 1].faults = k + 1 /\ Hits(Seen, k, r, p[j + 1].seen)
  BY <1>1, FaultIsDue
<1>3. ResourceInv /\ ResourceInv' /\ KernelInv(sim) /\ RecordsListed
  BY DEF FaultInv, ResourceInv, EventsInv
<1>4. records' = Append(records, r) /\ Seen' = p[j + 1].seen /\ sim'.now = sim.now
  BY <1>1, <1>2, <1>3, HitsAgain
<1>5. r.injected = sim.now
  BY <1>2, <1>3, HitsApply
<1>6. /\ k \in 0..Len(O.records) /\ Len(O.records) \in Nat /\ DOMAIN records = 1..k
      /\ \A i \in DOMAIN records : records[i] = O.records[i]
  BY FollowFields DEF Follows
<1> HIDE DEF r
<1>7. Len(records') = k + 1 /\ DOMAIN records' = 1..k + 1 /\ records'[k + 1] = r /\ \A i \in 1..k : records'[i] = records[i]
  <2>1. records \in Seq(ToSet(records))
    BY <1>3 DEF RecordsListed
  <2> QED
    BY <1>4, <2>1
<1>8. Last(records') = r
  BY <1>7 DEF Last
<1>9. ASSUME campaign'.schedule = Tail(campaign.schedule), campaign'.reached = campaign.reached
      PROVE  Follows(O, p, j + 1)'
  <2>1. Remaining(campaign'.schedule, O.records, Len(records'))
    <3> DEFINE s == campaign.schedule
               t == campaign'.schedule
    <3>1. PICK S : s \in Seq(S)
      BY DEF Follows, Remaining
    <3>2. Len(s) = Len(O.records) - k /\ \A i \in DOMAIN s : s[i] = Entry(O.records[k + i])
      BY DEF Follows, Remaining
    <3>3. s # << >> /\ t = Tail(s)
      BY <1>9
    <3> HIDE DEF s, t, k
    <3>4. Len(s) > 0 /\ t \in Seq(S) /\ Len(t) = Len(s) - 1 /\ Len(s) \in Nat /\ DOMAIN s = 1..Len(s)
          /\ DOMAIN t = 1..Len(t)
      BY <3>1, <3>3
    <3>5. \A i \in DOMAIN t : t[i] = s[i + 1]
      BY <3>1, <3>3, <3>4
    <3>6. \A i \in DOMAIN t : i + 1 \in DOMAIN s /\ k + (i + 1) = (k + 1) + i
      BY <3>4, <1>6
    <3>7. \A i \in DOMAIN t : t[i] = Entry(O.records[(k + 1) + i])
      <4> TAKE i \in DOMAIN t
      <4>1. t[i] = Entry(O.records[k + (i + 1)])
        BY <3>2, <3>5, <3>6
      <4> QED
        BY <3>6, <4>1
    <3>8. Len(t) = Len(O.records) - (k + 1)
      BY <1>6, <3>2, <3>4
    <3>9. Len(records') = k + 1
      BY <1>7
    <3>10. Remaining(t, O.records, k + 1)
      BY <3>4, <3>7, <3>8 DEF Remaining
    <3> QED
      BY <3>9, <3>10 DEF t
  <2>2. \A i \in DOMAIN records' : records'[i] = O.records[i]
    BY <1>6, <1>7 DEF r
  <2>3. AtPoint(O, p, j + 1)'
    <3>1. ReachedIn(O.records, k + 1) = r.injected
      BY <1>6 DEF ReachedIn, r
    <3>2. campaign'.reached = ReachedIn(O.records, Len(records')) /\ sim'.now = campaign'.reached
      BY <1>1, <1>4, <1>5, <1>7, <1>9, <3>1
    <3> QED
      BY <1>4, <3>2 DEF AtPoint
  <2>4. j + 1 \in DOMAIN p /\ p[j + 1].faults = Len(records')
    BY <1>2, <1>7
  <2> QED
    BY <2>1, <2>2, <2>3, <2>4 DEF Follows
<1> QED
  BY <1>8, <1>9 DEF r

LEMMA ReplayStarts ==
  ASSUME CampaignInit
  PROVE  ReplayInv
<1>1. campaign = NoCampaign /\ sim.now = 0
  BY DEF CampaignInit, FaultInit, ResourceInit, NewSimulator
<1>2. campaign.phase = "prepare"
  BY <1>1 DEF NoCampaign
<1> QED
  BY <1>1, <1>2 DEF ReplayInv, ReplayIsExact

LEMMA NothingReplayed ==
  ASSUME ReplayInv, UNCHANGED campaignVars
  PROVE  ReplayInv'
<1>1. /\ campaign' = campaign /\ records' = records /\ sim' = sim /\ callers' = callers /\ raised' = raised
      /\ Seen' = Seen /\ SetUp' = SetUp
  BY DEF campaignVars, faultVars, vars, Seen, Scenario, SetUp
<1>2. Start' = Start
  BY <1>1 DEF Start
<1>3. \A p : Goes(p) => Goes(p)'
  BY <1>1, <1>2 DEF Goes
<1>4. Injecting => Injecting'
  BY <1>1, <1>3 DEF Injecting
<1>5. \A O, p, j : Follows(O, p, j) => Follows(O, p, j)'
  BY <1>1 DEF Follows, AtPoint, BeforeEntry
<1>6. Repeating => Repeating'
  BY <1>1, <1>5 DEF Repeating
<1>7. ReplayIsExact => ReplayIsExact'
  BY <1>1 DEF ReplayIsExact, Outcome
<1> QED
  BY <1>1, <1>4, <1>6, <1>7 DEF ReplayInv

LEMMA CallerKeepsCampaign ==
  ASSUME CampaignInv, ReplayInv, callers.campaign, CampaignStep
  PROVE  callers'.campaign
<1>1. CASE AnyStep
  BY <1>1, CallersStay DEF CampaignInv
<1>2. CASE StartReplay
  <2>1. SetUp.callers.campaign /\ callers' = SetUp.callers
    BY <1>2 DEF ReplayInv, Injecting, StartReplay, Restored, SetUp
  <2> QED
    BY <2>1
<1> QED
  BY <1>1, <1>2, CampaignStepIsAny DEF CampaignNext

LEMMA PreparingGoes ==
  ASSUME CampaignInv, ReplayInv, callers.campaign, callers'.campaign
  PROVE  /\ Prepare => ReplayInv'
         /\ Prepared => ReplayInv'
<1>1. ASSUME Prepare PROVE ReplayInv'
  <2>1. campaign = NoCampaign /\ sim.now = 0 /\ campaign' = campaign /\ Operation
    BY <1>1 DEF Prepare, ReplayInv
  <2>2. sim'.now = 0
    BY <2>1, OperationTime DEF CampaignInv, FaultInv, ResourceInv, EventsInv
  <2>3. campaign'.phase = "prepare" /\ campaign' = NoCampaign
    BY <2>1 DEF NoCampaign
  <2> QED
    BY <2>2, <2>3 DEF ReplayInv, ReplayIsExact
<1>2. ASSUME Prepared PROVE ReplayInv'
  <2>1. campaign = NoCampaign /\ sim.now = 0 /\ UNCHANGED faultVars /\ records = << >> /\ sim.trace = << >>
    BY <1>2 DEF Prepared, ReplayInv, CampaignInv
  <2>2. campaign' = [NoCampaign EXCEPT !.phase = "inject", !.prepared = Scenario]
    BY <1>2, <2>1 DEF Prepared
  <2>3. campaign'.phase = "inject" /\ SetUp' = Scenario /\ campaign'.ran = 0 /\ campaign'.reached = 0
    <3> DEFINE s == Scenario
    <3>1. campaign' = [NoCampaign EXCEPT !.phase = "inject", !.prepared = s]
      BY <2>2
    <3> HIDE DEF s
    <3>2. campaign'.phase = "inject" /\ campaign'.prepared = s /\ campaign'.ran = 0 /\ campaign'.reached = 0
      BY <3>1 DEF NoCampaign
    <3> QED
      BY <3>2 DEF SetUp, s
  <2>4. \E p : Goes(p)'
    BY <2>1, <2>3, PathStarts DEF CampaignInv
  <2>5. SetUp'.sim.now = 0 /\ SetUp'.callers.campaign
    BY <2>1, <2>3 DEF Scenario
  <2>6. Len(sim'.trace) = 0
    BY <2>1, EmptyFacts DEF faultVars, vars
  <2>7. Injecting'
    BY <2>3, <2>4, <2>5, <2>6 DEF Injecting
  <2> QED
    BY <2>3, <2>7 DEF ReplayInv, ReplayIsExact
<1> QED
  BY <1>1, <1>2

LEMMA OriginalGoes ==
  ASSUME CampaignInv, ReplayInv, callers.campaign, callers'.campaign
  PROVE  /\ RunOriginal => ReplayInv'
         /\ \A until \in Horizons : StopAt(until) => ReplayInv'
         /\ InjectOriginal => ReplayInv'
<1>1. FaultInv /\ KernelInv(sim) /\ Len(sim.trace) \in Nat
  BY KernelFacts DEF CampaignInv, FaultInv, ResourceInv, EventsInv
<1>2. Injecting' /\ campaign'.phase = "inject" => ReplayInv'
  BY DEF ReplayInv, ReplayIsExact
<1>3. ASSUME RunOriginal PROVE ReplayInv'
  <2>1. Injecting /\ RunNext /\ campaign' = campaign /\ records' = records /\ campaign.phase = "inject"
    BY <1>3 DEF RunOriginal, ReplayInv
  <2>2. Len(sim'.trace) = Len(sim.trace) + 1
    <3>1. PICK e : sim'.trace = Append(sim.trace, e)
      BY <1>1, <2>1, RunSeen DEF FaultInv
    <3> QED
      BY <1>1, <3>1, KernelFacts
  <2>3. campaign'.paced => \E p : Goes(p)'
    BY <1>1, <2>1, EventGoes DEF Injecting
  <2>4. SetUp' = SetUp
    BY <2>1 DEF SetUp
  <2>5. campaign'.ran \in 0..Len(sim'.trace)
    BY <1>1, <2>1, <2>2 DEF Injecting
  <2> QED
    BY <1>2, <2>1, <2>3, <2>4, <2>5 DEF Injecting
<1>4. ASSUME NEW until \in Horizons, StopAt(until) PROVE ReplayInv'
  <2>1. until \in Nat
    BY CampaignAssumption
  <2>2. Injecting /\ campaign' = campaign /\ campaign.phase = "inject"
    BY <1>4 DEF StopAt, ReplayInv
  <2>3. sim'.trace = sim.trace
    BY <1>1, <1>4, <2>1, WaitSeen DEF StopAt
  <2>4. campaign'.paced => \E p : Goes(p)'
    BY <1>1, <1>4, <2>1, <2>2, WaitGoes DEF Injecting
  <2>5. SetUp' = SetUp
    BY <2>2 DEF SetUp
  <2> QED
    BY <1>2, <2>2, <2>3, <2>4, <2>5 DEF Injecting
<1>5. ASSUME InjectOriginal PROVE ReplayInv'
  <2>1. Injecting /\ campaign.phase = "inject" /\ Inject
    BY <1>5 DEF InjectOriginal, ReplayInv
  <2> DEFINE pace == campaign.paced /\ InPace
             length == Len(sim.trace)
  <2>2. campaign' = [campaign EXCEPT !.paced = pace, !.ran = length] /\ DOMAIN campaign = DOMAIN NoCampaign
    BY <1>5 DEF InjectOriginal, CampaignInv
  <2> HIDE DEF pace, length
  <2>3. /\ campaign'.phase = campaign.phase /\ campaign'.prepared = campaign.prepared
        /\ campaign'.reached = campaign.reached /\ campaign'.paced = pace /\ campaign'.ran = length
    BY <2>2 DEF NoCampaign
  <2>4. SetUp' = SetUp /\ Start' = Start
    <3>1. SetUp' = SetUp
      BY <2>3 DEF SetUp
    <3> QED
      BY <3>1 DEF Start
  <2>5. campaign'.paced => \E p : Goes(p)'
    <3> SUFFICES ASSUME pace PROVE \E p : Goes(p)'
      BY <2>3
    <3>1. campaign.paced /\ InPace
      BY DEF pace
    <3>2. PICK p : Goes(p)
      BY <2>1, <3>1 DEF Injecting
    <3>3. campaign.ran \in 0..Len(sim.trace) /\ campaign'.ran = Len(sim.trace)
      BY <2>1, <2>3 DEF Injecting, length
    <3> QED
      BY <1>1, <2>1, <2>4, <3>1, <3>2, <3>3, FaultGoes
  <2>6. sim'.trace = sim.trace
    <3>1. AnyFault
      BY <1>1, <2>1, InjectedFault DEF FaultInv, ResourceInv
    <3> QED
      BY <1>1, <3>1, TraceSteps
  <2>7. campaign'.ran \in 0..Len(sim'.trace)
    BY <1>1, <2>3, <2>6 DEF length
  <2>8. SetUp'.sim.now = 0 /\ SetUp'.callers.campaign /\ campaign'.reached = 0
    BY <2>1, <2>3, <2>4 DEF Injecting
  <2>9. Injecting'
    BY <2>5, <2>7, <2>8 DEF Injecting
  <2> QED
    BY <1>2, <2>1, <2>3, <2>9
<1> QED
  BY <1>3, <1>4, <1>5

(* What is restored is what the path of the original run starts from.      *)
LEMMA RestoredIsSeen ==
  ASSUME Restored(SetUp)
  PROVE  Seen' = Start /\ sim'.now = SetUp.sim.now
<1>1. /\ sim' = SetUp.sim /\ workers' = SetUp.workers /\ tasks' = SetUp.tasks /\ queues' = SetUp.queues
      /\ active' = SetUp.active /\ replicas' = SetUp.replicas /\ transfers' = SetUp.transfers
      /\ callers' = SetUp.callers /\ raised' = SetUp.raised
  BY DEF Restored
<1>2. Seen' = Scene(Visible(sim'), workers', tasks', queues', active', replicas', transfers', callers', raised')
  BY SeenIs
<1> QED
  BY <1>1, <1>2 DEF Start

(* When nothing is left to run, the original run has gone a whole path.    *)
LEMMA PathIsComplete ==
  ASSUME FaultInv, Pending(sim) = {}, ~raised, NEW p, Goes(p)
  PROVE  Complete(Outcome, p) /\ Outcome.records = records
<1>1. Outcome.scenario = Seen /\ Outcome.records = records
      /\ Outcome = [scenario |-> Outcome.scenario, records |-> Outcome.records]
  BY DEF Outcome
<1>2. KernelInv(sim) /\ RecordsListed
  BY DEF FaultInv, ResourceInv, EventsInv
<1>3. sim.now \in Nat /\ Seen.sim.queue = {}
  BY <1>2, KernelFacts, SeenSight
<1>4. Len(p) \in DOMAIN p
  BY GoesFields
<1>5. p[Len(p)].seen = Seen
  <2>1. sim.now = p[Len(p)].seen.sim.now /\ Seen = At(p[Len(p)].seen, sim.now) /\ Sight(p[Len(p)].seen)
    BY <1>4 DEF Goes
  <2> QED
    BY <2>1, AtFields
<1>6. \A i \in DOMAIN p : Sight(p[i].seen) /\ p[i].seen.sim.now \in Nat /\ ~p[i].seen.raised
  BY <1>3 DEF Goes
<1> HIDE DEF Outcome
<1>7. Path(p, Outcome.records) /\ p[Len(p)].faults = Len(Outcome.records)
  BY <1>1 DEF Goes
<1>8. Outcome.records \in Seq(ToSet(Outcome.records))
  BY <1>1, <1>2 DEF RecordsListed
<1> QED
  BY <1>1, <1>3, <1>5, <1>6, <1>7, <1>8 DEF Complete

LEMMA ReplayGoes ==
  ASSUME CampaignInv, ReplayInv, callers'.campaign, StartReplay
  PROVE  ReplayInv'
<1>1. FaultInv /\ RecordsListed /\ DOMAIN campaign = DOMAIN NoCampaign
  BY DEF CampaignInv, FaultInv, ResourceInv
<1>2. Injecting /\ Restored(SetUp) /\ records' = << >> /\ Pending(sim) = {} /\ ~raised
  BY DEF StartReplay, ReplayInv, SetUp
<1>3. /\ campaign'.phase = "replay" /\ campaign'.schedule = Schedule /\ campaign'.original = Outcome
      /\ campaign'.paced = campaign.paced /\ campaign'.reached = campaign.reached
  <2> DEFINE s == Schedule
             o == Outcome
  <2>1. campaign' = [campaign EXCEPT !.phase = "replay", !.schedule = s, !.original = o, !.prepared = << >>]
    BY DEF StartReplay
  <2> HIDE DEF s, o
  <2>2. /\ campaign'.phase = "replay" /\ campaign'.schedule = s /\ campaign'.original = o
        /\ campaign'.paced = campaign.paced /\ campaign'.reached = campaign.reached
    BY <1>1, <2>1 DEF NoCampaign
  <2> QED
    BY <2>2 DEF s, o
<1>4. ASSUME campaign.paced PROVE Repeating'
  <2>1. PICK p : Goes(p)
    BY <1>2, <1>4 DEF Injecting
  <2>2. PICK O : O = Outcome
    OBVIOUS
  <2>3. Complete(O, p) /\ O.records = records
    BY <1>1, <1>2, <2>1, <2>2, PathIsComplete
  <2>4. Seen' = p[1].seen /\ p[1].faults = 0 /\ sim'.now = 0 /\ 1 \in DOMAIN p
    BY <1>2, <2>1, RestoredIsSeen, PointFields, GoesFields DEF Goes, Injecting
  <2>5. Len(records') = 0 /\ DOMAIN records' = {}
    BY <1>2, EmptyFacts
  <2>6. Remaining(campaign'.schedule, O.records, 0)
    <3> DEFINE S == {Entry(records[i]) : i \in DOMAIN records}
               n == Len(records)
    <3>1. n \in Nat /\ DOMAIN records = 1..n
      BY <1>1, SeqFacts DEF RecordsListed
    <3>2. Schedule \in [1..n -> S] /\ \A i \in 1..n : Schedule[i] = Entry(records[i])
      BY <3>1 DEF Schedule
    <3> HIDE DEF n, S
    <3>3. Schedule \in Seq(S) /\ Len(Schedule) = n /\ DOMAIN Schedule = 1..n
      BY <3>1, <3>2, SeqIntro
    <3>4. \A i \in DOMAIN Schedule : Schedule[i] = Entry(records[0 + i])
      BY <3>1, <3>2, <3>3
    <3>5. Remaining(Schedule, records, 0)
      BY <3>1, <3>3, <3>4 DEF Remaining, n
    <3> QED
      BY <1>3, <2>3, <3>5
  <2>7. AtPoint(O, p, 1)'
    <3>1. ReachedIn(O.records, 0) = 0
      BY DEF ReachedIn
    <3>2. campaign'.reached = 0
      BY <1>2, <1>3 DEF Injecting
    <3> QED
      BY <2>4, <2>5, <3>1, <3>2 DEF AtPoint
  <2>8. Follows(O, p, 1)'
    BY <2>4, <2>5, <2>6, <2>7 DEF Follows
  <2>9. O = campaign'.original
    BY <1>3, <2>2
  <2> QED
    BY <2>3, <2>8, <2>9 DEF Repeating
<1> QED
  BY <1>3, <1>4 DEF ReplayInv, ReplayIsExact

LEMMA EntryGoes ==
  ASSUME CampaignInv, CampaignInv', ReplayInv, callers'.campaign
  PROVE  /\ RunToEntry => ReplayInv'
         /\ ReplayEntry => ReplayInv'
         /\ FailReplay => ReplayInv'
<1>1. FaultInv /\ FaultInv' /\ DOMAIN campaign = DOMAIN NoCampaign
  BY DEF CampaignInv
<1>2. Replaying => EntryTyped(Head(campaign.schedule)) /\ campaign.schedule # << >> /\ campaign.phase = "replay"
  BY EntriesAreTyped DEF CampaignInv, Replaying, Entries
<1>3. ASSUME RunToEntry PROVE ReplayInv'
  <2> DEFINE at == Head(campaign.schedule).at
  <2>1. campaign.schedule # << >> /\ campaign.phase = "replay" /\ at \in Nat /\ campaign.reached < at
    BY <1>2, <1>3 DEF RunToEntry, EntryTyped, Entries
  <2>2. campaign'.phase = "replay" /\ campaign'.paced = campaign.paced /\ campaign'.original = campaign.original
    <3>1. campaign' = campaign \/ campaign' = [campaign EXCEPT !.reached = at]
      BY <1>3 DEF RunToEntry, Entries
    <3> HIDE DEF at
    <3> QED
      BY <1>1, <2>1, <3>1 DEF NoCampaign
  <2>3. ASSUME campaign.paced PROVE Repeating'
    <3>1. PICK O, p, j : O = campaign.original /\ Complete(O, p) /\ Follows(O, p, j)
      BY <2>1, <2>3 DEF ReplayInv, Repeating
    <3> DEFINE k == Len(records)
    <3>2. k < Len(O.records) /\ j # Len(p) /\ at = O.records[k + 1].injected
      BY <1>1, <2>1, <3>1, NextEntry
    <3>3. CASE (\E e \in Pending(sim) : e.time <= at) /\ RunNext /\ UNCHANGED <<campaign, records>>
      <4>1. AtPoint(O, p, j)
        <5>1. campaign.reached # at
          BY <2>1
        <5> QED
          BY <3>1, <3>2, <5>1 DEF Follows, BeforeEntry
      <4>2. EventStep(p[j], p[j + 1], O.records)
        <5>1. ~FaultStepIn(p[j], p[j + 1], O.records)
          <6>1. p[j].faults = k /\ p[j].seen.sim.queue = Pending(sim) /\ campaign.reached = ReachedIn(O.records, k)
            <7>1. p[j].seen.sim.queue = Pending(sim)
              BY <1>1, <3>1, FollowFields
            <7>2. p[j].faults = k
              BY <3>1 DEF Follows
            <7>3. campaign.reached = ReachedIn(O.records, k)
              BY <4>1 DEF AtPoint
            <7> QED
              BY <7>1, <7>2, <7>3
          <6>2. PICK e \in Pending(sim) : e.time <= at
            BY <3>3
          <6>3. e.time \in Nat
            BY <1>1, KernelFacts DEF FaultInv, ResourceInv, EventsInv
          <6>4. ~(e.time > at) /\ campaign.reached # at
            BY <2>1, <6>2, <6>3
          <6> QED
            BY <3>2, <6>1, <6>4 DEF FaultStepIn
        <5>2. j \in DOMAIN p
          BY <3>1 DEF Follows
        <5> QED
          BY <3>1, <3>2, <5>1, <5>2, NextOfPath
      <4>3. Follows(O, p, j + 1)'
        <5>1. campaign.reached # O.records[k + 1].injected /\ campaign' = campaign
          BY <2>1, <3>2, <3>3
        <5> QED
          BY <1>1, <3>1, <3>2, <3>3, <4>1, <4>2, <5>1, EventFollows
      <4> QED
        BY <2>2, <3>1, <4>3 DEF Repeating
    <3>4. CASE /\ Reaches(sim, at) /\ sim' = AtHorizon(sim, at)
               /\ campaign' = [campaign EXCEPT !.reached = at]
               /\ UNCHANGED <<taskVars, workers, replicas, transfers, callers, raised, records>>
      <4>1. campaign'.reached = at /\ campaign'.schedule = campaign.schedule
        <5> HIDE DEF at
        <5> QED
          BY <1>1, <3>4 DEF NoCampaign
      <4>2. Follows(O, p, j)'
        BY <1>1, <2>1, <3>1, <3>2, <3>4, <4>1, WaitFollows
      <4> QED
        BY <2>2, <3>1, <4>2 DEF Repeating
    <3> QED
      BY <1>3, <3>3, <3>4 DEF RunToEntry, Entries
  <2> QED
    BY <2>2, <2>3 DEF ReplayInv, ReplayIsExact
<1>4. ASSUME ReplayEntry PROVE ReplayInv'
  <2> DEFINE entry == Head(campaign.schedule)
  <2>1. /\ campaign.schedule # << >> /\ campaign.phase = "replay" /\ entry.at \in Nat
        /\ campaign.reached = entry.at /\ Apply(entry)
    BY <1>2, <1>4 DEF ReplayEntry, EntryTyped, Entries
  <2>2. campaign' = IF Entry(Last(records')) = entry
                      THEN [campaign EXCEPT !.schedule = Tail(campaign.schedule)]
                      ELSE [campaign EXCEPT !.phase = "failed"]
    BY <1>4 DEF ReplayEntry, Entries
  <2>3. ASSUME campaign.paced
        PROVE  campaign'.phase = "replay" /\ Repeating'
    <3>1. PICK O, p, j : O = campaign.original /\ Complete(O, p) /\ Follows(O, p, j)
      BY <2>1, <2>3 DEF ReplayInv, Repeating
    <3>2. /\ Last(records') = O.records[Len(records) + 1]
          /\ campaign'.schedule = Tail(campaign.schedule) /\ campaign'.reached = campaign.reached =>
               Follows(O, p, j + 1)'
      BY <1>1, <2>1, <3>1, FaultFollows
    <3>3. entry = Entry(O.records[Len(records) + 1])
      BY <1>1, <2>1, <3>1, NextEntry
    <3> DEFINE rest == Tail(campaign.schedule)
    <3>4. campaign' = [campaign EXCEPT !.schedule = rest]
      BY <2>2, <3>2, <3>3
    <3>5. /\ campaign'.phase = campaign.phase /\ campaign'.schedule = rest
          /\ campaign'.reached = campaign.reached /\ campaign'.original = campaign.original
      <4> HIDE DEF rest
      <4> QED
        BY <1>1, <3>4 DEF NoCampaign
    <3>6. Follows(O, p, j + 1)'
      BY <3>2, <3>5
    <3>7. O = campaign'.original
      BY <3>1, <3>5
    <3> QED
      BY <2>1, <3>1, <3>5, <3>6, <3>7 DEF Repeating
  <2>4. campaign'.paced = campaign.paced /\ campaign'.phase \in {"replay", "failed"}
    <3> DEFINE rest == Tail(campaign.schedule)
    <3>1. campaign' = [campaign EXCEPT !.schedule = rest] \/ campaign' = [campaign EXCEPT !.phase = "failed"]
      BY <2>2
    <3> HIDE DEF rest
    <3> QED
      BY <1>1, <2>1, <3>1 DEF NoCampaign
  <2> QED
    BY <2>3, <2>4 DEF ReplayInv, ReplayIsExact
<1>5. ASSUME FailReplay PROVE ReplayInv'
  <2>1. /\ campaign.schedule # << >> /\ campaign.phase = "replay"
        /\ campaign' = [campaign EXCEPT !.phase = "failed"]
        /\ \/ raised
           \/ campaign.reached = Head(campaign.schedule).at /\ ~Applicable(Head(campaign.schedule))
    BY <1>2, <1>5 DEF FailReplay, Entries
  <2>2. campaign'.paced = campaign.paced /\ campaign'.phase = "failed"
    BY <1>1, <2>1 DEF NoCampaign
  <2>3. ASSUME campaign.paced PROVE FALSE
    <3>1. PICK O, p, j : O = campaign.original /\ Complete(O, p) /\ Follows(O, p, j)
      BY <2>1, <2>3 DEF ReplayInv, Repeating
    <3>2. ~raised
      BY <1>1, <3>1, FollowFields
    <3> DEFINE r == O.records[Len(records) + 1]
    <3>3. /\ Len(records) < Len(O.records) /\ j # Len(p)
          /\ Head(campaign.schedule) = Entry(r) /\ Head(campaign.schedule).at = r.injected
      BY <1>1, <2>1, <3>1, NextEntry
    <3>4. campaign.reached = r.injected /\ campaign.reached \in Nat /\ ~Applicable(Entry(r))
      BY <1>2, <1>5, <2>1, <3>2, <3>3 DEF FailReplay, EntryTyped
    <3>5. Hits(Seen, Len(records), r, p[j + 1].seen)
      BY <1>1, <3>1, <3>3, <3>4, FaultIsDue
    <3> HIDE DEF r
    <3> QED
      BY <1>1, <3>4, <3>5, HitsApply DEF FaultInv, ResourceInv, EventsInv
  <2> QED
    BY <2>2, <2>3 DEF ReplayInv, ReplayIsExact
<1> QED
  BY <1>3, <1>4, <1>5

LEMMA ReplayEnds ==
  ASSUME CampaignInv, ReplayInv, callers'.campaign
  PROVE  /\ RunReplayed => ReplayInv'
         /\ EndReplay => ReplayInv'
<1>1. FaultInv /\ DOMAIN campaign = DOMAIN NoCampaign
  BY DEF CampaignInv
<1>2. ASSUME campaign.schedule = << >>, NEW O, NEW p, NEW j, Complete(O, p), Follows(O, p, j)
      PROVE  /\ Len(records) = Len(O.records) /\ AtPoint(O, p, j) /\ j \in DOMAIN p
             /\ p[j].seen.sim.queue = Pending(sim)
             /\ j # Len(p) => EventStep(p[j], p[j + 1], O.records)
  <2>1. Len(records) = Len(O.records) /\ p[j].faults = Len(records) /\ j \in DOMAIN p
    BY <1>1, <1>2, NextEntry DEF Follows
  <2>2. Len(O.records) \in Nat /\ p[j].seen.sim.queue = Pending(sim)
    BY <1>1, <1>2, FollowFields
  <2>3. AtPoint(O, p, j)
    BY <1>2, <2>1, <2>2 DEF Follows, BeforeEntry
  <2>4. ~FaultStepIn(p[j], p[j + 1], O.records)
    BY <2>1, <2>2 DEF FaultStepIn
  <2>5. j # Len(p) => EventStep(p[j], p[j + 1], O.records)
    BY <1>2, <2>1, <2>4, NextOfPath
  <2> QED
    BY <2>1, <2>2, <2>3, <2>5
<1>3. ASSUME RunReplayed PROVE ReplayInv'
  <2>1. /\ campaign.phase = "replay" /\ campaign.schedule = << >> /\ RunNext
        /\ records' = records /\ campaign' = campaign
    BY <1>3 DEF RunReplayed, Entries
  <2>2. ASSUME campaign.paced PROVE Repeating'
    <3>1. PICK O, p, j : O = campaign.original /\ Complete(O, p) /\ Follows(O, p, j)
      BY <2>1, <2>2 DEF ReplayInv, Repeating
    <3>2. Pending(sim) # {}
      BY <2>1 DEF RunNext, IsEarliest
    <3>3. j # Len(p)
      BY <1>1, <3>1, <3>2, FollowFields
    <3>4. /\ Len(records) = Len(O.records) /\ AtPoint(O, p, j)
          /\ EventStep(p[j], p[j + 1], O.records) /\ Len(O.records) \in Nat
      BY <1>1, <1>2, <2>1, <3>1, <3>3, FollowFields
    <3>5. ~(Len(records) < Len(O.records))
      BY <3>4
    <3>6. Follows(O, p, j + 1)'
      BY <1>1, <2>1, <3>1, <3>3, <3>4, <3>5, EventFollows
    <3>7. O = campaign'.original
      BY <2>1, <3>1
    <3> QED
      BY <3>1, <3>6, <3>7 DEF Repeating
  <2> QED
    BY <2>1, <2>2 DEF ReplayInv, ReplayIsExact
<1>4. ASSUME EndReplay PROVE ReplayInv'
  <2>1. /\ campaign.phase = "replay" /\ campaign.schedule = << >> /\ Pending(sim) = {}
        /\ campaign' = [campaign EXCEPT !.phase = "done"] /\ UNCHANGED faultVars
    BY <1>4 DEF EndReplay, Entries
  <2>2. campaign'.phase = "done" /\ campaign'.paced = campaign.paced /\ campaign'.original = campaign.original
    BY <1>1, <2>1 DEF NoCampaign
  <2>3. Outcome' = Outcome
    BY <2>1 DEF Outcome, Seen, Scenario, faultVars, vars
  <2>4. ASSUME campaign.paced PROVE Outcome = campaign.original
    <3>1. PICK O, p, j : O = campaign.original /\ Complete(O, p) /\ Follows(O, p, j)
      BY <2>1, <2>4 DEF ReplayInv, Repeating
    <3>2. /\ Len(records) = Len(O.records) /\ Seen = p[j].seen /\ p[j].seen.sim.queue = {}
          /\ j # Len(p) => EventStep(p[j], p[j + 1], O.records)
      BY <1>2, <2>1, <3>1 DEF AtPoint
    <3>3. j = Len(p)
      BY <3>2 DEF EventStep
    <3>4. Seen = O.scenario
      BY <3>1, <3>2, <3>3 DEF Complete
    <3>5. records = O.records
      <4>1. records \in Seq(ToSet(records)) /\ O.records \in Seq(ToSet(O.records))
        BY <1>1, <3>1 DEF Complete, FaultInv, ResourceInv, RecordsListed
      <4>2. DOMAIN records = DOMAIN O.records /\ \A i \in DOMAIN records : records[i] = O.records[i]
        BY <1>1, <3>1, <3>2, FollowFields DEF Follows
      <4> DEFINE R == O.records
      <4>3. records = [i \in DOMAIN records |-> records[i]] /\ R = [i \in DOMAIN R |-> R[i]]
        BY <4>1
      <4> QED
        BY <4>2, <4>3
    <3>6. O = [scenario |-> O.scenario, records |-> O.records]
      BY <3>1 DEF Complete
    <3> QED
      BY <3>1, <3>4, <3>5, <3>6 DEF Outcome
  <2> QED
    BY <2>2, <2>3, <2>4 DEF ReplayInv, ReplayIsExact
<1> QED
  BY <1>3, <1>4

LEMMA ReplayStepKeeps ==
  ASSUME CampaignInv, ReplayInv, [CampaignNext]_campaignVars
  PROVE  ReplayInv'
<1>1. CampaignInv'
  BY CampaignStepKeeps
<1>2. CASE UNCHANGED campaignVars
  BY <1>2, NothingReplayed
<1>3. CASE callers.campaign /\ CampaignStep
  <2>1. callers'.campaign
    BY <1>3, CallerKeepsCampaign
  <2> QED
    BY <1>1, <1>3, <2>1, PreparingGoes, OriginalGoes, ReplayGoes, EntryGoes, ReplayEnds DEF CampaignStep
<1>4. CASE ~callers.campaign /\ FaultNext /\ UNCHANGED campaign
  <2>1. campaign.phase = "prepare" /\ campaign = NoCampaign /\ campaign' = campaign
    BY <1>4 DEF ReplayInv
  <2>2. AnyStep
    BY <1>4, FaultStepIsAny DEF CampaignInv, FaultInv
  <2>3. ~callers'.campaign
    BY <1>4, <2>2, CallersStay DEF CampaignInv
  <2> QED
    BY <2>1, <2>3 DEF ReplayInv, ReplayIsExact
<1> QED
  BY <1>2, <1>3, <1>4 DEF CampaignNext

(* A campaign that injected with the pace of a replay can be replayed to   *)
(* the end (FaultScheduleReplayer.replay never finds a target missing or   *)
(* moved, and records what the manifest says), and leaves the same trace,  *)
(* records and resources behind, whatever the resources, the calls of the  *)
(* scenario, the faults and their times.                                   *)
THEOREM ReplaysAreExact == CampaignSpec => []ReplayIsExact
<1>1. CampaignInit => ReplayInv
  BY ReplayStarts
<1>2. CampaignInv /\ ReplayInv /\ [CampaignNext]_campaignVars => ReplayInv'
  BY ReplayStepKeeps
<1>3. ReplayInv => ReplayIsExact
  BY DEF ReplayInv
<1> QED
  BY <1>1, <1>2, <1>3, CampaignInvariant, PTL DEF CampaignSpec
===========================================================================
