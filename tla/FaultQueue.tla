---------------------------- MODULE FaultQueue ----------------------------
(***************************************************************************)
(* One DeliveryScheduler in use: frames 1, 2, 3, ... are submitted, and    *)
(* the harness flushes what is held back whenever it likes.                *)
(***************************************************************************)
EXTENDS DeliveryScheduler

CONSTANTS
  Scripts,    \* the fault scripts the scheduler may be built with
  MaxFrames   \* bound: frames submitted in a behaviour

ASSUME ScriptAssumption ==
  /\ MaxFrames \in Nat
  /\ None \notin 1..MaxFrames
  /\ \A script \in Scripts : script \in Seq(DeliveryAction) /\ PairedReorders(script)

VARIABLES
  queue,      \* the scheduler
  submitted,  \* how many frames have been submitted
  actions,    \* actions[n]: what the script said for frame n
  sent,       \* the frames sent, in order
  refused     \* the frames lost to QueueCapacityError

vars == <<queue, submitted, actions, sent, refused>>

Init ==
  /\ queue \in {NewScheduler(script) : script \in Scripts}
  /\ submitted = 0
  /\ actions = << >>
  /\ sent = << >>
  /\ refused = {}

(* _queue_or_send of the harness with this scheduler.                      *)
SubmitNext ==
  LET frame == submitted + 1
      answer == Submit(queue, frame)
  IN /\ submitted < MaxFrames
     /\ queue' = answer.queue
     /\ submitted' = frame
     /\ actions' = Append(actions, NextAction(queue))
     /\ sent' = sent \o answer.out
     /\ refused' = IF answer.full THEN refused \cup {frame} ELSE refused

Flush(answer) ==
  /\ answer.out # << >>
  /\ queue' = answer.queue
  /\ sent' = sent \o answer.out
  /\ UNCHANGED <<submitted, actions, refused>>

(* What the harness does with a scheduler; it never calls flush_reorder.   *)
HarnessNext ==
  \/ SubmitNext
  \/ Flush(FlushDelayed(queue))
  \/ Flush(FlushLate(queue))

Next == HarnessNext \/ Flush(FlushReorder(queue))

HarnessSpec == Init /\ [][HarnessNext]_vars

Spec == Init /\ [][Next]_vars

---------------------------------------------------------------------------
Copies(n) == Cardinality({i \in DOMAIN sent : sent[i] = n})
Held(n) ==
  \/ n = queue.held
  \/ \E i \in DOMAIN queue.delayed : queue.delayed[i] = n
  \/ \E i \in DOMAIN queue.late : queue.late[i] = n

(* Type correctness of the scheduler and its log.                          *)
TypeOK ==
  /\ queue.script \in Seq(DeliveryAction)
  /\ queue.delayed \in Seq(1..submitted)
  /\ queue.late \in Seq(1..submitted)
  /\ queue.held \in (1..submitted) \cup {None}
  /\ queue.dropped \in 0..submitted
  /\ submitted \in 0..MaxFrames
  /\ sent \in Seq(1..submitted)
  /\ refused \subseteq 1..submitted

(* The queues are bounded: whatever the script and however late the        *)
(* flushes, no more than Capacity frames are held back.                    *)
Bounded == PendingCount(queue) <= Capacity

(* Every frame is accounted for: sent once, twice when duplicated, never   *)
(* when dropped, and otherwise either held back or refused for lack of     *)
(* room, but not two of these.                                             *)
NoFrameUnaccounted ==
  /\ \A n \in 1..submitted :
       CASE actions[n] = "DUPLICATE" -> Copies(n) = 2 /\ ~Held(n) /\ n \notin refused
         [] actions[n] = "DROP" -> Copies(n) = 0 /\ ~Held(n) /\ n \notin refused
         [] OTHER -> Copies(n) + (IF Held(n) THEN 1 ELSE 0) + (IF n \in refused THEN 1 ELSE 0) = 1
  /\ queue.dropped = Cardinality({n \in 1..submitted : actions[n] = "DROP"})

(* A frame the script delays is overtaken only between its submission and  *)
(* the next flush: delayed frames leave in the order they came, and so do  *)
(* late ones.                                                              *)
HeldLeaveInOrder ==
  \A kind \in {"DELAY", "LATE_DELIVER"} : \A i, j \in DOMAIN sent :
    i < j /\ actions[sent[i]] = kind /\ actions[sent[j]] = kind => sent[i] < sent[j]

(* "REORDER is a two-frame action ...: the first holds a frame and the     *)
(* second emits the new frame before the held one"                         *)
(* (prototype/c8_faults.py:26-27): a held frame waits for the next REORDER *)
(* frame and no longer, and two that leave in reverse are neighbours.      *)
PairsLeaveTogether ==
  LET NoReorder(i, j) == \A n \in i + 1..j - 1 : actions[n] # "REORDER"
  IN /\ queue.held # None => NoReorder(queue.held, submitted + 1)
     /\ \A i \in 1..Len(sent) - 1 :
          (\A n \in {sent[i], sent[i + 1]} : actions[n] = "REORDER")
            => NoReorder(sent[i + 1], sent[i])

(* Frames leave as the script says, all of them and in their order, also   *)
(* when several kinds share the capacity and flushes come late.            *)
FramesLeaveAsScripted == NoFrameUnaccounted /\ HeldLeaveInOrder /\ PairsLeaveTogether
===========================================================================
