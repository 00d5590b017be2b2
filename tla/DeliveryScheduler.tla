------------------------- MODULE DeliveryScheduler -------------------------
(***************************************************************************)
(* The scripted fault queue of prototype/c8_faults.py.  The harness keeps  *)
(* one per message kind and direction; it submits each frame and sends     *)
(* what comes back.  A frame that is not sent at once is delayed, late,    *)
(* held for a reordering, or gone.                                         *)
(***************************************************************************)
EXTENDS Integers, Sequences, FiniteSets

CONSTANTS
  Capacity,   \* the most frames a scheduler may hold back
  None        \* no frame

DeliveryAction == {"DELIVER", "DELAY", "DUPLICATE", "REORDER", "DROP", "LATE_DELIVER"}

(* What the constructor accepts: REORDER directives in consecutive pairs.  *)
PairedReorders(script) ==
  \A i \in DOMAIN script :
    script[i] = "REORDER" =>
      LET run == {j \in 1..i : \A k \in j..i : script[k] = "REORDER"}
      IN Cardinality(run) % 2 = 1 => i < Len(script) /\ script[i + 1] = "REORDER"

ASSUME CapacityAssumption == Capacity \in Nat \ {0}

---------------------------------------------------------------------------
(* A scheduler: the directives not yet used and the frames held back.      *)
NewScheduler(script) ==
  [script |-> script, delayed |-> << >>, late |-> << >>, held |-> None, dropped |-> 0]

PendingCount(q) == Len(q.delayed) + Len(q.late) + (IF q.held # None THEN 1 ELSE 0)

(* Mutant: the reservation lets one frame too many in.                     *)
HasRoomOffByOne(q) == PendingCount(q) <= Capacity

(* _reserve; without room the frame is lost with QueueCapacityError.       *)
HasRoom(q) == PendingCount(q) < Capacity

NextAction(q) == IF q.script = << >> THEN "DELIVER" ELSE Head(q.script)

(* The directive is used up before the room is checked.                    *)
Advanced(q) == IF q.script = << >> THEN q ELSE [q EXCEPT !.script = Tail(@)]

(* What submit returns: the scheduler afterwards, the frames to send now,  *)
(* and whether QueueCapacityError was raised.                              *)
Answer(q, out, full) == [queue |-> q, out |-> out, full |-> full]

Swap(q, frame) == Answer([q EXCEPT !.held = None], <<frame, q.held>>, FALSE)

Submit(q, frame) ==
  LET n == Advanced(q)
      hold(next) == IF HasRoom(n) THEN Answer(next, << >>, FALSE) ELSE Answer(n, << >>, TRUE)
  IN CASE NextAction(q) = "DELIVER" -> Answer(n, <<frame>>, FALSE)
       [] NextAction(q) = "DUPLICATE" -> Answer(n, <<frame, frame>>, FALSE)
       [] NextAction(q) = "DROP" -> Answer([n EXCEPT !.dropped = @ + 1], << >>, FALSE)
       [] NextAction(q) = "DELAY" -> hold([n EXCEPT !.delayed = Append(@, frame)])
       [] NextAction(q) = "LATE_DELIVER" -> hold([n EXCEPT !.late = Append(@, frame)])
       [] NextAction(q) = "REORDER" -> IF q.held = None THEN hold([n EXCEPT !.held = frame])
                                                        ELSE Swap(n, frame)

(* Mutant: the delayed frames are sent newest first.                       *)
FlushNewestFirst(q) ==
  Answer([q EXCEPT !.delayed = << >>],
         [i \in DOMAIN q.delayed |-> q.delayed[Len(q.delayed) + 1 - i]], FALSE)

FlushDelayed(q) == Answer([q EXCEPT !.delayed = << >>], q.delayed, FALSE)
FlushLate(q) == Answer([q EXCEPT !.late = << >>], q.late, FALSE)
FlushReorder(q) ==
  Answer([q EXCEPT !.held = None], IF q.held = None THEN << >> ELSE <<q.held>>, FALSE)

===========================================================================
