------------------------- MODULE FaultQueueProofs -------------------------
(***************************************************************************)
(* For every script, every capacity and every number of frames: the        *)
(* scheduler holds back no more frames than its capacity, and every frame  *)
(* leaves as its directive says.                                           *)
(***************************************************************************)
EXTENDS FaultQueue, FiniteSetTheorems, TLAPS

(* A scheduler whose frames are drawn from the set F.                      *)
Scheduler(F) ==
  [script : Seq(DeliveryAction), delayed : Seq(F), late : Seq(F), held : F \cup {None},
   dropped : Nat]

(* The inductive invariant: the frames known to the queue and to the log   *)
(* have been submitted, and the queue has not outgrown its capacity.       *)
QueueInv ==
  /\ submitted \in 0..MaxFrames
  /\ queue \in Scheduler(1..submitted)
  /\ queue.dropped <= submitted
  /\ sent \in Seq(1..submitted)
  /\ refused \subseteq 1..submitted
  /\ Bounded

---------------------------------------------------------------------------
(* More frames only make more schedulers (Seq and the records of           *)
(* prototype/c8_faults.py are monotonic in the set of frames).             *)
LEMMA SchedulerGrows ==
  ASSUME NEW F, NEW G, F \subseteq G, NEW q \in Scheduler(F)
  PROVE  q \in Scheduler(G)
<1>1. Seq(F) \subseteq Seq(G)
  OBVIOUS
<1> QED
  BY <1>1 DEF Scheduler

(* The number of frames a scheduler holds back is a natural number.        *)
LEMMA PendingIsNat ==
  ASSUME NEW F, NEW q \in Scheduler(F)
  PROVE  PendingCount(q) \in Nat
BY DEF Scheduler, PendingCount

(* What submit or a flush returns about a scheduler that held q: within    *)
(* the capacity, frames of F only, at most one more counted as dropped.    *)
Keeps(answer, q, F) ==
  /\ answer.queue \in Scheduler(F)
  /\ answer.out \in Seq(F)
  /\ PendingCount(answer.queue) <= Capacity
  /\ answer.queue.dropped <= q.dropped + 1

(* An answer keeps the scheduler when its parts do.                        *)
LEMMA AnswerKeeps ==
  ASSUME NEW F, NEW q, NEW r \in Scheduler(F), NEW out \in Seq(F), NEW full,
         PendingCount(r) <= Capacity, r.dropped <= q.dropped + 1
  PROVE  Keeps(Answer(r, out, full), q, F)
BY DEF Keeps, Answer

(* Taking the next directive leaves the held frames as they are.           *)
LEMMA AdvancedKeeps ==
  ASSUME NEW F, NEW q \in Scheduler(F)
  PROVE  /\ Advanced(q) \in Scheduler(F)
         /\ Advanced(q).delayed = q.delayed
         /\ Advanced(q).late = q.late
         /\ Advanced(q).held = q.held
         /\ Advanced(q).dropped = q.dropped
         /\ PendingCount(Advanced(q)) = PendingCount(q)
         /\ NextAction(q) \in DeliveryAction
<1>1. CASE q.script = << >>
  BY <1>1 DEF Advanced, NextAction, DeliveryAction
<1>2. CASE q.script # << >>
  <2>1. Tail(q.script) \in Seq(DeliveryAction) /\ Head(q.script) \in DeliveryAction
    BY <1>2 DEF Scheduler
  <2>2. /\ Advanced(q) \in Scheduler(F)
        /\ Advanced(q).delayed = q.delayed
        /\ Advanced(q).late = q.late
        /\ Advanced(q).held = q.held
        /\ Advanced(q).dropped = q.dropped
    BY <1>2, <2>1 DEF Advanced, Scheduler
  <2> QED
    BY <1>2, <2>1, <2>2 DEF NextAction, PendingCount
<1> QED
  BY <1>1, <1>2

(* Holding one more frame back, after _reserve has found room for it.      *)
LEMMA HoldKeeps ==
  ASSUME NEW F, None \notin F, NEW frame \in F, NEW q, NEW n \in Scheduler(F),
         n.dropped = q.dropped, HasRoom(n),
         NEW r \in {[n EXCEPT !.delayed = Append(@, frame)],
                    [n EXCEPT !.late = Append(@, frame)]}
                   \cup (IF n.held = None THEN {[n EXCEPT !.held = frame]} ELSE {})
  PROVE  Keeps(Answer(r, << >>, FALSE), q, F)
<1>0. << >> \in Seq(F) /\ PendingCount(n) \in Nat
  BY PendingIsNat
<1>1. CASE r = [n EXCEPT !.delayed = Append(@, frame)]
  <2>0. Append(n.delayed, frame) \in Seq(F) /\ Len(Append(n.delayed, frame)) = Len(n.delayed) + 1
    BY DEF Scheduler
  <2>1. r \in Scheduler(F) /\ r.delayed = Append(n.delayed, frame) /\ r.late = n.late
          /\ r.held = n.held /\ r.dropped = n.dropped
    BY <1>1, <2>0 DEF Scheduler
  <2>2. PendingCount(r) = PendingCount(n) + 1
    BY <2>0, <2>1 DEF PendingCount, Scheduler
  <2>3. PendingCount(r) <= Capacity
    BY <1>0, <2>2, CapacityAssumption DEF HasRoom
  <2>4. r.dropped <= q.dropped + 1
    BY <2>1 DEF Scheduler
  <2> QED
    BY <1>0, <2>1, <2>3, <2>4, AnswerKeeps
<1>2. CASE r = [n EXCEPT !.late = Append(@, frame)]
  <2>0. Append(n.late, frame) \in Seq(F) /\ Len(Append(n.late, frame)) = Len(n.late) + 1
    BY DEF Scheduler
  <2>1. r \in Scheduler(F) /\ r.late = Append(n.late, frame) /\ r.delayed = n.delayed
          /\ r.held = n.held /\ r.dropped = n.dropped
    BY <1>2, <2>0 DEF Scheduler
  <2>2. PendingCount(r) = PendingCount(n) + 1
    BY <2>0, <2>1 DEF PendingCount, Scheduler
  <2>3. PendingCount(r) <= Capacity
    BY <1>0, <2>2, CapacityAssumption DEF HasRoom
  <2>4. r.dropped <= q.dropped + 1
    BY <2>1 DEF Scheduler
  <2> QED
    BY <1>0, <2>1, <2>3, <2>4, AnswerKeeps
<1>3. CASE n.held = None /\ r = [n EXCEPT !.held = frame]
  <2>1. r \in Scheduler(F) /\ r.late = n.late /\ r.delayed = n.delayed
          /\ r.held = frame /\ r.dropped = n.dropped
    BY <1>3 DEF Scheduler
  <2>0. frame # None
    OBVIOUS
  <2>2. PendingCount(r) = PendingCount(n) + 1
    BY <1>3, <2>0, <2>1 DEF PendingCount, Scheduler
  <2>3. PendingCount(r) <= Capacity
    BY <1>0, <2>2, CapacityAssumption DEF HasRoom
  <2>4. r.dropped <= q.dropped + 1
    BY <2>1 DEF Scheduler
  <2> QED
    BY <1>0, <2>1, <2>3, <2>4, AnswerKeeps
<1> QED
  BY <1>1, <1>2, <1>3

(* submit keeps a scheduler a scheduler within its capacity.               *)
LEMMA SubmitKeeps ==
  ASSUME NEW F, None \notin F, NEW frame \in F, NEW q \in Scheduler(F),
         PendingCount(q) <= Capacity
  PROVE  Keeps(Submit(q, frame), q, F)
<1> DEFINE n == Advanced(q)
           hold(next) == IF HasRoom(n) THEN Answer(next, << >>, FALSE) ELSE Answer(n, << >>, TRUE)
<1>1. /\ n \in Scheduler(F)
      /\ n.held = q.held
      /\ n.dropped = q.dropped /\ n.dropped \in Nat
      /\ PendingCount(n) <= Capacity
      /\ NextAction(q) \in DeliveryAction
  BY AdvancedKeeps DEF Scheduler
<1>2. << >> \in Seq(F) /\ <<frame>> \in Seq(F) /\ <<frame, frame>> \in Seq(F)
  OBVIOUS
<1>3. \A out \in Seq(F), full \in BOOLEAN : Keeps(Answer(n, out, full), q, F)
  BY <1>1, AnswerKeeps
<1>4. CASE NextAction(q) = "DELIVER"
  <2>1. Submit(q, frame) = Answer(n, <<frame>>, FALSE)
    BY <1>4 DEF Submit
  <2> QED
    BY <1>2, <1>3, <2>1
<1>5. CASE NextAction(q) = "DUPLICATE"
  <2>1. Submit(q, frame) = Answer(n, <<frame, frame>>, FALSE)
    BY <1>5 DEF Submit
  <2> QED
    BY <1>2, <1>3, <2>1
<1>6. CASE NextAction(q) = "DROP"
  <2> DEFINE r == [n EXCEPT !.dropped = @ + 1]
  <2>1. Submit(q, frame) = Answer(r, << >>, FALSE)
    BY <1>6 DEF Submit
  <2>2. r \in Scheduler(F) /\ r.delayed = n.delayed /\ r.late = n.late /\ r.held = n.held
          /\ r.dropped = n.dropped + 1
    BY <1>1, SMTT(30) DEF Scheduler
  <2>3. PendingCount(r) = PendingCount(n)
    BY <2>2 DEF PendingCount
  <2>4. r.dropped <= q.dropped + 1
    BY <1>1, <2>2
  <2> QED
    BY <1>1, <1>2, <2>1, <2>2, <2>3, <2>4, AnswerKeeps
<1>7. CASE NextAction(q) = "DELAY"
  <2>1. Submit(q, frame) = hold([n EXCEPT !.delayed = Append(@, frame)])
    BY <1>7 DEF Submit
  <2> QED
    BY <1>1, <1>2, <1>3, <2>1, HoldKeeps
<1>8. CASE NextAction(q) = "LATE_DELIVER"
  <2>1. Submit(q, frame) = hold([n EXCEPT !.late = Append(@, frame)])
    BY <1>8 DEF Submit
  <2> QED
    BY <1>1, <1>2, <1>3, <2>1, HoldKeeps
<1>9. CASE NextAction(q) = "REORDER" /\ q.held = None
  <2>1. Submit(q, frame) = hold([n EXCEPT !.held = frame])
    BY <1>9 DEF Submit
  <2> QED
    BY <1>1, <1>2, <1>3, <1>9, <2>1, HoldKeeps
<1>10. CASE NextAction(q) = "REORDER" /\ q.held # None
  <2> DEFINE r == [n EXCEPT !.held = None]
  <2>1. Submit(q, frame) = Answer(r, <<frame, q.held>>, FALSE)
    BY <1>1, <1>10 DEF Submit, Swap
  <2>2. r \in Scheduler(F) /\ r.late = n.late /\ r.delayed = n.delayed
          /\ r.held = None /\ r.dropped = n.dropped
    BY <1>1 DEF Scheduler
  <2>3. PendingCount(r) <= PendingCount(n)
    BY <1>1, <2>2 DEF PendingCount, Scheduler
  <2>4. PendingCount(r) <= Capacity
    BY <1>1, <2>2, <2>3, PendingIsNat, CapacityAssumption
  <2>5. <<frame, q.held>> \in Seq(F)
    BY <1>10 DEF Scheduler
  <2>6. r.dropped <= q.dropped + 1
    BY <1>1, <2>2
  <2> QED
    BY <2>1, <2>2, <2>4, <2>5, <2>6, AnswerKeeps
<1> QED
  BY <1>1, <1>4, <1>5, <1>6, <1>7, <1>8, <1>9, <1>10 DEF DeliveryAction

(* The three flushes return frames of the scheduler and only empty it.     *)
LEMMA FlushKeeps ==
  ASSUME NEW F, NEW q \in Scheduler(F), PendingCount(q) <= Capacity,
         NEW answer \in {FlushDelayed(q), FlushLate(q), FlushReorder(q)}
  PROVE  Keeps(answer, q, F) /\ answer.queue.dropped = q.dropped
<1>0. ASSUME NEW r \in Scheduler(F), NEW out \in Seq(F), answer = Answer(r, out, FALSE),
             PendingCount(r) <= PendingCount(q), r.dropped = q.dropped
      PROVE  Keeps(answer, q, F) /\ answer.queue.dropped = q.dropped
  <2>1. PendingCount(r) <= Capacity
    BY <1>0, PendingIsNat, CapacityAssumption
  <2>2. r.dropped <= q.dropped + 1
    BY <1>0 DEF Scheduler
  <2> QED
    BY <1>0, <2>1, <2>2, AnswerKeeps DEF Answer
<1>1. CASE answer = FlushDelayed(q)
  <2> DEFINE r == [q EXCEPT !.delayed = << >>]
  <2>1. answer = Answer(r, q.delayed, FALSE)
    BY <1>1 DEF FlushDelayed
  <2>0. << >> \in Seq(F)
    OBVIOUS
  <2>2. r \in Scheduler(F) /\ r.delayed = << >> /\ r.late = q.late /\ r.held = q.held
          /\ r.dropped = q.dropped
    BY <2>0 DEF Scheduler
  <2>3. PendingCount(r) <= PendingCount(q)
    BY <2>2 DEF PendingCount, Scheduler
  <2>4. q.delayed \in Seq(F) /\ q.dropped <= q.dropped + 1
    BY DEF Scheduler
  <2> HIDE DEF r
  <2> QED
    BY <1>0, <2>1, <2>2, <2>3, <2>4
<1>2. CASE answer = FlushLate(q)
  <2> DEFINE r == [q EXCEPT !.late = << >>]
  <2>1. answer = Answer(r, q.late, FALSE)
    BY <1>2 DEF FlushLate
  <2>0. << >> \in Seq(F)
    OBVIOUS
  <2>2. r \in Scheduler(F) /\ r.late = << >> /\ r.delayed = q.delayed /\ r.held = q.held
          /\ r.dropped = q.dropped
    BY <2>0 DEF Scheduler
  <2>3. PendingCount(r) <= PendingCount(q)
    BY <2>2 DEF PendingCount, Scheduler
  <2>4. q.late \in Seq(F) /\ q.dropped <= q.dropped + 1
    BY DEF Scheduler
  <2> HIDE DEF r
  <2> QED
    BY <1>0, <2>1, <2>2, <2>3, <2>4
<1>3. CASE answer = FlushReorder(q)
  <2> DEFINE r == [q EXCEPT !.held = None]
             out == IF q.held = None THEN << >> ELSE <<q.held>>
  <2>1. answer = Answer(r, out, FALSE)
    BY <1>3 DEF FlushReorder
  <2>2. r \in Scheduler(F) /\ r.late = q.late /\ r.delayed = q.delayed /\ r.held = None
          /\ r.dropped = q.dropped
    BY DEF Scheduler
  <2>3. PendingCount(r) <= PendingCount(q)
    BY <2>2 DEF PendingCount, Scheduler
  <2>4. out \in Seq(F)
    BY DEF Scheduler
  <2> HIDE DEF r, out
  <2> QED
    BY <1>0, <2>1, <2>2, <2>3, <2>4
<1> QED
  BY <1>1, <1>2, <1>3

---------------------------------------------------------------------------
(* A fresh DeliveryScheduler satisfies the inductive invariant.            *)
LEMMA InitInv == Init => QueueInv
<1> SUFFICES ASSUME Init PROVE QueueInv
  OBVIOUS
<1>1. PICK script \in Scripts : queue = NewScheduler(script)
  BY DEF Init
<1>2. script \in Seq(DeliveryAction)
  BY ScriptAssumption
<1>3. queue \in Scheduler(1..submitted)
  BY <1>1, <1>2 DEF NewScheduler, Scheduler
<1>4. PendingCount(queue) = 0
  BY <1>1 DEF NewScheduler, PendingCount
<1> QED
  BY <1>1, <1>3, <1>4, ScriptAssumption, CapacityAssumption DEF Init, QueueInv, Bounded, NewScheduler

(* No step of the harness breaks it.                                       *)
LEMMA NextInv == QueueInv /\ [Next]_vars => QueueInv'
<1> SUFFICES ASSUME QueueInv, [Next]_vars PROVE QueueInv'
  OBVIOUS
<1> USE DEF QueueInv, Bounded
<1>1. CASE SubmitNext
  <2> DEFINE frame == submitted + 1
             answer == Submit(queue, frame)
             F == 1..frame
  <2>1. /\ frame \in F /\ None \notin F /\ frame \in 0..MaxFrames
        /\ 1..submitted \subseteq F
    BY <1>1, ScriptAssumption DEF SubmitNext
  <2>2. queue \in Scheduler(F) /\ sent \in Seq(F)
    <3>1. Seq(1..submitted) \subseteq Seq(F)
      BY <2>1
    <3> QED
      BY <2>1, <3>1, SchedulerGrows
  <2>3. /\ answer.queue \in Scheduler(F)
        /\ answer.out \in Seq(F)
        /\ PendingCount(answer.queue) <= Capacity
        /\ answer.queue.dropped <= queue.dropped + 1
    <3> HIDE DEF frame, F
    <3> QED
      BY <2>1, <2>2, SubmitKeeps DEF Keeps
  <2>4. /\ queue' = answer.queue /\ submitted' = frame /\ sent' = sent \o answer.out
        /\ refused' \subseteq refused \cup {frame}
    BY <1>1 DEF SubmitNext
  <2>5. queue.dropped \in Nat /\ answer.queue.dropped \in Nat
    BY <2>2, <2>3 DEF Scheduler
  <2>6. sent' \in Seq(F)
    BY <2>2, <2>3, <2>4
  <2> HIDE DEF answer
  <2>7. queue'.dropped <= submitted'
    BY <2>3, <2>4, <2>5, <2>1
  <2> QED
    BY <2>1, <2>3, <2>4, <2>6, <2>7
<1>2. ASSUME NEW answer \in {FlushDelayed(queue), FlushLate(queue), FlushReorder(queue)},
             Flush(answer)
      PROVE  QueueInv'
  <2>1. /\ answer.queue \in Scheduler(1..submitted)
        /\ answer.out \in Seq(1..submitted)
        /\ PendingCount(answer.queue) <= Capacity
        /\ answer.queue.dropped = queue.dropped
    BY FlushKeeps DEF Keeps
  <2>2. /\ queue' = answer.queue /\ sent' = sent \o answer.out
        /\ UNCHANGED <<submitted, refused>>
    BY <1>2 DEF Flush
  <2>3. sent' \in Seq(1..submitted)
    BY <2>1, <2>2
  <2> QED
    BY <2>1, <2>2, <2>3
<1>3. CASE UNCHANGED vars
  BY <1>3 DEF vars, PendingCount
<1> QED
  BY <1>1, <1>2, <1>3 DEF Next, HarnessNext

---------------------------------------------------------------------------
(* The queues of the fault harness are bounded: _reserve is enough to keep *)
(* pending_count within capacity, for every script and order of flushes.   *)
THEOREM QueuesBounded == Spec => []Bounded
<1>1. QueueInv => Bounded
  BY DEF QueueInv
<1> QED
  BY <1>1, InitInv, NextInv, PTL DEF Spec

(* Type correctness of a DeliveryScheduler in use: what it holds and what  *)
(* has been sent are frames that were submitted.                           *)
THEOREM TypeCorrect == Spec => []TypeOK
<1>1. QueueInv => TypeOK
  <2> SUFFICES ASSUME QueueInv PROVE TypeOK
    OBVIOUS
  <2>1. queue.dropped \in Nat /\ submitted \in Nat
    BY DEF QueueInv, Scheduler
  <2> QED
    BY <2>1 DEF QueueInv, Scheduler, TypeOK
<1> QED
  BY <1>1, InitInv, NextInv, PTL DEF Spec

(* The same bound when nobody calls flush_reorder, as in the harness.      *)
THEOREM HarnessQueuesBounded == HarnessSpec => []Bounded
<1>1. HarnessNext => Next
  BY DEF Next
<1>2. QueueInv => Bounded
  BY DEF QueueInv
<1> QED
  BY <1>1, <1>2, InitInv, NextInv, PTL DEF HarnessSpec

---------------------------------------------------------------------------
(* How often a frame occurs in what is sent.                               *)
Occurrences(s, n) == Cardinality({i \in DOMAIN s : s[i] = n})

LEMMA Concatenated ==
  ASSUME NEW F, NEW s \in Seq(F), NEW t \in Seq(F)
  PROVE  /\ s \o t \in Seq(F)
         /\ DOMAIN (s \o t) = 1..Len(s) + Len(t)
         /\ \A i \in DOMAIN s : (s \o t)[i] = s[i]
         /\ \A i \in DOMAIN t : (s \o t)[Len(s) + i] = t[i]
         /\ \A i \in DOMAIN (s \o t) :
              i \notin DOMAIN s => i - Len(s) \in DOMAIN t /\ (s \o t)[i] = t[i - Len(s)]
OBVIOUS

LEMMA OccurrencesFinite ==
  ASSUME NEW F, NEW s \in Seq(F), NEW n
  PROVE  /\ IsFiniteSet({i \in DOMAIN s : s[i] = n})
         /\ Occurrences(s, n) \in Nat
<1>1. IsFiniteSet(1..Len(s)) /\ {i \in DOMAIN s : s[i] = n} \in SUBSET (1..Len(s))
  BY FS_Interval
<1>2. IsFiniteSet({i \in DOMAIN s : s[i] = n})
  BY <1>1, FS_Subset
<1> QED
  BY <1>2, FS_CardinalityType DEF Occurrences

(* What is sent in two steps is sent as often as in both together.         *)
LEMMA OccurrencesAdd ==
  ASSUME NEW F, NEW s \in Seq(F), NEW t \in Seq(F), NEW n
  PROVE  Occurrences(s \o t, n) = Occurrences(s, n) + Occurrences(t, n)
<1> DEFINE S == {i \in DOMAIN s : s[i] = n}
           T == {i \in DOMAIN t : t[i] = n}
           U == {i \in DOMAIN (s \o t) : i \notin DOMAIN s /\ (s \o t)[i] = n}
           f == [i \in T |-> Len(s) + i]
<1>1. {i \in DOMAIN (s \o t) : (s \o t)[i] = n} = S \cup U
  BY Concatenated
<1>2. S \cap U = {}
  OBVIOUS
<1>3. IsFiniteSet(S) /\ IsFiniteSet(T)
  BY OccurrencesFinite
<1>4. f \in Injection(T, U) /\ f \in Surjection(T, U)
  <2>1. f \in [T -> U]
    BY Concatenated
  <2>2. \A i, j \in T : f[i] = f[j] => i = j
    OBVIOUS
  <2>3. \A u \in U : u - Len(s) \in T /\ f[u - Len(s)] = u
    BY Concatenated
  <2> HIDE DEF f, T, U
  <2> QED
    BY <2>1, <2>2, <2>3 DEF Injection, IsInjective, Surjection
<1>5. IsFiniteSet(U) /\ Cardinality(U) = Cardinality(T)
  <2> HIDE DEF f, T, U
  <2> QED
    BY <1>3, <1>4, FS_Surjection
<1>6. Cardinality(S \cup U) = Cardinality(S) + Cardinality(U)
  <2> HIDE DEF S, U
  <2>1. Cardinality(S \cap U) = 0
    BY <1>2, FS_EmptySet
  <2>2. Cardinality(S) \in Nat /\ Cardinality(U) \in Nat
    BY <1>3, <1>5, FS_CardinalityType
  <2>3. Cardinality(S \cup U) = Cardinality(S) + Cardinality(U) - Cardinality(S \cap U)
    BY <1>3, <1>5, FS_Union
  <2> QED
    BY <2>1, <2>2, <2>3
<1> QED
  BY <1>1, <1>5, <1>6 DEF Occurrences

LEMMA OccursNever ==
  ASSUME NEW s, NEW n, \A i \in DOMAIN s : s[i] # n
  PROVE  Occurrences(s, n) = 0
<1>1. {i \in DOMAIN s : s[i] = n} = {}
  OBVIOUS
<1> QED
  BY <1>1, FS_EmptySet DEF Occurrences

LEMMA OccursOnce ==
  ASSUME NEW s, NEW n, NEW k \in DOMAIN s, s[k] = n,
         \A i \in DOMAIN s : s[i] = n => i = k
  PROVE  Occurrences(s, n) = 1
<1>1. {i \in DOMAIN s : s[i] = n} = {k}
  OBVIOUS
<1> QED
  BY <1>1, FS_Singleton DEF Occurrences

LEMMA OccursTwice ==
  ASSUME NEW n
  PROVE  Occurrences(<<n, n>>, n) = 2
<1>1. {i \in DOMAIN <<n, n>> : <<n, n>>[i] = n} = {1} \cup {2}
  OBVIOUS
<1>2. IsFiniteSet({1}) /\ Cardinality({1}) = 1
  BY FS_Singleton
<1>3. Cardinality({1} \cup {2}) = IF 2 \in {1} THEN 1 ELSE 1 + 1
  BY <1>2, FS_AddElement
<1> QED
  BY <1>1, <1>3 DEF Occurrences

---------------------------------------------------------------------------
(* A lane (the delayed frames, or the late ones) holds frames of its kind  *)
(* only, oldest first, and everything of that kind sent so far, which left *)
(* in order itself, is older.                                              *)
LaneInOrder(lane, kind, s, acts) ==
  /\ \A i \in DOMAIN lane : acts[lane[i]] = kind
  /\ \A i, j \in DOMAIN lane : i < j => lane[i] < lane[j]
  /\ \A i \in DOMAIN s, j \in DOMAIN lane : acts[s[i]] = kind => s[i] < lane[j]
  /\ \A i, j \in DOMAIN s : i < j /\ acts[s[i]] = kind /\ acts[s[j]] = kind => s[i] < s[j]

(* Frames of other kinds may be sent at any time.                          *)
LEMMA LaneUntouched ==
  ASSUME NEW k \in Nat, NEW lane \in Seq(1..k), NEW s \in Seq(1..k), NEW out \in Seq(1..k),
         NEW acts, NEW kind, LaneInOrder(lane, kind, s, acts),
         \A i \in DOMAIN out : acts[out[i]] # kind
  PROVE  LaneInOrder(lane, kind, s \o out, acts)
<1>1. \A i \in DOMAIN (s \o out) :
        acts[(s \o out)[i]] = kind => i \in DOMAIN s /\ (s \o out)[i] = s[i]
  BY Concatenated
<1> QED
  BY <1>1 DEF LaneInOrder

(* A flush sends the whole lane, behind all that was sent before.          *)
LEMMA LaneFlushed ==
  ASSUME NEW k \in Nat, NEW lane \in Seq(1..k), NEW s \in Seq(1..k), NEW acts, NEW kind,
         LaneInOrder(lane, kind, s, acts)
  PROVE  LaneInOrder(<< >>, kind, s \o lane, acts)
<1> DEFINE all == s \o lane
<1>1. ASSUME NEW i \in DOMAIN all, NEW j \in DOMAIN all, i < j, acts[all[i]] = kind,
             acts[all[j]] = kind
      PROVE  all[i] < all[j]
  <2>0. all \in Seq(1..k) /\ DOMAIN s = 1..Len(s) /\ i \in Nat /\ j \in Nat /\ Len(s) \in Nat
    BY Concatenated
  <2>1. CASE j \in DOMAIN s
    <3>1. i \in DOMAIN s /\ all[i] = s[i] /\ all[j] = s[j]
      BY <1>1, <2>0, <2>1, Concatenated
    <3> QED
      BY <1>1, <2>1, <3>1 DEF LaneInOrder
  <2>2. CASE i \in DOMAIN s /\ j \notin DOMAIN s
    <3>1. all[i] = s[i] /\ j - Len(s) \in DOMAIN lane /\ all[j] = lane[j - Len(s)]
      BY <1>1, <2>2, Concatenated
    <3> QED
      BY <1>1, <2>2, <3>1 DEF LaneInOrder
  <2>3. CASE i \notin DOMAIN s /\ j \notin DOMAIN s
    <3>1. /\ i - Len(s) \in DOMAIN lane /\ all[i] = lane[i - Len(s)]
          /\ j - Len(s) \in DOMAIN lane /\ all[j] = lane[j - Len(s)]
      BY <1>1, <2>3, Concatenated
    <3>2. i - Len(s) < j - Len(s)
      BY <1>1, <2>0
    <3> QED
      BY <3>1, <3>2 DEF LaneInOrder
  <2> QED
    BY <1>1, <2>0, <2>1, <2>2, <2>3
<1> HIDE DEF all
<1>2. \A i, j \in DOMAIN all :
        i < j /\ acts[all[i]] = kind /\ acts[all[j]] = kind => all[i] < all[j]
  BY <1>1
<1>3. DOMAIN << >> = {}
  OBVIOUS
<1> QED
  BY <1>2, <1>3 DEF LaneInOrder, all

(* A new frame goes to the end of its lane.                                *)
LEMMA LaneJoined ==
  ASSUME NEW k \in Nat, NEW lane \in Seq(1..k), NEW s \in Seq(1..k), NEW acts, NEW kind,
         LaneInOrder(lane, kind, s, acts), acts[k + 1] = kind
  PROVE  LaneInOrder(Append(lane, k + 1), kind, s, acts)
<1> DEFINE longer == Append(lane, k + 1)
<1>1. /\ DOMAIN longer = DOMAIN lane \cup {Len(lane) + 1}
      /\ longer[Len(lane) + 1] = k + 1
      /\ \A i \in DOMAIN lane : longer[i] = lane[i] /\ lane[i] \in 1..k /\ i < Len(lane) + 1
      /\ \A i \in DOMAIN s : s[i] \in 1..k
  <2>1. /\ DOMAIN lane = 1..Len(lane) /\ Len(lane) \in Nat
        /\ \A i \in 1..Len(lane) : lane[i] \in 1..k
    OBVIOUS
  <2>2. /\ DOMAIN longer = 1..Len(lane) + 1
        /\ \A i \in 1..Len(lane) + 1 : longer[i] = IF i <= Len(lane) THEN lane[i] ELSE k + 1
    BY <2>1
  <2>3. \A i \in DOMAIN s : s[i] \in 1..k
    OBVIOUS
  <2> HIDE DEF longer
  <2> QED
    BY <2>1, <2>2, <2>3
<1> HIDE DEF longer
<1>2. longer = Append(lane, k + 1)
  BY DEF longer
<1>3. /\ \A i \in DOMAIN longer : acts[longer[i]] = kind
      /\ \A i \in DOMAIN s, j \in DOMAIN longer : acts[s[i]] = kind => s[i] < longer[j]
      /\ \A i, j \in DOMAIN s : i < j /\ acts[s[i]] = kind /\ acts[s[j]] = kind => s[i] < s[j]
  BY <1>1 DEF LaneInOrder
<1>4. \A i, j \in DOMAIN longer : i < j => longer[i] < longer[j]
  <2> SUFFICES ASSUME NEW i \in DOMAIN longer, NEW j \in DOMAIN longer, i < j
               PROVE  longer[i] < longer[j]
    OBVIOUS
  <2>0. i \in DOMAIN lane
    BY <1>1
  <2>1. CASE j \in DOMAIN lane
    BY <1>1, <2>0, <2>1 DEF LaneInOrder
  <2>2. CASE j = Len(lane) + 1
    BY <1>1, <2>0, <2>2
  <2> QED
    BY <1>1, <2>1, <2>2
<1> QED
  BY <1>2, <1>3, <1>4 DEF LaneInOrder

(* Reading the directives of the frames so far is all that LaneInOrder     *)
(* does with them.                                                         *)
LEMMA LaneRead ==
  ASSUME NEW k \in Nat, NEW lane \in Seq(1..k), NEW s \in Seq(1..k), NEW acts, NEW more, NEW kind,
         \A n \in 1..k : more[n] = acts[n], LaneInOrder(lane, kind, s, acts)
  PROVE  LaneInOrder(lane, kind, s, more)
<1>1. /\ \A i \in DOMAIN lane : lane[i] \in 1..k
      /\ \A i \in DOMAIN s : s[i] \in 1..k
  OBVIOUS
<1> QED
  BY <1>1 DEF LaneInOrder

---------------------------------------------------------------------------
(* Between n and m the script reorders nothing.                            *)
NoneReordered(n, m, acts) == \A x \in n + 1..m - 1 : acts[x] # "REORDER"

(* Two reordered frames that are sent one after the other and in reverse   *)
(* are neighbours among the reordered frames.                              *)
Neighbours(first, second, acts) ==
  acts[first] = "REORDER" /\ acts[second] = "REORDER" => NoneReordered(second, first, acts)
PairsTogether(s, acts) == \A i \in 1..Len(s) - 1 : Neighbours(s[i], s[i + 1], acts)

LEMMA PairsAppended ==
  ASSUME NEW F, NEW s \in Seq(F), NEW out \in Seq(F), NEW acts,
         PairsTogether(s, acts), PairsTogether(out, acts),
         s # << >> /\ out # << >> => Neighbours(s[Len(s)], out[1], acts)
  PROVE  PairsTogether(s \o out, acts)
<1> DEFINE all == s \o out
<1>1. /\ Len(s) \in Nat /\ Len(out) \in Nat
      /\ Len(all) = Len(s) + Len(out)
      /\ \A i \in 1..Len(s) : all[i] = s[i]
      /\ \A i \in 1..Len(out) : all[Len(s) + i] = out[i]
      /\ Len(s) > 0 => s # << >>
      /\ Len(out) > 0 => out # << >>
  OBVIOUS
<1> HIDE DEF all
<1>2. ASSUME NEW i \in 1..Len(all) - 1 PROVE Neighbours(all[i], all[i + 1], acts)
  <2>1. CASE i + 1 <= Len(s)
    <3>1. i \in 1..Len(s) - 1 /\ all[i] = s[i] /\ all[i + 1] = s[i + 1]
      BY <1>1, <2>1
    <3> QED
      BY <3>1 DEF PairsTogether
  <2>2. CASE i = Len(s)
    <3>1. all[i] = s[Len(s)] /\ all[Len(s) + 1] = out[1] /\ s # << >> /\ out # << >>
      BY <1>1, <2>2
    <3> QED
      BY <2>2, <3>1
  <2>3. CASE i > Len(s)
    <3> DEFINE j == i - Len(s)
    <3>1. j \in 1..Len(out) - 1 /\ j + 1 \in 1..Len(out) /\ j \in 1..Len(out)
            /\ i = Len(s) + j /\ i + 1 = Len(s) + (j + 1)
      BY <1>1, <2>3
    <3> HIDE DEF j
    <3>2. all[i] = out[j] /\ all[i + 1] = out[j + 1]
      BY <1>1, <3>1
    <3> QED
      BY <3>1, <3>2 DEF PairsTogether
  <2> QED
    BY <1>1, <2>1, <2>2, <2>3
<1> QED
  BY <1>2 DEF PairsTogether, all

(* Frames that leave forwards are never in reverse.                        *)
LEMMA ForwardIsFine ==
  ASSUME NEW n \in Int, NEW m \in Int, n <= m, NEW acts
  PROVE  Neighbours(n, m, acts)
<1>1. m + 1..n - 1 = {}
  OBVIOUS
<1> QED
  BY <1>1 DEF Neighbours, NoneReordered

---------------------------------------------------------------------------
(* What submit does to a scheduler that held q, case by case: r is the     *)
(* scheduler afterwards, out what is sent, full whether the frame is       *)
(* refused.                                                                *)
SameFrames(q, r) == r.delayed = q.delayed /\ r.late = q.late /\ r.held = q.held

Passed(q, r, frame, action, out, full) ==
  /\ SameFrames(q, r) /\ ~full
  /\ \/ action = "DELIVER" /\ out = <<frame>>
     \/ action = "DUPLICATE" /\ out = <<frame, frame>>
     \/ action = "DROP" /\ out = << >>
Delayed(q, r, frame, action, out, full) ==
  /\ action = "DELAY" /\ out = << >> /\ ~full
  /\ r.delayed = Append(q.delayed, frame) /\ r.late = q.late /\ r.held = q.held
MadeLate(q, r, frame, action, out, full) ==
  /\ action = "LATE_DELIVER" /\ out = << >> /\ ~full
  /\ r.late = Append(q.late, frame) /\ r.delayed = q.delayed /\ r.held = q.held
HeldBack(q, r, frame, action, out, full) ==
  /\ action = "REORDER" /\ q.held = None /\ out = << >> /\ ~full
  /\ r.held = frame /\ r.delayed = q.delayed /\ r.late = q.late
Swapped(q, r, frame, action, out, full) ==
  /\ action = "REORDER" /\ q.held # None /\ out = <<frame, q.held>> /\ ~full
  /\ r.held = None /\ r.delayed = q.delayed /\ r.late = q.late
RefusedFrame(q, r, action, out, full) ==
  /\ SameFrames(q, r) /\ out = << >> /\ full
  /\ \/ action \in {"DELAY", "LATE_DELIVER"}
     \/ action = "REORDER" /\ q.held = None

LEMMA SubmitCases ==
  ASSUME NEW F, NEW frame, NEW q \in Scheduler(F)
  PROVE  LET answer == Submit(q, frame)
             action == NextAction(q)
         IN /\ \/ Passed(q, answer.queue, frame, action, answer.out, answer.full)
               \/ Delayed(q, answer.queue, frame, action, answer.out, answer.full)
               \/ MadeLate(q, answer.queue, frame, action, answer.out, answer.full)
               \/ HeldBack(q, answer.queue, frame, action, answer.out, answer.full)
               \/ Swapped(q, answer.queue, frame, action, answer.out, answer.full)
               \/ RefusedFrame(q, answer.queue, action, answer.out, answer.full)
            /\ answer.queue.dropped = q.dropped + (IF action = "DROP" THEN 1 ELSE 0)
<1> DEFINE n == Advanced(q)
           action == NextAction(q)
           Goal(r, out, full) ==
             /\ \/ Passed(q, r, frame, action, out, full)
                \/ Delayed(q, r, frame, action, out, full)
                \/ MadeLate(q, r, frame, action, out, full)
                \/ HeldBack(q, r, frame, action, out, full)
                \/ Swapped(q, r, frame, action, out, full)
                \/ RefusedFrame(q, r, action, out, full)
             /\ r.dropped = q.dropped + (IF action = "DROP" THEN 1 ELSE 0)
<1>1. /\ n \in Scheduler(F) /\ SameFrames(q, n)
      /\ n.dropped = q.dropped /\ q.dropped \in Nat /\ action \in DeliveryAction
  BY AdvancedKeeps DEF SameFrames, Scheduler
<1> HIDE DEF n, action
<1>2. ASSUME NEW r, NEW out, NEW full \in BOOLEAN,
             Submit(q, frame) = Answer(r, out, full), Goal(r, out, full)
      PROVE  Goal(Submit(q, frame).queue, Submit(q, frame).out, Submit(q, frame).full)
  <2>1. /\ Submit(q, frame).queue = r /\ Submit(q, frame).out = out
        /\ Submit(q, frame).full = full
    BY <1>2 DEF Answer
  <2> QED
    BY <1>2, <2>1
<1> HIDE DEF Goal
<1> DEFINE Cases == Goal(Submit(q, frame).queue, Submit(q, frame).out, Submit(q, frame).full)
<1>3. ASSUME action = "DELIVER" PROVE Cases
  <2>1. Submit(q, frame) = Answer(n, <<frame>>, FALSE)
    BY <1>3 DEF Submit, n, action
  <2>2. Goal(n, <<frame>>, FALSE)
    BY <1>1, <1>3 DEF Goal, Passed
  <2> QED
    BY <1>2, <2>1, <2>2
<1>4. ASSUME action = "DUPLICATE" PROVE Cases
  <2>1. Submit(q, frame) = Answer(n, <<frame, frame>>, FALSE)
    BY <1>4 DEF Submit, n, action
  <2>2. Goal(n, <<frame, frame>>, FALSE)
    BY <1>1, <1>4 DEF Goal, Passed
  <2> QED
    BY <1>2, <2>1, <2>2
<1>5. ASSUME action = "DROP" PROVE Cases
  <2> DEFINE r == [n EXCEPT !.dropped = @ + 1]
  <2>1. Submit(q, frame) = Answer(r, << >>, FALSE)
    BY <1>5 DEF Submit, n, action
  <2>2. /\ r.delayed = n.delayed /\ r.late = n.late /\ r.held = n.held
        /\ r.dropped = n.dropped + 1
    BY <1>1 DEF Scheduler
  <2> HIDE DEF r
  <2>3. Goal(r, << >>, FALSE)
    BY <1>1, <1>5, <2>2 DEF Goal, Passed, SameFrames
  <2> QED
    BY <1>2, <2>1, <2>3
<1>6. ASSUME action \in {"DELAY", "LATE_DELIVER", "REORDER"}, ~HasRoom(n),
             action = "REORDER" => q.held = None
      PROVE  Cases
  <2>1. Submit(q, frame) = Answer(n, << >>, TRUE)
    BY <1>6 DEF Submit, n, action
  <2>2. Goal(n, << >>, TRUE)
    <3>1. RefusedFrame(q, n, action, << >>, TRUE)
      BY <1>1, <1>6 DEF RefusedFrame
    <3>2. n.dropped = q.dropped + (IF action = "DROP" THEN 1 ELSE 0)
      BY <1>1, <1>6
    <3> QED
      BY <3>1, <3>2 DEF Goal
  <2> QED
    BY <1>2, <2>1, <2>2
<1>7. ASSUME action = "DELAY" /\ HasRoom(n) PROVE Cases
  <2> DEFINE r == [n EXCEPT !.delayed = Append(@, frame)]
  <2>1. Submit(q, frame) = Answer(r, << >>, FALSE)
    BY <1>7 DEF Submit, n, action
  <2>2. /\ r.delayed = Append(n.delayed, frame) /\ r.late = n.late /\ r.held = n.held
        /\ r.dropped = n.dropped
    BY <1>1 DEF Scheduler
  <2> HIDE DEF r
  <2>3. Goal(r, << >>, FALSE)
    BY <1>1, <1>7, <2>2 DEF Goal, Delayed, SameFrames
  <2> QED
    BY <1>2, <2>1, <2>3
<1>8. ASSUME action = "LATE_DELIVER" /\ HasRoom(n) PROVE Cases
  <2> DEFINE r == [n EXCEPT !.late = Append(@, frame)]
  <2>1. Submit(q, frame) = Answer(r, << >>, FALSE)
    BY <1>8 DEF Submit, n, action
  <2>2. /\ r.late = Append(n.late, frame) /\ r.delayed = n.delayed /\ r.held = n.held
        /\ r.dropped = n.dropped
    BY <1>1 DEF Scheduler
  <2> HIDE DEF r
  <2>3. Goal(r, << >>, FALSE)
    BY <1>1, <1>8, <2>2 DEF Goal, MadeLate, SameFrames
  <2> QED
    BY <1>2, <2>1, <2>3
<1>9. ASSUME action = "REORDER" /\ q.held = None /\ HasRoom(n) PROVE Cases
  <2> DEFINE r == [n EXCEPT !.held = frame]
  <2>1. Submit(q, frame) = Answer(r, << >>, FALSE)
    BY <1>9 DEF Submit, n, action
  <2>2. /\ r.held = frame /\ r.delayed = n.delayed /\ r.late = n.late
        /\ r.dropped = n.dropped
    BY <1>1 DEF Scheduler
  <2> HIDE DEF r
  <2>3. Goal(r, << >>, FALSE)
    BY <1>1, <1>9, <2>2 DEF Goal, HeldBack, SameFrames
  <2> QED
    BY <1>2, <2>1, <2>3
<1>10. ASSUME action = "REORDER" /\ q.held # None PROVE Cases
  <2> DEFINE r == [n EXCEPT !.held = None]
  <2>1. Submit(q, frame) = Answer(r, <<frame, q.held>>, FALSE)
    BY <1>1, <1>10 DEF Submit, Swap, n, action, SameFrames
  <2>2. /\ r.held = None /\ r.delayed = n.delayed /\ r.late = n.late
        /\ r.dropped = n.dropped
    BY <1>1 DEF Scheduler
  <2> HIDE DEF r
  <2>3. Goal(r, <<frame, q.held>>, FALSE)
    <3>1. Swapped(q, r, frame, action, <<frame, q.held>>, FALSE)
      BY <1>1, <1>10, <2>2 DEF Swapped, SameFrames
    <3>2. r.dropped = q.dropped + (IF action = "DROP" THEN 1 ELSE 0)
      BY <1>1, <1>10, <2>2
    <3> QED
      BY <3>1, <3>2 DEF Goal
  <2> QED
    BY <1>2, <2>1, <2>3
<1>11. Cases
  <2> HIDE DEF Cases
  <2> QED
    BY <1>1, <1>3, <1>4, <1>5, <1>6, <1>7, <1>8, <1>9, <1>10 DEF DeliveryAction
<1> QED
  BY <1>11 DEF action, Goal

---------------------------------------------------------------------------
(* The inductive invariant behind FramesLeaveAsScripted: what is held back *)
(* is held for the reason the script gave, and each lane leaves in order.  *)
ScriptInv ==
  /\ QueueInv
  /\ actions \in Seq(DeliveryAction) /\ Len(actions) = submitted
  /\ LaneInOrder(queue.delayed, "DELAY", sent, actions)
  /\ LaneInOrder(queue.late, "LATE_DELIVER", sent, actions)
  /\ queue.held # None => /\ actions[queue.held] = "REORDER"
                          /\ NoneReordered(queue.held, submitted + 1, actions)
  /\ PairsTogether(sent, actions)
  /\ NoFrameUnaccounted

(* What NoFrameUnaccounted asks of one frame.                              *)
Accounted(action, copies, held, turnedAway) ==
  /\ action = "DUPLICATE" => copies = 2 /\ ~held /\ ~turnedAway
  /\ action = "DROP" => copies = 0 /\ ~held /\ ~turnedAway
  /\ action \notin {"DUPLICATE", "DROP"} =>
       copies + (IF held THEN 1 ELSE 0) + (IF turnedAway THEN 1 ELSE 0) = 1

LEMMA AccountedFrames ==
  NoFrameUnaccounted <=>
    /\ \A n \in 1..submitted :
         Accounted(actions[n], Occurrences(sent, n), Held(n), n \in refused)
    /\ queue.dropped = Cardinality({n \in 1..submitted : actions[n] = "DROP"})
BY DEF NoFrameUnaccounted, Accounted, Copies, Occurrences

(* Which frames are held: those of the lanes, and the one to be swapped.   *)
LEMMA HeldForAReason ==
  ASSUME ScriptInv, NEW n, Held(n)
  PROVE  n \in 1..submitted \/ n = None
BY DEF ScriptInv, QueueInv, Scheduler, Held

(* A frame is held in one place only, for its directive decides which.     *)
LEMMA HeldInOnePlace ==
  ASSUME ScriptInv
  PROVE  /\ \A i \in DOMAIN queue.delayed, j \in DOMAIN queue.late :
              queue.delayed[i] # queue.late[j]
         /\ \A i \in DOMAIN queue.delayed :
              queue.delayed[i] # queue.held /\ queue.delayed[i] \in 1..submitted
         /\ \A i \in DOMAIN queue.late :
              queue.late[i] # queue.held /\ queue.late[i] \in 1..submitted
<1>1. /\ \A i \in DOMAIN queue.delayed :
           queue.delayed[i] \in 1..submitted /\ actions[queue.delayed[i]] = "DELAY"
      /\ \A i \in DOMAIN queue.late :
           queue.late[i] \in 1..submitted /\ actions[queue.late[i]] = "LATE_DELIVER"
  BY DEF ScriptInv, QueueInv, Scheduler, LaneInOrder
<1>2. None \notin 1..submitted
  BY ScriptAssumption DEF ScriptInv, QueueInv
<1> QED
  BY <1>1, <1>2 DEF ScriptInv

LEMMA ScriptInitially == Init => ScriptInv
<1> SUFFICES ASSUME Init PROVE ScriptInv
  OBVIOUS
<1>1. QueueInv
  BY InitInv
<1>2. PICK script \in Scripts : queue = NewScheduler(script)
  BY DEF Init
<1>3. /\ queue.delayed = << >> /\ queue.late = << >> /\ queue.held = None /\ queue.dropped = 0
      /\ submitted = 0 /\ actions = << >> /\ sent = << >>
  BY <1>2 DEF Init, NewScheduler
<1>4. {n \in 1..submitted : actions[n] = "DROP"} = {}
  BY <1>3
<1>5. NoFrameUnaccounted
  BY <1>3, <1>4, FS_EmptySet DEF NoFrameUnaccounted
<1> QED
  BY <1>1, <1>3, <1>5 DEF ScriptInv, LaneInOrder, PairsTogether

---------------------------------------------------------------------------
(* Sending frames that were held back, each once, accounts for them.       *)
LEMMA FlushAccounts ==
  ASSUME ScriptInv, NEW out \in Seq(1..submitted),
         UNCHANGED <<submitted, actions, refused>>, sent' = sent \o out,
         queue'.dropped = queue.dropped,
         \A i, j \in DOMAIN out : out[i] = out[j] => i = j,
         \A i \in DOMAIN out : Held(out[i]),
         \A n \in 1..submitted : Held(n)' <=> Held(n) /\ \A i \in DOMAIN out : out[i] # n
  PROVE  NoFrameUnaccounted'
<1>0. sent \in Seq(1..submitted)
  BY DEF ScriptInv, QueueInv
<1>1. ASSUME NEW n \in 1..submitted
      PROVE  Accounted(actions[n], Occurrences(sent', n), Held(n)', n \in refused)
  <2> DEFINE before == Occurrences(sent, n)
             now == Occurrences(out, n)
             h == Held(n)
  <2>1. Accounted(actions[n], before, h, n \in refused)
    BY AccountedFrames DEF ScriptInv
  <2>2. Occurrences(sent', n) = before + now /\ before \in Nat /\ now \in Nat
    <3>1. Occurrences(sent \o out, n) = before + now
      BY <1>0, OccurrencesAdd
    <3>2. before \in Nat /\ now \in Nat
      BY <1>0, OccurrencesFinite
    <3> QED
      BY <3>1, <3>2
  <2>3. CASE \A i \in DOMAIN out : out[i] # n
    <3>1. now = 0 /\ (Held(n)' <=> h)
      BY <2>3, OccursNever
    <3> QED
      BY <2>1, <2>2, <3>1 DEF Accounted
  <2>4. ASSUME NEW k \in DOMAIN out, out[k] = n
        PROVE  Accounted(actions[n], Occurrences(sent', n), Held(n)', n \in refused)
    <3>1. now = 1
      BY <2>4, OccursOnce
    <3>2. h /\ ~Held(n)'
      BY <2>4
    <3> HIDE DEF h, before, now
    <3> QED
      BY <2>1, <2>2, <3>1, <3>2 DEF Accounted
  <2> QED
    BY <2>3, <2>4
<1>2. queue'.dropped = Cardinality({n \in 1..submitted : actions[n] = "DROP"})
  BY AccountedFrames DEF ScriptInv
<1>3. NoFrameUnaccounted' <=>
        /\ \A n \in 1..submitted' :
             Accounted(actions'[n], Occurrences(sent', n), Held(n)', n \in refused')
        /\ queue'.dropped = Cardinality({n \in 1..submitted' : actions'[n] = "DROP"})
  BY DEF NoFrameUnaccounted, Accounted, Copies, Occurrences
<1> QED
  BY <1>1, <1>2, <1>3

LEMMA FlushScripted ==
  ASSUME ScriptInv, NEW answer \in {FlushDelayed(queue), FlushLate(queue), FlushReorder(queue)},
         Flush(answer)
  PROVE  ScriptInv'
<1>1. QueueInv'
  <2>1. Next
    BY DEF Next, HarnessNext
  <2> QED
    BY <2>1, NextInv DEF ScriptInv
<1>2. /\ queue \in Scheduler(1..submitted) /\ sent \in Seq(1..submitted) /\ submitted \in Nat
      /\ queue.delayed \in Seq(1..submitted) /\ queue.late \in Seq(1..submitted)
      /\ None \notin 1..submitted
  BY ScriptAssumption DEF ScriptInv, QueueInv, Scheduler
<1>3. /\ queue' = answer.queue /\ sent' = sent \o answer.out /\ answer.out # << >>
      /\ UNCHANGED <<submitted, actions, refused>>
  BY DEF Flush
<1>4. ASSUME NEW out \in Seq(1..submitted), sent' = sent \o out,
             \A i \in DOMAIN out : actions[out[i]] # "REORDER"
      PROVE  PairsTogether(sent', actions)
  <2>1. PairsTogether(out, actions)
    BY <1>4 DEF PairsTogether, Neighbours
  <2>2. sent # << >> /\ out # << >> => Neighbours(sent[Len(sent)], out[1], actions)
    BY <1>4 DEF Neighbours
  <2> QED
    BY <1>2, <1>4, <2>1, <2>2, PairsAppended DEF ScriptInv
<1>5. CASE answer = FlushDelayed(queue)
  <2> DEFINE out == queue.delayed
  <2>1. answer.out = out /\ answer.queue = [queue EXCEPT !.delayed = << >>]
    BY <1>5 DEF FlushDelayed, Answer
  <2>2. /\ queue'.delayed = << >> /\ queue'.late = queue.late /\ queue'.held = queue.held
        /\ queue'.dropped = queue.dropped
    BY <1>2, <1>3, <2>1 DEF Scheduler
  <2>3. \A i \in DOMAIN out : actions[out[i]] = "DELAY"
    BY DEF ScriptInv, LaneInOrder
  <2>4. /\ LaneInOrder(<< >>, "DELAY", sent', actions)
        /\ LaneInOrder(queue.late, "LATE_DELIVER", sent', actions)
    BY <1>2, <1>3, <2>1, <2>3, LaneFlushed, LaneUntouched DEF ScriptInv
  <2>5. PairsTogether(sent', actions)
    BY <1>2, <1>3, <1>4, <2>1, <2>3
  <2>6. \A i, j \in DOMAIN out : out[i] = out[j] => i = j
    <3>1. \A i, j \in DOMAIN out : i < j => out[i] < out[j]
      BY DEF ScriptInv, LaneInOrder
    <3>2. \A i \in DOMAIN out : i \in Nat /\ out[i] \in Nat
      <4>1. \A i \in 1..Len(out) : out[i] \in 1..submitted
        BY <1>2
      <4>2. DOMAIN out = 1..Len(out) /\ Len(out) \in Nat
        BY <1>2
      <4> QED
        BY <1>2, <4>1, <4>2
    <3> HIDE DEF out
    <3> QED
      BY <3>1, <3>2
  <2>7. \A i \in DOMAIN out : Held(out[i])
    BY DEF Held
  <2>8. \A n \in 1..submitted : Held(n)' <=> Held(n) /\ \A i \in DOMAIN out : out[i] # n
    BY <2>2, HeldInOnePlace DEF Held
  <2>9. NoFrameUnaccounted'
    <3> HIDE DEF out
    <3>1. out \in Seq(1..submitted)
      BY <1>2 DEF out
    <3> QED
      BY <1>3, <2>1, <2>2, <2>6, <2>7, <2>8, <3>1, FlushAccounts
  <2> QED
    BY <1>1, <1>3, <2>2, <2>4, <2>5, <2>9 DEF ScriptInv
<1>6. CASE answer = FlushLate(queue)
  <2> DEFINE out == queue.late
  <2>1. answer.out = out /\ answer.queue = [queue EXCEPT !.late = << >>]
    BY <1>6 DEF FlushLate, Answer
  <2>2. /\ queue'.late = << >> /\ queue'.delayed = queue.delayed /\ queue'.held = queue.held
        /\ queue'.dropped = queue.dropped
    BY <1>2, <1>3, <2>1 DEF Scheduler
  <2>3. \A i \in DOMAIN out : actions[out[i]] = "LATE_DELIVER"
    BY DEF ScriptInv, LaneInOrder
  <2>4. /\ LaneInOrder(<< >>, "LATE_DELIVER", sent', actions)
        /\ LaneInOrder(queue.delayed, "DELAY", sent', actions)
    BY <1>2, <1>3, <2>1, <2>3, LaneFlushed, LaneUntouched DEF ScriptInv
  <2>5. PairsTogether(sent', actions)
    BY <1>2, <1>3, <1>4, <2>1, <2>3
  <2>6. \A i, j \in DOMAIN out : out[i] = out[j] => i = j
    <3>1. \A i, j \in DOMAIN out : i < j => out[i] < out[j]
      BY DEF ScriptInv, LaneInOrder
    <3>2. \A i \in DOMAIN out : i \in Nat /\ out[i] \in Nat
      <4>1. \A i \in 1..Len(out) : out[i] \in 1..submitted
        BY <1>2
      <4>2. DOMAIN out = 1..Len(out) /\ Len(out) \in Nat
        BY <1>2
      <4> QED
        BY <1>2, <4>1, <4>2
    <3> HIDE DEF out
    <3> QED
      BY <3>1, <3>2
  <2>7. \A i \in DOMAIN out : Held(out[i])
    BY DEF Held
  <2>8. \A n \in 1..submitted : Held(n)' <=> Held(n) /\ \A i \in DOMAIN out : out[i] # n
    BY <2>2, HeldInOnePlace DEF Held
  <2>9. NoFrameUnaccounted'
    <3> HIDE DEF out
    <3>1. out \in Seq(1..submitted)
      BY <1>2 DEF out
    <3> QED
      BY <1>3, <2>1, <2>2, <2>6, <2>7, <2>8, <3>1, FlushAccounts
  <2> QED
    BY <1>1, <1>3, <2>2, <2>4, <2>5, <2>9 DEF ScriptInv
<1>7. CASE answer = FlushReorder(queue)
  <2>0. queue.held # None /\ queue.held \in 1..submitted
    BY <1>2, <1>3, <1>7 DEF FlushReorder, Answer, Scheduler
  <2> DEFINE out == <<queue.held>>
  <2>1. answer.out = out /\ answer.queue = [queue EXCEPT !.held = None]
    BY <1>7, <2>0 DEF FlushReorder, Answer
  <2>2. /\ queue'.late = queue.late /\ queue'.delayed = queue.delayed /\ queue'.held = None
        /\ queue'.dropped = queue.dropped
    BY <1>2, <1>3, <2>1 DEF Scheduler
  <2>3. /\ out \in Seq(1..submitted) /\ Len(out) = 1 /\ out[1] = queue.held /\ DOMAIN out = {1}
        /\ actions[queue.held] = "REORDER"
    BY <2>0 DEF ScriptInv
  <2> HIDE DEF out
  <2>4. /\ LaneInOrder(queue.late, "LATE_DELIVER", sent', actions)
        /\ LaneInOrder(queue.delayed, "DELAY", sent', actions)
    BY <1>2, <1>3, <2>1, <2>3, LaneUntouched DEF ScriptInv
  <2>5. PairsTogether(sent', actions)
    <3>1. PairsTogether(out, actions)
      BY <2>3 DEF PairsTogether
    <3>2. ASSUME sent # << >> PROVE Neighbours(sent[Len(sent)], out[1], actions)
      <4> DEFINE last == sent[Len(sent)]
      <4>1. last \in 1..submitted
        BY <1>2, <3>2
      <4>2. CASE last <= queue.held
        BY <2>0, <2>3, <4>1, <4>2, ForwardIsFine
      <4>3. CASE last > queue.held
        <5>1. last \in queue.held + 1..(submitted + 1) - 1
          BY <1>2, <2>0, <4>1, <4>3
        <5>2. actions[last] # "REORDER"
          BY <2>0, <5>1 DEF ScriptInv, NoneReordered
        <5> QED
          BY <5>2 DEF Neighbours
      <4> QED
        BY <1>2, <2>0, <4>1, <4>2, <4>3
    <3> QED
      BY <1>2, <1>3, <2>1, <2>3, <3>1, <3>2, PairsAppended DEF ScriptInv
  <2>6. NoFrameUnaccounted'
    <3>1. \A i, j \in DOMAIN out : out[i] = out[j] => i = j
      BY <2>3
    <3>2. \A i \in DOMAIN out : Held(out[i])
      BY <2>3 DEF Held
    <3>3. \A n \in 1..submitted : Held(n)' <=> Held(n) /\ \A i \in DOMAIN out : out[i] # n
      BY <1>2, <2>2, <2>3, HeldInOnePlace DEF Held
    <3> QED
      BY <1>3, <2>1, <2>2, <2>3, <3>1, <3>2, <3>3, FlushAccounts
  <2> QED
    BY <1>1, <1>3, <2>2, <2>4, <2>5, <2>6 DEF ScriptInv
<1> QED
  BY <1>5, <1>6, <1>7

(* The script's next directive is read into the log.                       *)
LEMMA DirectiveLogged ==
  ASSUME ScriptInv, SubmitNext
  PROVE  /\ NextAction(queue) \in DeliveryAction
         /\ actions' \in Seq(DeliveryAction) /\ Len(actions') = submitted + 1
         /\ actions'[submitted + 1] = NextAction(queue)
         /\ \A n \in 1..submitted : actions'[n] = actions[n]
<1>1. NextAction(queue) \in DeliveryAction
  BY AdvancedKeeps DEF ScriptInv, QueueInv
<1>2. actions' = Append(actions, NextAction(queue)) /\ submitted \in Nat
  BY ScriptAssumption DEF SubmitNext, ScriptInv, QueueInv
<1> QED
  BY <1>1, <1>2 DEF ScriptInv

(* A new frame is sent, held back, dropped or refused as its directive     *)
(* says; that accounts for it, and for the held frame it may let go.       *)
LEMMA SubmitAccounts ==
  ASSUME ScriptInv, SubmitNext, NEW out \in Seq(1..submitted + 1), sent' = sent \o out,
         NEW frame, frame = submitted + 1,
         NEW action, action = NextAction(queue),
         Accounted(action, Occurrences(out, frame), Held(frame)', frame \in refused'),
         \A n \in 1..submitted :
           \/ /\ \A i \in DOMAIN out : out[i] # n
              /\ Held(n)' <=> Held(n)
           \/ Held(n) /\ ~Held(n)' /\ Occurrences(out, n) = 1,
         queue'.dropped = queue.dropped + (IF action = "DROP" THEN 1 ELSE 0)
  PROVE  NoFrameUnaccounted'
<1>0. /\ sent \in Seq(1..submitted) /\ sent \in Seq(1..submitted + 1)
      /\ submitted \in Nat /\ refused \subseteq 1..submitted
      /\ submitted' = frame /\ refused' \subseteq refused \cup {frame} /\ refused \subseteq refused'
  <2>1. sent \in Seq(1..submitted) /\ submitted \in Nat
    BY DEF ScriptInv, QueueInv
  <2>2. Seq(1..submitted) \subseteq Seq(1..submitted + 1)
    <3> DEFINE F == 1..submitted
               G == 1..submitted + 1
    <3>1. F \subseteq G
      BY <2>1
    <3> HIDE DEF F, G
    <3>2. Seq(F) \subseteq Seq(G)
      BY <3>1
    <3> QED
      BY <3>2 DEF F, G
  <2> QED
    BY <2>1, <2>2 DEF ScriptInv, QueueInv, SubmitNext
<1>1. ASSUME NEW n \in 1..submitted
      PROVE  Accounted(actions'[n], Occurrences(sent', n), Held(n)', n \in refused')
  <2> DEFINE before == Occurrences(sent, n)
             now == Occurrences(out, n)
             h == Held(n)
             k == Held(n)'
  <2>1. Accounted(actions[n], before, h, n \in refused)
    BY AccountedFrames DEF ScriptInv
  <2>2. Occurrences(sent', n) = before + now
    BY <1>0, OccurrencesAdd
  <2>3. before \in Nat /\ now \in Nat
    BY <1>0, OccurrencesFinite
  <2>4. (n \in refused') <=> (n \in refused)
    BY <1>0
  <2>5. actions'[n] = actions[n]
    BY DirectiveLogged
  <2>6. \/ now = 0 /\ (k <=> h)
        \/ now = 1 /\ h /\ ~k
    BY OccursNever
  <2> HIDE DEF before, now, h, k
  <2>7. Accounted(actions[n], before + now, k, n \in refused)
    BY <2>1, <2>3, <2>6 DEF Accounted
  <2> QED
    BY <2>2, <2>4, <2>5, <2>7 DEF k, Accounted
<1>2. Accounted(actions'[frame], Occurrences(sent', frame), Held(frame)', frame \in refused')
  <2>1. \A i \in DOMAIN sent : sent[i] # frame
    BY <1>0
  <2>2. Occurrences(sent', frame) = 0 + Occurrences(out, frame)
    <3>1. Occurrences(sent', frame) = Occurrences(sent, frame) + Occurrences(out, frame)
      BY <1>0, OccurrencesAdd
    <3>2. Occurrences(sent, frame) = 0
      BY <2>1, OccursNever
    <3> QED
      BY <3>1, <3>2
  <2>3. Occurrences(out, frame) \in Nat
    BY OccurrencesFinite
  <2> QED
    BY <2>2, <2>3, DirectiveLogged
<1>3. queue'.dropped = Cardinality({n \in 1..frame : actions'[n] = "DROP"})
  <2> DEFINE D == {n \in 1..submitted : actions[n] = "DROP"}
  <2>1. queue.dropped = Cardinality(D) /\ frame \notin D
    BY <1>0, AccountedFrames DEF ScriptInv
  <2>2. {n \in 1..frame : actions'[n] = "DROP"} = IF action = "DROP" THEN D \cup {frame} ELSE D
    <3>1. actions'[frame] = action /\ \A n \in 1..submitted : actions'[n] = actions[n]
      BY DirectiveLogged
    <3>2. 1..frame = 1..submitted \cup {frame}
      BY <1>0
    <3>3. CASE action = "DROP"
      BY <3>1, <3>2, <3>3
    <3>4. CASE action # "DROP"
      BY <3>1, <3>2, <3>4
    <3> QED
      BY <3>3, <3>4
  <2>3. IsFiniteSet(D)
    <3>1. IsFiniteSet(1..submitted) /\ D \in SUBSET (1..submitted)
      BY <1>0, FS_Interval
    <3> QED
      BY <3>1, FS_Subset
  <2> HIDE DEF D
  <2>4. Cardinality(D \cup {frame}) = Cardinality(D) + 1 /\ Cardinality(D) \in Nat
    BY <2>1, <2>3, FS_AddElement, FS_CardinalityType
  <2>5. CASE action = "DROP"
    BY <2>1, <2>2, <2>4, <2>5
  <2>6. CASE action # "DROP"
    <3>1. queue'.dropped = queue.dropped
      BY <2>1, <2>4, <2>6
    <3>2. {n \in 1..frame : actions'[n] = "DROP"} = D
      BY <2>2, <2>6
    <3> QED
      BY <2>1, <3>1, <3>2
  <2> QED
    BY <2>5, <2>6
<1>4. NoFrameUnaccounted' <=>
        /\ \A n \in 1..submitted' :
             Accounted(actions'[n], Occurrences(sent', n), Held(n)', n \in refused')
        /\ queue'.dropped = Cardinality({n \in 1..submitted' : actions'[n] = "DROP"})
  BY DEF NoFrameUnaccounted, Accounted, Copies, Occurrences
<1>5. \A n \in 1..frame : n \in 1..submitted \/ n = frame
  BY <1>0
<1>6. \A n \in 1..frame :
        Accounted(actions'[n], Occurrences(sent', n), Held(n)', n \in refused')
  BY <1>1, <1>2, <1>5
<1> QED
  BY <1>0, <1>3, <1>4, <1>6

(* Every submission keeps the invariant, whatever the directive.           *)
LEMMA SubmitScripted ==
  ASSUME ScriptInv, SubmitNext
  PROVE  ScriptInv'
<1>0. PICK frame : frame = submitted + 1
  OBVIOUS
<1> DEFINE action == NextAction(queue)
           out == Submit(queue, frame).out
           full == Submit(queue, frame).full
           F == 1..submitted
           G == 1..frame
<1>1. QueueInv' /\ queue \in Scheduler(F)
  <2>1. Next
    BY DEF Next, HarnessNext
  <2> QED
    BY <2>1, NextInv DEF ScriptInv, QueueInv
<1>2. /\ submitted \in Nat /\ frame \in Nat /\ frame \notin F /\ F \subseteq G /\ frame \in G
      /\ sent \in Seq(F) /\ queue.delayed \in Seq(F) /\ queue.late \in Seq(F)
      /\ queue.held \in F \cup {None} /\ refused \subseteq F
      /\ None \notin G
  BY <1>0, ScriptAssumption DEF ScriptInv, QueueInv, Scheduler, SubmitNext
<1>3. /\ queue' = Submit(queue, frame).queue /\ sent' = sent \o out /\ submitted' = frame
      /\ refused' = (IF full THEN refused \cup {frame} ELSE refused)
  BY <1>0 DEF SubmitNext
<1>4. /\ \/ Passed(queue, queue', frame, action, out, full)
         \/ Delayed(queue, queue', frame, action, out, full)
         \/ MadeLate(queue, queue', frame, action, out, full)
         \/ HeldBack(queue, queue', frame, action, out, full)
         \/ Swapped(queue, queue', frame, action, out, full)
         \/ RefusedFrame(queue, queue', action, out, full)
      /\ queue'.dropped = queue.dropped + (IF action = "DROP" THEN 1 ELSE 0)
  <2> HIDE DEF F
  <2> QED
    BY <1>0, <1>1, <1>3, SubmitCases
<1>5. /\ action \in DeliveryAction
      /\ actions' \in Seq(DeliveryAction) /\ Len(actions') = frame
      /\ actions'[frame] = action
      /\ \A n \in F : actions'[n] = actions[n]
  BY <1>0, DirectiveLogged
<1> HIDE DEF action, out, full
<1>6. out \in Seq(G)
  <2>0. frame \in G /\ (queue.held # None => queue.held \in G)
    BY <1>0, <1>2
  <2> HIDE DEF G
  <2>1. << >> \in Seq(G) /\ <<frame>> \in Seq(G) /\ <<frame, frame>> \in Seq(G)
    BY <2>0
  <2>2. queue.held # None => <<frame, queue.held>> \in Seq(G)
    BY <2>0
  <2> QED
    BY <1>4, <2>1, <2>2 DEF Passed, Delayed, MadeLate, HeldBack, Swapped, RefusedFrame
<1>7. /\ sent \in Seq(G) /\ queue.delayed \in Seq(G) /\ queue.late \in Seq(G)
      /\ Seq(F) \subseteq Seq(G)
  <2> HIDE DEF F, G
  <2>0. F \subseteq G
    BY <1>2
  <2>1. Seq(F) \subseteq Seq(G)
    BY <2>0
  <2> QED
    BY <1>0, <1>2, <2>1
<1>8. /\ LaneInOrder(queue.delayed, "DELAY", sent, actions')
      /\ LaneInOrder(queue.late, "LATE_DELIVER", sent, actions')
  BY <1>0, <1>2, <1>5, LaneRead, SMTT(30) DEF ScriptInv
<1>9. ASSUME NEW lane \in Seq(F), NEW kind, LaneInOrder(lane, kind, sent, actions'),
             \A i \in DOMAIN out : actions'[out[i]] # kind
      PROVE  LaneInOrder(lane, kind, sent \o out, actions')
  <2>1. lane \in Seq(G)
    <3> HIDE DEF F, G
    <3> QED
      BY <1>7, <1>9
  <2> HIDE DEF F
  <2> QED
    BY <1>0, <1>2, <1>6, <1>7, <1>9, <2>1, LaneUntouched
<1>10. ASSUME out = << >> PROVE sent \o out = sent
  BY <1>0, <1>2, <1>10
<1>11. queue.held # None => /\ queue.held \in F
                            /\ actions'[queue.held] = "REORDER"
                            /\ NoneReordered(queue.held, frame, actions')
  BY <1>0, <1>2, <1>5 DEF ScriptInv, NoneReordered
<1>12. PairsTogether(sent, actions')
  <2>1. \A i \in 1..Len(sent) - 1 : /\ sent[i] \in F /\ sent[i + 1] \in F
                                    /\ \A x \in sent[i + 1] + 1..sent[i] - 1 : x \in F
    <3>1. \A i \in 1..Len(sent) : sent[i] \in F
      BY <1>0, <1>2
    <3>2. Len(sent) \in Nat /\ \A i \in 1..Len(sent) - 1 : i \in 1..Len(sent) /\ i + 1 \in 1..Len(sent)
      BY <1>0, <1>2
    <3>3. \A n, m \in F : \A x \in m + 1..n - 1 : x \in F
      BY <1>0, <1>2
    <3> HIDE DEF F
    <3> QED
      BY <3>1, <3>2, <3>3
  <2> QED
    BY <1>5, <2>1 DEF ScriptInv, PairsTogether, Neighbours, NoneReordered
(* The lanes.                                                              *)
<1>13. /\ LaneInOrder(queue'.delayed, "DELAY", sent', actions')
       /\ LaneInOrder(queue'.late, "LATE_DELIVER", sent', actions')
  <2>1. ASSUME Delayed(queue, queue', frame, action, out, full)
        PROVE  /\ LaneInOrder(queue'.delayed, "DELAY", sent', actions')
               /\ LaneInOrder(queue'.late, "LATE_DELIVER", sent', actions')
    <3>1. actions'[submitted + 1] = "DELAY"
      BY <1>0, <1>5, <2>1 DEF Delayed
    <3>2. LaneInOrder(Append(queue.delayed, submitted + 1), "DELAY", sent, actions')
      BY <1>0, <1>2, <1>8, <3>1, LaneJoined
    <3>3. sent' = sent
      BY <1>0, <1>3, <1>10, <2>1 DEF Delayed
    <3> QED
      BY <1>0, <1>8, <2>1, <3>2, <3>3 DEF Delayed
  <2>2. ASSUME MadeLate(queue, queue', frame, action, out, full)
        PROVE  /\ LaneInOrder(queue'.delayed, "DELAY", sent', actions')
               /\ LaneInOrder(queue'.late, "LATE_DELIVER", sent', actions')
    <3>1. actions'[submitted + 1] = "LATE_DELIVER"
      BY <1>0, <1>5, <2>2 DEF MadeLate
    <3>2. LaneInOrder(Append(queue.late, submitted + 1), "LATE_DELIVER", sent, actions')
      BY <1>0, <1>2, <1>8, <3>1, LaneJoined
    <3>3. sent' = sent
      BY <1>0, <1>3, <1>10, <2>2 DEF MadeLate
    <3> QED
      BY <1>0, <1>8, <2>2, <3>2, <3>3 DEF MadeLate
  <2>3. ASSUME queue'.delayed = queue.delayed, queue'.late = queue.late,
               \A i \in DOMAIN out : actions'[out[i]] \notin {"DELAY", "LATE_DELIVER"}
        PROVE  /\ LaneInOrder(queue'.delayed, "DELAY", sent', actions')
               /\ LaneInOrder(queue'.late, "LATE_DELIVER", sent', actions')
    BY <1>0, <1>2, <1>3, <1>8, <1>9, <2>3
  <2>4. CASE \/ Passed(queue, queue', frame, action, out, full)
             \/ HeldBack(queue, queue', frame, action, out, full)
             \/ Swapped(queue, queue', frame, action, out, full)
             \/ RefusedFrame(queue, queue', action, out, full)
    <3>1. queue'.delayed = queue.delayed /\ queue'.late = queue.late
      BY <2>4 DEF Passed, HeldBack, Swapped, RefusedFrame, SameFrames
    <3>2. \A i \in DOMAIN out :
            \/ out[i] = frame /\ action \in {"DELIVER", "DUPLICATE", "REORDER"}
            \/ queue.held # None /\ out[i] = queue.held
      BY <2>4 DEF Passed, HeldBack, Swapped, RefusedFrame
    <3>3. \A i \in DOMAIN out : actions'[out[i]] \notin {"DELAY", "LATE_DELIVER"}
      BY <1>5, <1>11, <3>2
    <3> QED
      BY <2>3, <3>1, <3>3
  <2> QED
    BY <1>4, <2>1, <2>2, <2>4
(* The pairs of reordered frames.                                          *)
<1>14. queue'.held # None => /\ actions'[queue'.held] = "REORDER"
                             /\ NoneReordered(queue'.held, frame + 1, actions')
  <2>1. ASSUME queue'.held = queue.held, action # "REORDER", queue.held # None
        PROVE  /\ actions'[queue'.held] = "REORDER"
               /\ NoneReordered(queue'.held, frame + 1, actions')
    <3>1. \A x \in queue.held + 1..(frame + 1) - 1 :
            x \in queue.held + 1..frame - 1 \/ x = frame
      BY <1>0, <1>2, <1>11, <2>1
    <3> QED
      BY <1>5, <1>11, <2>1, <3>1 DEF NoneReordered
  <2>2. ASSUME queue'.held = frame, action = "REORDER"
        PROVE  /\ actions'[queue'.held] = "REORDER"
               /\ NoneReordered(queue'.held, frame + 1, actions')
    <3>1. frame + 1..(frame + 1) - 1 = {}
      BY <1>0, <1>2
    <3> QED
      BY <1>5, <2>2, <3>1 DEF NoneReordered
  <2>3. \/ queue'.held = queue.held /\ (action # "REORDER" \/ queue.held = None)
        \/ queue'.held = frame /\ action = "REORDER"
        \/ queue'.held = None
    BY <1>4
       DEF Passed, Delayed, MadeLate, HeldBack, Swapped, RefusedFrame, SameFrames
  <2> QED
    BY <2>1, <2>2, <2>3
<1>15. PairsTogether(sent', actions')
  <2>1. PairsTogether(out, actions')
    <3>1. CASE out = << >> \/ out = <<frame>>
      BY <3>1 DEF PairsTogether
    <3>2. CASE out = <<frame, frame>>
      BY <1>0, <1>2, <3>2, ForwardIsFine DEF PairsTogether
    <3>3. CASE out = <<frame, queue.held>> /\ queue.held # None
      BY <1>11, <3>3 DEF PairsTogether, Neighbours
    <3> QED
      BY <1>4, <3>1, <3>2, <3>3
         DEF Passed, Delayed, MadeLate, HeldBack, Swapped, RefusedFrame
  <2>2. ASSUME sent # << >>, out # << >>
        PROVE  Neighbours(sent[Len(sent)], out[1], actions')
    <3>1. out[1] = frame
      BY <1>4, <2>2 DEF Passed, Delayed, MadeLate, HeldBack, Swapped, RefusedFrame
    <3>2. sent[Len(sent)] \in F
      BY <1>0, <1>2, <2>2
    <3>3. sent[Len(sent)] <= frame
      BY <1>0, <1>2, <3>2
    <3> QED
      BY <1>0, <1>2, <3>1, <3>2, <3>3, ForwardIsFine
  <2> QED
    BY <1>0, <1>3, <1>6, <1>7, <1>12, <2>1, <2>2, PairsAppended
(* The accounts.                                                           *)
<1>16. NoFrameUnaccounted'
  <2>1. \A n \in F : (n \in refused' <=> n \in refused)
    BY <1>0, <1>2, <1>3
  <2>2. ~Held(frame) /\ frame \notin refused
    BY <1>0, <1>2, HeldForAReason
  <2>0. /\ \A n \in G : n \in F \/ n = frame
        /\ None \notin F /\ frame # None
        /\ \A i \in DOMAIN queue.delayed :
             queue.delayed[i] \in F /\ queue.delayed[i] # queue.held
        /\ \A i \in DOMAIN queue.late : queue.late[i] \in F /\ queue.late[i] # queue.held
    BY <1>0, <1>2, HeldInOnePlace
  <2> HIDE DEF F, G
  <2>3. ASSUME SameFrames(queue, queue') PROVE \A n \in G : Held(n)' <=> Held(n)
    BY <2>3 DEF SameFrames, Held
  <2>4. ASSUME NEW lane, NEW longer, lane \in Seq(F), longer = Append(lane, frame), NEW n
        PROVE  (\E i \in DOMAIN longer : longer[i] = n)
                 <=> n = frame \/ \E i \in DOMAIN lane : lane[i] = n
    <3>1. /\ DOMAIN longer = 1..Len(lane) + 1 /\ DOMAIN lane = 1..Len(lane) /\ Len(lane) \in Nat
          /\ \A i \in 1..Len(lane) + 1 : longer[i] = IF i <= Len(lane) THEN lane[i] ELSE frame
      BY <2>4
    <3>2. ASSUME NEW i \in DOMAIN longer, longer[i] = n
          PROVE  n = frame \/ \E j \in DOMAIN lane : lane[j] = n
      BY <3>1, <3>2
    <3>3. ASSUME NEW j \in DOMAIN lane, lane[j] = n
          PROVE  \E i \in DOMAIN longer : longer[i] = n
      <4>1. j \in DOMAIN longer /\ longer[j] = n
        BY <3>1, <3>3
      <4> QED
        BY <4>1
    <3>4. ASSUME n = frame
          PROVE  \E i \in DOMAIN longer : longer[i] = n
      <4>1. Len(lane) + 1 \in DOMAIN longer /\ longer[Len(lane) + 1] = n
        BY <3>1, <3>4
      <4> QED
        BY <4>1
    <3> QED
      BY <3>2, <3>3, <3>4
  <2> DEFINE Goal ==
               /\ Accounted(action, Occurrences(out, frame), Held(frame)', frame \in refused')
               /\ \A n \in F :
                    \/ /\ \A i \in DOMAIN out : out[i] # n
                       /\ Held(n)' <=> Held(n)
                    \/ Held(n) /\ ~Held(n)' /\ Occurrences(out, n) = 1
  <2>5. ASSUME Passed(queue, queue', frame, action, out, full) PROVE Goal
    <3>1. /\ frame \notin refused' /\ ~Held(frame)'
          /\ \A n \in F : Held(n)' <=> Held(n)
      <4>1. refused' = refused /\ SameFrames(queue, queue')
        BY <1>0, <1>3, <2>5 DEF Passed
      <4> QED
        BY <1>0, <1>2, <2>2, <2>3, <4>1
    <3>2. \A n \in F : \A i \in DOMAIN out : out[i] # n
      BY <1>0, <1>2, <2>5 DEF Passed
    <3>3. CASE action = "DELIVER" /\ out = <<frame>>
      <4>1. DOMAIN out = {1} /\ out[1] = frame
        BY <3>3
      <4>2. Occurrences(out, frame) = 1
        BY <4>1, OccursOnce
      <4>3. Accounted(action, Occurrences(out, frame), Held(frame)', frame \in refused')
        BY <3>1, <3>3, <4>2 DEF Accounted
      <4> QED
        BY <3>1, <3>2, <4>3
    <3>4. CASE action = "DUPLICATE" /\ out = <<frame, frame>>
      <4>1. Occurrences(out, frame) = 2
        BY <3>4, OccursTwice
      <4>2. Accounted(action, Occurrences(out, frame), Held(frame)', frame \in refused')
        BY <3>1, <3>4, <4>1 DEF Accounted
      <4> QED
        BY <3>1, <3>2, <4>2
    <3>5. CASE action = "DROP" /\ out = << >>
      <4>1. Occurrences(out, frame) = 0
        BY <3>5, OccursNever
      <4>2. Accounted(action, Occurrences(out, frame), Held(frame)', frame \in refused')
        BY <3>1, <3>5, <4>1 DEF Accounted
      <4> QED
        BY <3>1, <3>2, <4>2
    <3> QED
      BY <2>5, <3>3, <3>4, <3>5 DEF Passed
  <2>6. ASSUME out = << >>, action \in {"DELAY", "LATE_DELIVER", "REORDER"},
               Held(frame)' <=> frame \notin refused',
               \A n \in F : Held(n)' <=> Held(n)
        PROVE  Goal
    <3>1. Occurrences(out, frame) = 0
      BY <2>6, OccursNever
    <3>2. Accounted(action, Occurrences(out, frame), Held(frame)', frame \in refused')
      BY <2>6, <3>1 DEF Accounted
    <3> QED
      BY <2>6, <3>2
  <2>7. ASSUME \/ Delayed(queue, queue', frame, action, out, full)
               \/ MadeLate(queue, queue', frame, action, out, full)
               \/ HeldBack(queue, queue', frame, action, out, full)
        PROVE  Goal
    <3>1. \A n \in G : Held(n)' <=> Held(n) \/ n = frame
      <4>1. CASE Delayed(queue, queue', frame, action, out, full)
        <5>1. \A n : (\E i \in DOMAIN queue'.delayed : queue'.delayed[i] = n)
                      <=> n = frame \/ \E i \in DOMAIN queue.delayed : queue.delayed[i] = n
          <6> DEFINE lane == queue.delayed
                     longer == queue'.delayed
          <6>1. lane \in Seq(F) /\ longer = Append(lane, frame)
            BY <1>2, <4>1 DEF Delayed
          <6> HIDE DEF lane, longer
          <6>2. \A n : (\E i \in DOMAIN longer : longer[i] = n)
                         <=> n = frame \/ \E i \in DOMAIN lane : lane[i] = n
            BY <2>4, <6>1
          <6> QED
            BY <6>2 DEF lane, longer
        <5> QED
          BY <2>0, <4>1, <5>1 DEF Delayed, Held
      <4>2. CASE MadeLate(queue, queue', frame, action, out, full)
        <5>1. \A n : (\E i \in DOMAIN queue'.late : queue'.late[i] = n)
                      <=> n = frame \/ \E i \in DOMAIN queue.late : queue.late[i] = n
          <6> DEFINE lane == queue.late
                     longer == queue'.late
          <6>1. lane \in Seq(F) /\ longer = Append(lane, frame)
            BY <1>2, <4>2 DEF MadeLate
          <6> HIDE DEF lane, longer
          <6>2. \A n : (\E i \in DOMAIN longer : longer[i] = n)
                         <=> n = frame \/ \E i \in DOMAIN lane : lane[i] = n
            BY <2>4, <6>1
          <6> QED
            BY <6>2 DEF lane, longer
        <5> QED
          BY <2>0, <4>2, <5>1 DEF MadeLate, Held
      <4>3. CASE HeldBack(queue, queue', frame, action, out, full)
        BY <1>0, <1>2, <2>0, <4>3 DEF HeldBack, Held
      <4> QED
        BY <2>7, <4>1, <4>2, <4>3
    <3>2. /\ out = << >> /\ action \in {"DELAY", "LATE_DELIVER", "REORDER"}
          /\ frame \notin refused'
      BY <1>0, <1>3, <2>2, <2>7 DEF Delayed, MadeLate, HeldBack
    <3> QED
      BY <1>0, <1>2, <2>0, <2>2, <2>6, <3>1, <3>2
  <2>8. ASSUME Swapped(queue, queue', frame, action, out, full) PROVE Goal
    <3>0. PICK first : first = queue.held
      OBVIOUS
    <3>1. /\ out = <<frame, first>> /\ action = "REORDER" /\ frame \notin refused'
          /\ first \in F /\ queue'.held = None
          /\ queue'.delayed = queue.delayed /\ queue'.late = queue.late
      BY <1>2, <1>3, <2>2, <2>8, <3>0 DEF Swapped
    <3>2. DOMAIN out = {1, 2} /\ out[1] = frame /\ out[2] = first /\ first # frame
      BY <1>2, <3>1
    <3>3. Occurrences(out, frame) = 1
      BY <3>2, OccursOnce
    <3>4. Occurrences(out, first) = 1
      BY <3>2, OccursOnce
    <3>5. Held(first) /\ ~Held(first)' /\ ~Held(frame)'
      BY <1>2, <2>0, <2>2, <3>0, <3>1 DEF Held
    <3>6. \A n \in F : n # first => (Held(n)' <=> Held(n))
      BY <1>2, <2>0, <3>0, <3>1 DEF Held
    <3>7. \A n \in F : n # first => \A i \in DOMAIN out : out[i] # n
      BY <1>2, <3>2
    <3>8. Accounted(action, Occurrences(out, frame), Held(frame)', frame \in refused')
      BY <3>1, <3>3, <3>5 DEF Accounted
    <3> QED
      BY <3>4, <3>5, <3>6, <3>7, <3>8
  <2>9. ASSUME RefusedFrame(queue, queue', action, out, full) PROVE Goal
    <3>1. /\ out = << >> /\ action \in {"DELAY", "LATE_DELIVER", "REORDER"}
          /\ frame \in refused' /\ SameFrames(queue, queue')
      BY <1>0, <1>3, <2>9 DEF RefusedFrame
    <3> QED
      BY <1>0, <1>2, <2>0, <2>2, <2>3, <2>6, <3>1
  <2>10. Goal
    <3> HIDE DEF Goal
    <3> QED
      BY <1>4, <2>5, <2>7, <2>8, <2>9
  <2> QED
    BY <1>0, <1>3, <1>4, <1>6, <2>10, SubmitAccounts DEF action, F, G
<1> QED
  BY <1>0, <1>1, <1>3, <1>5, <1>13, <1>14, <1>15, <1>16 DEF ScriptInv

(* An order of the lanes is an order of what was sent from them.           *)
LEMMA ScriptGivesOrder == ScriptInv => FramesLeaveAsScripted
<1> SUFFICES ASSUME ScriptInv PROVE FramesLeaveAsScripted
  OBVIOUS
<1>1. HeldLeaveInOrder
  BY DEF ScriptInv, LaneInOrder, HeldLeaveInOrder
<1>2. PairsLeaveTogether
  <2>1. queue.held # None =>
          \A n \in queue.held + 1..(submitted + 1) - 1 : actions[n] # "REORDER"
    BY DEF ScriptInv, NoneReordered
  <2>2. \A i \in 1..Len(sent) - 1 :
          (\A n \in {sent[i], sent[i + 1]} : actions[n] = "REORDER")
            => \A n \in sent[i + 1] + 1..sent[i] - 1 : actions[n] # "REORDER"
    BY DEF ScriptInv, PairsTogether, Neighbours, NoneReordered
  <2> QED
    BY <2>1, <2>2 DEF PairsLeaveTogether
<1> QED
  BY <1>1, <1>2 DEF ScriptInv, FramesLeaveAsScripted

LEMMA ScriptInductive == ScriptInv /\ [Next]_vars => ScriptInv'
<1>1. ASSUME ScriptInv, UNCHANGED vars PROVE ScriptInv'
  BY <1>1, SMTT(30)
     DEF vars, ScriptInv, QueueInv, Bounded, NoFrameUnaccounted, Copies, Held
<1> QED
  BY <1>1, SubmitScripted, FlushScripted DEF Next, HarnessNext

(* Whatever the script, the capacity and the moments of the flushes, every *)
(* frame leaves as the script says: the right number of times, in the      *)
(* order of its lane, and swapped with its neighbour only.                 *)
THEOREM ScriptIsFollowed == Spec => []FramesLeaveAsScripted
BY ScriptInitially, ScriptInductive, ScriptGivesOrder, PTL DEF Spec
===========================================================================
