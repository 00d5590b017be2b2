----------------------- MODULE FaultInjectionProofs -----------------------
(***************************************************************************)
(* For any workers, links and capacities, any callers and any faults they  *)
(* inject: slots match tasks, no task is forgotten while nothing is        *)
(* dropped, what is available is reachable, endings are final, what the    *)
(* records of the faults say is true, and a handler raises on copies only. *)
(***************************************************************************)
EXTENDS FaultInvariants, FiniteSetTheorems, WellFoundedInduction, TLAPS

---------------------------------------------------------------------------
(* The operators of the kernel, in the form their callers need: what is    *)
(* scheduled, and the fields after each operation.                         *)
EventOf(s, orders, i) ==
  [time |-> orders[i].at, sequence |-> s.next + i - 1, id |-> ActualId(orders[i], s.next + i - 1),
   kind |-> orders[i].kind, subject |-> orders[i].subject]
EventsOf(s, orders) == {EventOf(s, orders, i) : i \in DOMAIN orders}

(* schedule accepts the orders, one after the other.                       *)
Acceptable(s, orders) ==
  /\ Len(orders) \in Nat /\ DOMAIN orders = 1..Len(orders)
  /\ \A i \in DOMAIN orders :
       /\ orders[i].at \in Nat /\ orders[i].at >= s.now
       /\ orders[i].kind \in Kinds /\ orders[i].subject \in Workers \cup Nat
       /\ ActualId(orders[i], s.next + i - 1) \notin s.known
  /\ \A i, j \in DOMAIN orders :
       ActualId(orders[i], s.next + i - 1) = ActualId(orders[j], s.next + j - 1) => i = j

LEMMA EventsGrow ==
  ASSUME NEW small, NEW large, small \subseteq large
  PROVE  Events(small) \subseteq Events(large) /\ Seq(Events(small)) \subseteq Seq(Events(large))
<1>1. Events(small) \subseteq Events(large)
  BY DEF Events
<1> HIDE DEF Events
<1> QED
  BY <1>1

LEMMA KernelFacts ==
  ASSUME NEW s, KernelInv(s)
  PROVE  /\ s.now \in Nat /\ s.next \in Nat /\ s.queue \subseteq Events(s.known)
         /\ s.trace \in Seq(Events(s.known))
         /\ DOMAIN s.trace = 1..Len(s.trace) /\ Len(s.trace) \in Nat
         /\ \A i \in DOMAIN s.trace : s.trace[i] \in Events(s.known)
         /\ \A e \in Events(s.known) : /\ e.time \in Nat /\ e.sequence \in Nat /\ e.id \in s.known
                                       /\ e.kind \in Kinds /\ e.subject \in Workers \cup Nat
         /\ Pending(s) \subseteq s.queue
<1>1. s.now \in Nat /\ s.next \in Nat /\ s.queue \subseteq Events(s.known) /\ s.trace \in Seq(Events(s.known))
  BY DEF KernelInv, KernelTypes
<1>2. \A e \in Events(s.known) : /\ e.time \in Nat /\ e.sequence \in Nat /\ e.id \in s.known
                                 /\ e.kind \in Kinds /\ e.subject \in Workers \cup Nat
  BY DEF Events
<1>3. Pending(s) \subseteq s.queue
  BY DEF Pending
<1> HIDE DEF Events
<1> QED
  BY <1>1, <1>2, <1>3

(* schedule.                                                               *)
LEMMA ScheduledFields ==
  ASSUME NEW s, KernelInv(s), NEW orders, Acceptable(s, orders)
  PROVE  LET t == Scheduled(s, orders) IN
         /\ KernelInv(t)
         /\ t.queue = s.queue \cup EventsOf(s, orders)
         /\ t.known = s.known \cup Ids(EventsOf(s, orders))
         /\ t.next = s.next + Len(orders)
         /\ t.now = s.now /\ t.cancelled = s.cancelled /\ t.trace = s.trace
         /\ Ids(EventsOf(s, orders)) \cap s.known = {}
         /\ Pending(t) = Pending(s) \cup EventsOf(s, orders)
<1> DEFINE t == Scheduled(s, orders)
           new == EventsOf(s, orders)
<1>1. t = [s EXCEPT !.queue = @ \cup new, !.known = @ \cup Ids(new), !.next = @ + Len(orders)]
  BY DEF Scheduled, EventsOf, EventOf
<1>2. /\ t.queue = s.queue \cup new /\ t.known = s.known \cup Ids(new)
      /\ t.next = s.next + Len(orders)
      /\ t.now = s.now /\ t.cancelled = s.cancelled /\ t.trace = s.trace
      /\ t = [now |-> t.now, queue |-> t.queue, cancelled |-> t.cancelled, known |-> t.known,
              next |-> t.next, trace |-> t.trace]
  BY <1>1 DEF KernelInv, KernelTypes
<1>3. \A e \in new : \E i \in 1..Len(orders) :
        /\ e.time = orders[i].at /\ e.time \in Nat /\ e.time >= s.now
        /\ e.sequence = s.next + i - 1 /\ e.sequence \in Nat /\ e.sequence >= s.next
        /\ e.sequence < s.next + Len(orders)
        /\ e.id = ActualId(orders[i], s.next + i - 1) /\ e.id \notin s.known
        /\ e.kind \in Kinds /\ e.subject \in Workers \cup Nat
        /\ e = [time |-> e.time, sequence |-> e.sequence, id |-> e.id, kind |-> e.kind,
                subject |-> e.subject]
        /\ e = EventOf(s, orders, i)
  <2> SUFFICES ASSUME NEW i \in DOMAIN orders
               PROVE  LET e == EventOf(s, orders, i) IN
                      /\ i \in 1..Len(orders)
                      /\ e.time = orders[i].at /\ e.time \in Nat /\ e.time >= s.now
                      /\ e.sequence = s.next + i - 1 /\ e.sequence \in Nat /\ e.sequence >= s.next
                      /\ e.sequence < s.next + Len(orders)
                      /\ e.id = ActualId(orders[i], s.next + i - 1) /\ e.id \notin s.known
                      /\ e.kind \in Kinds /\ e.subject \in Workers \cup Nat
                      /\ e = [time |-> e.time, sequence |-> e.sequence, id |-> e.id, kind |-> e.kind,
                              subject |-> e.subject]
    BY DEF EventsOf
  <2>1. s.next \in Nat
    BY KernelFacts
  <2>2. i \in 1..Len(orders) /\ Len(orders) \in Nat
    BY DEF Acceptable
  <2> QED
    BY <2>1, <2>2 DEF EventOf, Acceptable
<1>4. Ids(new) \cap s.known = {}
  BY <1>3 DEF Ids
<1>5. \A e, f \in new : e.id = f.id => e = f
  BY <1>3 DEF Acceptable
<1> HIDE DEF new, t
<1>6. new \subseteq Events(t.known)
  <2>1. \A e \in new : e.id \in t.known
    BY <1>2 DEF Ids
  <2> QED
    BY <1>3, <2>1 DEF Events
<1>7. KernelTypes(t)
  <2>1. s.queue \subseteq Events(t.known) /\ s.trace \in Seq(Events(t.known))
    BY <1>2, KernelFacts, EventsGrow
  <2>2. t.next \in Nat
    BY <1>2, KernelFacts DEF Acceptable
  <2> QED
    BY <1>2, <1>6, <2>1, <2>2, KernelFacts DEF KernelTypes
<1>8. HeapInv(t)
  <2>1. \A e \in t.queue : e.time >= t.now /\ e.sequence < t.next
    BY <1>2, <1>3, KernelFacts DEF KernelInv, HeapInv, Acceptable
  <2>2. \A e \in s.queue, f \in new : e.id # f.id
    BY <1>3, KernelFacts
  <2> QED
    BY <1>2, <1>5, <2>1, <2>2 DEF KernelInv, HeapInv, Ids
<1>9. TraceInv(t)
  <2>1. \A i \in DOMAIN s.trace :
          /\ s.trace[i].time \in Nat /\ s.trace[i].sequence \in Nat /\ s.trace[i].id \in s.known
          /\ s.trace[i].time <= s.now /\ s.trace[i].sequence < s.next
    BY KernelFacts DEF KernelInv, TraceInv
  <2>3. \A e \in new : /\ e.time \in Nat /\ e.time >= s.now
                        /\ e.sequence \in Nat /\ e.sequence >= s.next /\ e.id \notin s.known
    BY <1>3
  <2>4. s.now \in Nat /\ s.next \in Nat
    BY KernelFacts
  <2>5. \A i \in DOMAIN s.trace, e \in new : Before(s.trace[i], e) /\ s.trace[i].id # e.id
    BY <2>1, <2>3, <2>4 DEF Before
  <2>2. \A i \in DOMAIN s.trace : s.trace[i].sequence < t.next
    BY <1>2, KernelFacts DEF KernelInv, TraceInv, Acceptable
  <2> QED
    BY <1>2, <2>2, <2>5 DEF KernelInv, TraceInv
<1>10. Pending(t) = Pending(s) \cup new
  <2>1. \A e \in new : e.id \notin s.cancelled
    <3>1. \A e \in new : e.id \notin s.known
      BY <1>3
    <3>2. \A e \in s.queue : e.id \in s.known
      BY KernelFacts
    <3>3. s.cancelled \subseteq Ids(s.queue)
      BY DEF KernelInv, HeapInv
    <3> QED
      BY <3>1, <3>2, <3>3 DEF Ids
  <2> QED
    BY <1>2, <2>1 DEF Pending
<1> QED
  BY <1>2, <1>4, <1>7, <1>8, <1>9, <1>10 DEF KernelInv, t, new

(* cancel only marks.                                                      *)
LEMMA CancelledFields ==
  ASSUME NEW s, KernelInv(s), NEW ids
  PROVE  LET t == Cancelled(s, ids) IN
         /\ KernelInv(t)
         /\ t.queue = s.queue /\ t.known = s.known /\ t.next = s.next
         /\ t.now = s.now /\ t.trace = s.trace
         /\ Pending(t) = {e \in Pending(s) : e.id \notin ids}
<1> DEFINE t == Cancelled(s, ids)
<1>1. t = [s EXCEPT !.cancelled = @ \cup (ids \cap Ids(s.queue))]
  BY DEF Cancelled
<1>2. /\ t.queue = s.queue /\ t.known = s.known /\ t.next = s.next
      /\ t.now = s.now /\ t.trace = s.trace
      /\ t.cancelled = s.cancelled \cup (ids \cap Ids(s.queue))
      /\ t = [now |-> t.now, queue |-> t.queue, cancelled |-> t.cancelled, known |-> t.known,
              next |-> t.next, trace |-> t.trace]
  BY <1>1 DEF KernelInv, KernelTypes
<1> HIDE DEF t
<1>3. KernelTypes(t)
  BY <1>2 DEF KernelInv, KernelTypes
<1>4. HeapInv(t) /\ TraceInv(t)
  BY <1>2 DEF KernelInv, HeapInv, TraceInv
<1>5. Pending(t) = {e \in Pending(s) : e.id \notin ids}
  BY <1>2 DEF Pending, Ids
<1> QED
  BY <1>2, <1>3, <1>4, <1>5 DEF KernelInv, t

(* run pops the earliest live event.                                       *)
LEMMA PoppedFields ==
  ASSUME NEW s, KernelInv(s), NEW e \in s.queue, IsEarliest(s, e)
  PROVE  LET t == Popped(s, e) IN
         /\ KernelInv(t)
         /\ t.known = s.known /\ t.next = s.next
         /\ t.now = e.time /\ t.now >= s.now /\ t.trace = Append(s.trace, e)
         /\ e \in Pending(s)
         /\ Pending(t) = Pending(s) \ {e}
<1> DEFINE rest == {f \in s.queue \ {e} : f.id \in s.cancelled => Before(e, f)}
           t == Popped(s, e)
<1>1. t = [s EXCEPT !.queue = rest, !.cancelled = @ \cap Ids(rest),
                    !.now = e.time, !.trace = Append(@, e)]
  BY DEF Popped
<1>2. /\ t.queue = rest /\ t.cancelled = s.cancelled \cap Ids(rest) /\ t.known = s.known
      /\ t.next = s.next /\ t.now = e.time /\ t.trace = Append(s.trace, e)
      /\ t = [now |-> t.now, queue |-> t.queue, cancelled |-> t.cancelled, known |-> t.known,
              next |-> t.next, trace |-> t.trace]
  BY <1>1 DEF KernelInv, KernelTypes
<1>3. \A f \in rest : f \in s.queue /\ f # e /\ Before(e, f)
  BY DEF IsEarliest, Pending
<1>4. e \in Events(s.known) /\ e.time \in Nat /\ e.sequence \in Nat /\ e.id \in s.known
  BY KernelFacts
<1>5. /\ e.time >= s.now /\ e.sequence < s.next
      /\ \A f \in rest : f.id # e.id
  BY <1>3 DEF KernelInv, HeapInv
<1>6. Pending(t) = Pending(s) \ {e} /\ e \in Pending(s)
  BY <1>2 DEF Pending, Ids, IsEarliest
<1> HIDE DEF rest, t
<1>7. /\ DOMAIN t.trace = 1..(Len(s.trace) + 1) /\ DOMAIN s.trace = 1..Len(s.trace)
      /\ Len(s.trace) \in Nat /\ t.trace \in Seq(Events(s.known))
      /\ t.trace[Len(s.trace) + 1] = e
      /\ \A i \in DOMAIN s.trace : t.trace[i] = s.trace[i]
  <2>1. s.trace \in Seq(Events(s.known))
    BY KernelFacts
  <2> HIDE DEF Events
  <2> QED
    BY <1>2, <1>4, <2>1
<1>8. KernelTypes(t)
  BY <1>2, <1>3, <1>4, <1>7, KernelFacts DEF KernelTypes
<1>9. HeapInv(t)
  <2>1. \A f \in rest : f.time >= e.time
    BY <1>3, <1>4, KernelFacts DEF Before
  <2> QED
    BY <1>2, <1>3, <2>1 DEF KernelInv, HeapInv
<1>10. TraceInv(t)
  <2>1. \A i \in DOMAIN s.trace :
          /\ s.trace[i].time <= e.time /\ s.trace[i].sequence < s.next
          /\ Before(s.trace[i], e) /\ s.trace[i].id # e.id
          /\ \A f \in rest : Before(s.trace[i], f) /\ s.trace[i].id # f.id
    BY <1>3, <1>4, <1>5, KernelFacts DEF KernelInv, TraceInv
  <2>2. ASSUME NEW i \in DOMAIN t.trace
        PROVE  /\ t.trace[i].time <= t.now /\ t.trace[i].sequence < t.next
               /\ \A f \in t.queue : Before(t.trace[i], f) /\ t.trace[i].id # f.id
    <3>1. CASE i \in DOMAIN s.trace
      BY <1>2, <1>7, <2>1, <3>1
    <3>2. CASE i = Len(s.trace) + 1
      BY <1>2, <1>3, <1>4, <1>5, <1>7, <3>2
    <3> QED
      BY <1>7, <2>2, <3>1, <3>2
  <2>3. ASSUME NEW i \in DOMAIN t.trace, NEW j \in DOMAIN t.trace
        PROVE  /\ i < j => Before(t.trace[i], t.trace[j])
               /\ t.trace[i].id = t.trace[j].id => i = j
    <3>1. CASE i \in DOMAIN s.trace /\ j \in DOMAIN s.trace
      BY <1>7, <3>1 DEF KernelInv, TraceInv
    <3>2. CASE i \in DOMAIN s.trace /\ j = Len(s.trace) + 1
      BY <1>7, <2>1, <3>2
    <3>3. CASE i = Len(s.trace) + 1 /\ j \in DOMAIN s.trace
      BY <1>7, <2>1, <3>3
    <3>4. CASE i = Len(s.trace) + 1 /\ j = Len(s.trace) + 1
      BY <1>7, <3>4
    <3> QED
      BY <1>7, <2>3, <3>1, <3>2, <3>3, <3>4
  <2> QED
    BY <2>2, <2>3 DEF TraceInv
<1> QED
  BY <1>2, <1>5, <1>6, <1>8, <1>9, <1>10 DEF KernelInv, t

---------------------------------------------------------------------------
(* From s to t the events in run (at most one) are executed, those with an *)
(* id in gone are cancelled, and those in new are scheduled.               *)
Moved(s, t, run, gone, new) ==
  /\ KernelInv(t)
  /\ t.known = s.known \cup Ids(new) /\ Ids(new) \cap s.known = {}
  /\ s.now <= t.now /\ s.next <= t.next
  /\ \/ run = {} /\ t.trace = s.trace
     \/ \E e \in Pending(s) : run = {e} /\ t.trace = Append(s.trace, e)
  /\ Pending(t) = {e \in Pending(s) \ run : e.id \notin gone} \cup new

LEMMA MovedNot ==
  ASSUME NEW s, KernelInv(s)
  PROVE  Moved(s, s, {}, {}, {})
BY KernelFacts DEF Moved, Ids

LEMMA MovedPop ==
  ASSUME NEW s, KernelInv(s), NEW e \in s.queue, IsEarliest(s, e)
  PROVE  Moved(s, Popped(s, e), {e}, {}, {})
BY PoppedFields, KernelFacts DEF Moved, Ids

(* run(until) that has executed what there was up to then.                 *)
LEMMA MovedOn ==
  ASSUME NEW s, KernelInv(s), NEW until \in Nat, Reaches(s, until)
  PROVE  Moved(s, AtHorizon(s, until), {}, {}, {})
<1> DEFINE rest == {e \in s.queue : e.id \in s.cancelled => e.time > until}
           t == AtHorizon(s, until)
<1>1. t = [s EXCEPT !.queue = rest, !.cancelled = @ \cap Ids(rest), !.now = until]
  BY DEF AtHorizon
<1>2. /\ t.queue = rest /\ t.cancelled = s.cancelled \cap Ids(rest) /\ t.known = s.known
      /\ t.next = s.next /\ t.now = until /\ t.trace = s.trace
      /\ t = [now |-> t.now, queue |-> t.queue, cancelled |-> t.cancelled, known |-> t.known,
              next |-> t.next, trace |-> t.trace]
  BY <1>1 DEF KernelInv, KernelTypes
<1>3. rest \subseteq s.queue /\ until >= s.now
  BY DEF Reaches
<1>4. Pending(t) = Pending(s)
  BY <1>2 DEF Pending, Ids
<1>5. /\ s.now \in Nat /\ s.next \in Nat /\ s.trace \in Seq(Events(s.known))
      /\ \A i \in DOMAIN s.trace : s.trace[i].time \in Nat
      /\ \A e \in s.queue : e.time \in Nat
  BY KernelFacts
<1>6. \A e \in rest : e.time >= until
  <2>1. \A e \in rest : e.id \in s.cancelled \/ e \in Pending(s)
    BY DEF Pending
  <2> QED
    BY <1>5, <2>1 DEF Reaches
<1> HIDE DEF rest, t
<1>7. KernelTypes(t)
  BY <1>2, <1>3, <1>5, KernelFacts DEF KernelTypes
<1>8. HeapInv(t)
  BY <1>2, <1>3, <1>6 DEF KernelInv, HeapInv
<1>9. TraceInv(t)
  <2>1. \A i \in DOMAIN s.trace : s.trace[i].time <= until
    BY <1>3, <1>5 DEF KernelInv, TraceInv
  <2> QED
    BY <1>2, <1>3, <2>1 DEF KernelInv, TraceInv
<1>10. KernelInv(t)
  BY <1>7, <1>8, <1>9 DEF KernelInv
<1>11. Ids({}) = {} /\ {e \in Pending(s) \ {} : e.id \notin {}} \cup {} = Pending(s)
  BY DEF Ids
<1>12. Moved(s, t, {}, {}, {})
  BY <1>2, <1>3, <1>4, <1>5, <1>10, <1>11 DEF Moved
<1> QED
  BY <1>12 DEF t

LEMMA MovedSchedule ==
  ASSUME NEW s, NEW t, KernelInv(s), NEW run, NEW gone, NEW new, Moved(s, t, run, gone, new),
         NEW orders, Acceptable(t, orders)
  PROVE  Moved(s, Scheduled(t, orders), run, gone, new \cup EventsOf(t, orders))
<1>1. KernelInv(t)
  BY DEF Moved
<1>2. Ids(new \cup EventsOf(t, orders)) = Ids(new) \cup Ids(EventsOf(t, orders))
  BY DEF Ids
<1>3. t.next \in Nat /\ s.next \in Nat /\ Len(orders) \in Nat
  BY <1>1, KernelFacts DEF Acceptable
<1> DEFINE u == Scheduled(t, orders)
<1>4. /\ KernelInv(u) /\ u.known = t.known \cup Ids(EventsOf(t, orders))
      /\ u.next = t.next + Len(orders) /\ u.now = t.now /\ u.trace = t.trace
      /\ Ids(EventsOf(t, orders)) \cap t.known = {}
      /\ Pending(u) = Pending(t) \cup EventsOf(t, orders)
  BY <1>1, ScheduledFields
<1> HIDE DEF u
<1>5. /\ u.known = s.known \cup Ids(new \cup EventsOf(t, orders))
      /\ Ids(new \cup EventsOf(t, orders)) \cap s.known = {}
  BY <1>2, <1>4 DEF Moved
<1>6. s.now <= u.now /\ s.next <= u.next
  BY <1>3, <1>4 DEF Moved
<1>7. Moved(s, u, run, gone, new \cup EventsOf(t, orders))
  BY <1>4, <1>5, <1>6 DEF Moved
<1> QED
  BY <1>7 DEF u

LEMMA MovedCancel ==
  ASSUME NEW s, NEW t, NEW run, NEW gone, NEW new, Moved(s, t, run, gone, new),
         NEW ids, ids \cap Ids(new) = {}
  PROVE  Moved(s, Cancelled(t, ids), run, gone \cup ids, new)
<1>1. KernelInv(t)
  BY DEF Moved
<1>2. \A e \in new : e.id \notin ids
  BY DEF Ids
<1> QED
  BY <1>1, <1>2, CancelledFields DEF Moved

(* One order.                                                              *)
LEMMA OneOrder ==
  ASSUME NEW s, KernelInv(s), NEW order,
         order.at \in Nat, order.at >= s.now, order.kind \in Kinds,
         order.subject \in Workers \cup Nat, ActualId(order, s.next) \notin s.known
  PROVE  /\ Acceptable(s, <<order>>)
         /\ EventsOf(s, <<order>>) =
              {[time |-> order.at, sequence |-> s.next, id |-> ActualId(order, s.next),
                kind |-> order.kind, subject |-> order.subject]}
<1>1. s.next \in Nat /\ s.next + 1 - 1 = s.next
  BY KernelFacts
<1>2. Len(<<order>>) = 1 /\ DOMAIN <<order>> = 1..1 /\ <<order>>[1] = order
  OBVIOUS
<1>3. \A i \in DOMAIN <<order>> : i = 1
  BY <1>2
<1>4. EventOf(s, <<order>>, 1) =
        [time |-> order.at, sequence |-> s.next, id |-> ActualId(order, s.next),
         kind |-> order.kind, subject |-> order.subject]
  BY <1>1, <1>2 DEF EventOf
<1>5. EventsOf(s, <<order>>) = {EventOf(s, <<order>>, 1)}
  BY <1>2, <1>3 DEF EventsOf
<1> QED
  BY <1>1, <1>2, <1>3, <1>4, <1>5 DEF Acceptable

(* What has been executed stays so, and nothing executes or becomes        *)
(* pending that was not pending or new.                                    *)
LEMMA MovedHistory ==
  ASSUME NEW s, KernelInv(s), NEW t, NEW run, NEW gone, NEW new, Moved(s, t, run, gone, new)
  PROVE  /\ s.known \subseteq t.known
         /\ DOMAIN s.trace \subseteq DOMAIN t.trace
         /\ \A i \in DOMAIN s.trace : t.trace[i] = s.trace[i]
         /\ \A i \in DOMAIN t.trace \ DOMAIN s.trace : i = Len(s.trace) + 1 /\ run = {t.trace[i]}
         /\ ToSet(t.trace) = ToSet(s.trace) \cup run
         /\ run \subseteq Pending(s)
         /\ Pending(t) \subseteq Pending(s) \cup new
         /\ History(t) \subseteq History(s) \cup new
         /\ new \subseteq Pending(t)
<1>1. /\ s.trace \in Seq(Events(s.known)) /\ Pending(s) \subseteq Events(s.known)
      /\ DOMAIN s.trace = 1..Len(s.trace) /\ Len(s.trace) \in Nat
  BY KernelFacts
<1>2. CASE run = {} /\ t.trace = s.trace
  BY <1>1, <1>2 DEF Moved, History, ToSet
<1>3. ASSUME NEW e \in Pending(s), run = {e}, t.trace = Append(s.trace, e)
      PROVE  /\ DOMAIN t.trace = 1..(Len(s.trace) + 1)
             /\ \A i \in DOMAIN s.trace : t.trace[i] = s.trace[i]
             /\ t.trace[Len(s.trace) + 1] = e
  <2> HIDE DEF Events
  <2> QED
    BY <1>1, <1>3
<1>4. ASSUME NEW e \in Pending(s), run = {e}, t.trace = Append(s.trace, e)
      PROVE  /\ DOMAIN s.trace \subseteq DOMAIN t.trace
             /\ \A i \in DOMAIN t.trace \ DOMAIN s.trace : i = Len(s.trace) + 1 /\ run = {t.trace[i]}
             /\ ToSet(t.trace) = ToSet(s.trace) \cup run
  <2>1. DOMAIN t.trace = DOMAIN s.trace \cup {Len(s.trace) + 1}
    BY <1>1, <1>3, <1>4
  <2> QED
    BY <1>3, <1>4, <2>1 DEF ToSet
<1>5. s.known \subseteq t.known /\ Pending(t) \subseteq Pending(s) \cup new /\ new \subseteq Pending(t)
  BY DEF Moved
<1>6. CASE \E e \in Pending(s) : run = {e} /\ t.trace = Append(s.trace, e)
  <2> PICK e \in Pending(s) : run = {e} /\ t.trace = Append(s.trace, e)
    BY <1>6
  <2> HIDE DEF History
  <2>1. run \subseteq Pending(s)
    OBVIOUS
  <2>2. ToSet(t.trace) = ToSet(s.trace) \cup run
    BY <1>4
  <2>3. History(t) \subseteq History(s) \cup new
    BY <1>5, <2>1, <2>2 DEF History
  <2> QED
    BY <1>3, <1>4, <1>5, <2>1, <2>2, <2>3
<1> QED
  BY <1>2, <1>6 DEF Moved

---------------------------------------------------------------------------
(* Resources and records are never taken back, nor what has begun.         *)
Grows ==
  /\ \A t \in DOMAIN tasks :
       t \in DOMAIN tasks' /\ (tasks[t].status # "QUEUED" => tasks'[t].status # "QUEUED")
  /\ \A r \in DOMAIN replicas : r \in DOMAIN replicas'
  /\ \A t \in DOMAIN transfers :
       /\ t \in DOMAIN transfers'
       /\ transfers[t].status # "SCHEDULED" => transfers'[t].status # "SCHEDULED"
  /\ \A i \in DOMAIN records : i \in DOMAIN records'

(* What a step of the resources does to the events.                        *)
Completion(id) ==
  id = NoEvent \/ id[1] \in {"task-complete", "materialize-complete", "transfer-complete"}

Advance(run, gone, new) ==
  /\ Moved(sim, sim', run, gone, new)
  /\ Grows
  /\ \A e \in new : IdUsed(e.id)' /\ SubjectExists(e)' /\ Tells(e)

(* Only a new replica has its materialization started.                     *)
StartsNew(new) ==
  \A e \in new : e.kind = "STATE_MATERIALIZATION_STARTED" => e.subject \notin DOMAIN replicas /\ new = {e}

Result(run) ==
  \E gone, new : Advance(run, gone, new) /\ StartsNew(new) /\ \A id \in gone : Completion(id)

LEMMA EventsInvStep ==
  ASSUME EventsInv, NEW run, NEW gone, NEW new, Advance(run, gone, new)
  PROVE  EventsInv'
<1> USE DEF Advance
<1>1. KernelInv(sim) /\ KernelInv(sim')
  BY DEF EventsInv, Moved
<1>2. /\ sim'.known = sim.known \cup Ids(new)
      /\ sim.next <= sim'.next /\ sim.next \in Nat /\ sim'.next \in Nat
  BY <1>1, KernelFacts DEF Moved
<1>3. IdsUsed'
  <2>1. ASSUME NEW id \in sim.known PROVE IdUsed(id)'
    <3>1. IdUsed(id)
      BY DEF EventsInv, IdsUsed
    <3>2. MaterializationStarted(id[2]) => MaterializationStarted(id[2])'
      BY <1>1, MovedHistory DEF MaterializationStarted
    <3>3. id[1] = "event" => id[2] < sim'.next
      BY <1>2, <3>1 DEF IdUsed
    <3> QED
      BY <3>1, <3>2, <3>3 DEF IdUsed, Grows
  <2>2. \A id \in Ids(new) : IdUsed(id)'
    BY DEF Ids
  <2> QED
    BY <1>2, <2>1, <2>2 DEF IdsUsed
<1>4. SubjectsExist'
  <2>1. ASSUME NEW e \in History(sim) PROVE SubjectExists(e)'
    BY DEF EventsInv, SubjectsExist, SubjectExists, Grows
  <2>2. History(sim') \subseteq History(sim) \cup new
    BY <1>1, MovedHistory
  <2> QED
    BY <2>1, <2>2 DEF SubjectsExist
<1>5. CompletionsTell'
  <2>1. Pending(sim') \subseteq Pending(sim) \cup new
    BY <1>1, MovedHistory
  <2> QED
    BY <2>1 DEF CompletionsTell, EventsInv
<1> QED
  BY <1>1, <1>3, <1>4, <1>5 DEF EventsInv

---------------------------------------------------------------------------
(* Lemmas about the lists: what an append, a split, a removal and a        *)
(* concatenation do to a list that names each element once.                *)
LEMMA SeqFacts ==
  ASSUME NEW S, NEW q \in Seq(S)
  PROVE  /\ DOMAIN q = 1..Len(q) /\ Len(q) \in Nat
         /\ \A i \in DOMAIN q : q[i] \in S /\ q[i] \in ToSet(q)
         /\ ToSet(q) \subseteq S
BY DEF ToSet

LEMMA SeqIntro ==
  ASSUME NEW S, NEW n \in Nat, NEW f \in [1..n -> S]
  PROVE  f \in Seq(S) /\ Len(f) = n /\ DOMAIN f = 1..n
OBVIOUS

LEMMA EmptyFacts ==
  Len(<< >>) = 0 /\ ToSet(<< >>) = {} /\ Once(<< >>) /\ \A S : << >> \in Seq(S)
BY DEF ToSet, Once

LEMMA SeqGrows ==
  ASSUME NEW S, NEW T, S \subseteq T
  PROVE  Seq(S) \subseteq Seq(T)
OBVIOUS

LEMMA OnceAppend ==
  ASSUME NEW S, NEW q \in Seq(S), Once(q), NEW x \in S, x \notin ToSet(q)
  PROVE  /\ Append(q, x) \in Seq(S) /\ Once(Append(q, x))
         /\ ToSet(Append(q, x)) = ToSet(q) \cup {x}
<1> DEFINE a == Append(q, x)
<1>1. /\ a \in Seq(S) /\ DOMAIN q = 1..Len(q) /\ Len(q) \in Nat
      /\ DOMAIN a = 1..(Len(q) + 1) /\ a[Len(q) + 1] = x
      /\ \A i \in DOMAIN q : a[i] = q[i]
  OBVIOUS
<1>2. \A i \in DOMAIN q : q[i] # x
  BY DEF ToSet
<1> HIDE DEF a
<1>3. ToSet(a) = ToSet(q) \cup {x}
  BY <1>1 DEF ToSet
<1>4. Once(a)
  BY <1>1, <1>2 DEF Once
<1> QED
  BY <1>1, <1>3, <1>4 DEF a

LEMMA OnceSplit ==
  ASSUME NEW S, NEW q \in Seq(S), Once(q), NEW m \in 0..Len(q)
  PROVE  LET head == SubSeq(q, 1, m)
             tail == SubSeq(q, m + 1, Len(q))
         IN /\ head \in Seq(S) /\ Len(head) = m /\ Once(head)
            /\ tail \in Seq(S) /\ Len(tail) = Len(q) - m /\ Once(tail)
            /\ ToSet(head) \cup ToSet(tail) = ToSet(q) /\ ToSet(head) \cap ToSet(tail) = {}
<1> DEFINE head == SubSeq(q, 1, m)
           tail == SubSeq(q, m + 1, Len(q))
<1>1. /\ DOMAIN q = 1..Len(q) /\ Len(q) \in Nat
      /\ head \in Seq(S) /\ Len(head) = m /\ DOMAIN head = 1..m
      /\ \A i \in 1..m : head[i] = q[i]
  OBVIOUS
<1>2. /\ tail \in Seq(S) /\ Len(tail) = Len(q) - m /\ DOMAIN tail = 1..(Len(q) - m)
      /\ \A i \in 1..(Len(q) - m) : tail[i] = q[m + i]
  OBVIOUS
<1> HIDE DEF head, tail
<1>3. Once(head) /\ Once(tail)
  <2>1. ASSUME NEW i \in 1..m, NEW j \in 1..m, head[i] = head[j] PROVE i = j
    <3>1. i \in DOMAIN q /\ j \in DOMAIN q /\ q[i] = q[j]
      BY <1>1, <2>1
    <3> QED
      BY <3>1 DEF Once
  <2>2. ASSUME NEW i \in 1..(Len(q) - m), NEW j \in 1..(Len(q) - m), tail[i] = tail[j] PROVE i = j
    <3>1. m + i \in DOMAIN q /\ m + j \in DOMAIN q /\ q[m + i] = q[m + j]
      BY <1>1, <1>2, <2>2
    <3>2. m + i = m + j
      BY <3>1 DEF Once
    <3> QED
      BY <3>2
  <2> QED
    BY <1>1, <1>2, <2>1, <2>2 DEF Once
<1>4. ToSet(head) \cap ToSet(tail) = {}
  <2> SUFFICES ASSUME NEW i \in 1..m, NEW j \in 1..(Len(q) - m), head[i] = tail[j] PROVE FALSE
    BY <1>1, <1>2 DEF ToSet
  <2>1. i \in DOMAIN q /\ m + j \in DOMAIN q /\ q[i] = q[m + j] /\ i # m + j
    BY <1>1, <1>2
  <2> QED
    BY <2>1 DEF Once
<1>5. \A i \in DOMAIN q : i \in 1..m \/ (i - m \in 1..(Len(q) - m) /\ m + (i - m) = i)
  BY <1>1
<1>6. ToSet(q) \subseteq ToSet(head) \cup ToSet(tail)
  BY <1>1, <1>2, <1>5 DEF ToSet
<1>7. ToSet(head) \subseteq ToSet(q) /\ ToSet(tail) \subseteq ToSet(q)
  <2>1. \A i \in 1..m : i \in DOMAIN q /\ head[i] \in ToSet(q)
    BY <1>1 DEF ToSet
  <2>2. \A i \in 1..(Len(q) - m) : m + i \in DOMAIN q
    BY <1>1
  <2>3. \A i \in 1..(Len(q) - m) : tail[i] \in ToSet(q)
    BY <1>2, <2>2 DEF ToSet
  <2> QED
    BY <1>1, <1>2, <2>1, <2>3 DEF ToSet
<1> QED
  BY <1>1, <1>2, <1>3, <1>4, <1>6, <1>7 DEF head, tail

LEMMA OnceConcat ==
  ASSUME NEW S, NEW p \in Seq(S), NEW q \in Seq(S), Once(p), Once(q), ToSet(p) \cap ToSet(q) = {}
  PROVE  /\ p \o q \in Seq(S) /\ Len(p \o q) = Len(p) + Len(q) /\ Once(p \o q)
         /\ ToSet(p \o q) = ToSet(p) \cup ToSet(q)
<1> DEFINE both == p \o q
<1>1. /\ both \in Seq(S) /\ Len(both) = Len(p) + Len(q)
      /\ DOMAIN p = 1..Len(p) /\ Len(p) \in Nat /\ DOMAIN q = 1..Len(q) /\ Len(q) \in Nat
      /\ DOMAIN both = 1..(Len(p) + Len(q))
      /\ \A i \in 1..Len(p) : both[i] = p[i]
      /\ \A i \in 1..Len(q) : both[Len(p) + i] = q[i]
  OBVIOUS
<1> HIDE DEF both
<1>2. \A i \in DOMAIN both : \/ i \in DOMAIN p /\ both[i] = p[i]
                             \/ i - Len(p) \in DOMAIN q /\ both[i] = q[i - Len(p)]
  <2> TAKE i \in DOMAIN both
  <2>1. i \in 1..Len(p) \/ (i - Len(p) \in 1..Len(q) /\ Len(p) + (i - Len(p)) = i)
    BY <1>1
  <2> QED
    BY <1>1, <2>1
<1>3. ToSet(both) \subseteq ToSet(p) \cup ToSet(q)
  BY <1>2 DEF ToSet
<1>4. ToSet(p) \cup ToSet(q) \subseteq ToSet(both)
  <2>1. \A i \in DOMAIN p : i \in DOMAIN both
    BY <1>1
  <2>2. \A i \in DOMAIN q : Len(p) + i \in DOMAIN both
    BY <1>1
  <2> QED
    BY <1>1, <2>1, <2>2 DEF ToSet
<1>5. Once(both)
  <2> SUFFICES ASSUME NEW i \in DOMAIN both, NEW j \in DOMAIN both, both[i] = both[j] PROVE i = j
    BY DEF Once
  <2>1. \A k \in DOMAIN p, l \in DOMAIN q : p[k] # q[l]
    BY DEF ToSet
  <2> QED
    BY <1>1, <1>2, <2>1 DEF Once
<1> QED
  BY <1>1, <1>3, <1>4, <1>5 DEF both

LEMMA OnceRemove ==
  ASSUME NEW S, NEW q \in Seq(S), Once(q), NEW x \in ToSet(q)
  PROVE  LET r == RemoveFirst(q, x) IN
         /\ r \in Seq(S) /\ Len(r) < Len(q) /\ Once(r)
         /\ ToSet(r) = ToSet(q) \ {x}
<1> DEFINE I == {i \in 1..Len(q) : q[i] = x}
<1>1. DOMAIN q = 1..Len(q) /\ Len(q) \in Nat
  OBVIOUS
<1>2. PICK k \in DOMAIN q : q[k] = x
  BY DEF ToSet
<1>3. I = {k}
  BY <1>1, <1>2 DEF Once
<1>4. Min(I) = k
  <2>1. \A y \in {k} : y = k /\ \A z \in {k} : y =< z
    BY <1>1, <1>2
  <2> HIDE DEF I
  <2> QED
    BY <1>3, <2>1 DEF Min
<1>5. RemoveFirst(q, x) = SubSeq(q, 1, k - 1) \o SubSeq(q, k + 1, Len(q))
  <2>1. SelectInSeq(q, LAMBDA v : v = x) = IF I # {} THEN Min(I) ELSE 0
    BY DEF SelectInSeq
  <2>2. SelectInSeq(q, LAMBDA v : v = x) = k
    BY <1>3, <1>4, <2>1
  <2>3. \E i \in 1..Len(q) : q[i] = x
    BY <1>1, <1>2
  <2> QED
    BY <2>2, <2>3 DEF RemoveFirst, RemoveAt
<1> HIDE DEF I
<1> DEFINE head == SubSeq(q, 1, k - 1)
           rest == SubSeq(q, k, Len(q))
           tail == SubSeq(q, k + 1, Len(q))
           one == SubSeq(q, 1, k)
<1>6. k - 1 \in 0..Len(q) /\ k \in 0..Len(q) /\ k - 1 + 1 = k
  BY <1>1, <1>2
<1>7. /\ head \in Seq(S) /\ Len(head) = k - 1 /\ Once(head)
      /\ rest \in Seq(S) /\ ToSet(head) \cup ToSet(rest) = ToSet(q) /\ ToSet(head) \cap ToSet(rest) = {}
  BY <1>6, OnceSplit
<1>8. /\ tail \in Seq(S) /\ Len(tail) = Len(q) - k /\ Once(tail)
      /\ one \in Seq(S) /\ ToSet(one) \cup ToSet(tail) = ToSet(q) /\ ToSet(one) \cap ToSet(tail) = {}
  BY <1>6, OnceSplit
<1>9. ToSet(one) = ToSet(head) \cup {x}
  <2>1. /\ DOMAIN one = 1..k /\ DOMAIN head = 1..(k - 1)
        /\ \A i \in 1..k : one[i] = q[i]
        /\ \A i \in 1..(k - 1) : head[i] = q[i]
    BY <1>1, <1>2
  <2>2. 1..k = 1..(k - 1) \cup {k}
    BY <1>1, <1>2
  <2> HIDE DEF one, head
  <2> QED
    BY <1>2, <2>1, <2>2 DEF ToSet
<1>10. x \in ToSet(rest)
  <2>1. DOMAIN rest = 1..(Len(q) - k + 1) /\ rest[1] = q[k] /\ 1 \in 1..(Len(q) - k + 1)
    BY <1>1, <1>2
  <2> HIDE DEF rest
  <2> QED
    BY <1>2, <2>1 DEF ToSet
<1> HIDE DEF head, rest, tail, one
<1>11. /\ head \o tail \in Seq(S) /\ Len(head \o tail) = (k - 1) + (Len(q) - k) /\ Once(head \o tail)
       /\ ToSet(head \o tail) = ToSet(head) \cup ToSet(tail)
  <2>1. /\ head \in Seq(S) /\ tail \in Seq(S) /\ Once(head) /\ Once(tail)
        /\ ToSet(head) \cap ToSet(tail) = {}
    BY <1>7, <1>8, <1>9
  <2>2. \A a, b \in Seq(S) : Once(a) /\ Once(b) /\ ToSet(a) \cap ToSet(b) = {} =>
       /\ a \o b \in Seq(S) /\ Len(a \o b) = Len(a) + Len(b) /\ Once(a \o b)
       /\ ToSet(a \o b) = ToSet(a) \cup ToSet(b)
    BY OnceConcat
  <2>3. /\ head \o tail \in Seq(S) /\ Len(head \o tail) = Len(head) + Len(tail) /\ Once(head \o tail)
        /\ ToSet(head \o tail) = ToSet(head) \cup ToSet(tail)
    BY <2>1, <2>2
  <2> QED
    BY <1>7, <1>8, <2>3
<1>12. ToSet(head) \cup ToSet(tail) = ToSet(q) \ {x}
  BY <1>7, <1>8, <1>9, <1>10
<1>13. (k - 1) + (Len(q) - k) < Len(q)
  BY <1>1, <1>2
<1> QED
  BY <1>5, <1>11, <1>12, <1>13 DEF head, tail

LEMMA OnceCounts ==
  ASSUME NEW S, NEW q \in Seq(S), Once(q)
  PROVE  Cardinality(ToSet(q)) = Len(q)
<1>1. DOMAIN q = 1..Len(q) /\ Len(q) \in Nat
  OBVIOUS
<1> DEFINE f == [i \in 1..Len(q) |-> q[i]]
           T == ToSet(q)
<1>2. f \in [1..Len(q) -> T] /\ \A i \in 1..Len(q) : f[i] = q[i]
  BY <1>1 DEF ToSet
<1>3. \A y \in T : \E i \in 1..Len(q) : q[i] = y
  BY <1>1 DEF ToSet
<1> HIDE DEF f, T
<1>4. f \in Bijection(1..Len(q), T)
  BY <1>1, <1>2, <1>3 DEF Bijection, Injection, Surjection, IsInjective, Once
<1>5. ExistsBijection(1..Len(q), T)
  BY <1>4 DEF ExistsBijection
<1>6. Cardinality(T) = Len(q)
  BY <1>1, <1>5, FS_CountingElements
<1> QED
  BY <1>6 DEF T

(* A set of ids in ascending order: the rank of an id, the number of those *)
(* below it, takes every value.                                            *)
LEMMA AscendingFacts ==
  ASSUME NEW n \in Nat, NEW ids \in SUBSET (1..n)
  PROVE  /\ Cardinality(ids) \in Nat
         /\ DOMAIN Ascending(ids) = 1..Cardinality(ids)
         /\ Len(Ascending(ids)) = Cardinality(ids)
         /\ \A i \in DOMAIN Ascending(ids) : Ascending(ids)[i] \in ids
<1> DEFINE c == Cardinality(ids)
           below(id) == {other \in ids : other < id}
           rank == [id \in ids |-> Rank(id, ids)]
<1>1. IsFiniteSet(ids) /\ c \in Nat
  <2>1. IsFiniteSet(1..n)
    BY FS_Interval
  <2> QED
    BY <2>1, FS_Subset, FS_CardinalityType
<1>2. \A id \in ids : IsFiniteSet(below(id)) /\ rank[id] = Cardinality(below(id)) /\ rank[id] \in Nat
  BY <1>1, FS_Subset, FS_CardinalityType DEF Rank
<1>3. ASSUME NEW x \in ids, NEW y \in ids, x < y PROVE rank[x] < rank[y]
  <2>1. below(x) \cup {x} \subseteq below(y) /\ x \notin below(x)
    <3>1. x \in Nat /\ y \in Nat /\ \A z \in ids : z \in Nat
      OBVIOUS
    <3>2. ~(x < x) /\ \A z \in ids : z < x => z < y
      BY <1>3, <3>1
    <3> HIDE DEF rank
    <3> QED
      BY <1>3, <3>2
  <2>2. Cardinality(below(x) \cup {x}) = Cardinality(below(x)) + 1
    BY <1>2, <2>1, FS_AddElement
  <2>3. Cardinality(below(x) \cup {x}) <= Cardinality(below(y))
    BY <1>2, <2>1, FS_Subset
  <2> HIDE DEF rank, below
  <2> QED
    BY <1>2, <2>2, <2>3
<1>4. ASSUME NEW x \in ids PROVE rank[x] < c
  <2>1. below(x) \subseteq ids \ {x}
    OBVIOUS
  <2>2. IsFiniteSet(ids \ {x}) /\ Cardinality(ids \ {x}) = c - 1
    BY <1>1, FS_RemoveElement
  <2>3. Cardinality(below(x)) <= c - 1
    <3>1. Cardinality(below(x)) <= Cardinality(ids \ {x})
      BY <2>1, <2>2, FS_Subset
    <3> HIDE DEF c
    <3> QED
      BY <2>2, <3>1
  <2> HIDE DEF rank, below, c
  <2> QED
    BY <1>1, <1>2, <2>3
<1> HIDE DEF rank, below
<1>5. rank \in Injection(ids, 0..c - 1)
  <2>1. rank \in [ids -> 0..c - 1]
    BY <1>1, <1>2, <1>4 DEF rank
  <2>2. ASSUME NEW x \in ids, NEW y \in ids, x # y PROVE rank[x] # rank[y]
    <3>1. rank[x] < rank[y] \/ rank[y] < rank[x]
      BY <1>3, <2>2
    <3> QED
      BY <1>2, <3>1
  <2> QED
    BY <2>1, <2>2 DEF Injection, IsInjective
<1>6. IsFiniteSet(0..c - 1) /\ Cardinality(0..c - 1) = c
  <2>1. 0 \in Int /\ c - 1 \in Int
    BY <1>1
  <2>2. IsFiniteSet(0..c - 1) /\ Cardinality(0..c - 1) = IF 0 > c - 1 THEN 0 ELSE (c - 1) - 0 + 1
    BY <2>1, FS_Interval
  <2> HIDE DEF c
  <2> QED
    BY <1>1, <2>2
<1>7. rank \in Surjection(ids, 0..c - 1)
  BY <1>5, <1>6, FS_Injection
<1>8. ASSUME NEW i \in 1..c PROVE (CHOOSE id \in ids : Rank(id, ids) = i - 1) \in ids
  <2>1. i - 1 \in 0..c - 1
    BY <1>1
  <2>2. PICK id \in ids : rank[id] = i - 1
    BY <1>7, <2>1 DEF Surjection
  <2>3. Rank(id, ids) = i - 1
    BY <2>2 DEF rank
  <2> QED
    BY <2>3
<1>9. DOMAIN Ascending(ids) = 1..c /\ \A i \in 1..c : Ascending(ids)[i] \in ids
  BY <1>8 DEF Ascending
<1> DEFINE up == Ascending(ids)
<1>10. Len(up) = c
  <2>1. up = [i \in 1..c |-> up[i]] /\ DOMAIN up = 1..c /\ \A i \in 1..c : up[i] \in ids
    BY <1>9 DEF Ascending
  <2> HIDE DEF up, c
  <2>2. up \in [1..c -> ids]
    BY <2>1
  <2> QED
    BY <1>1, <2>2
<1> QED
  BY <1>1, <1>9, <1>10

---------------------------------------------------------------------------
(* The lists of the tasks.                                                 *)
LEMMA TaskFacts ==
  ASSUME TaskTypes
  PROVE  /\ DOMAIN tasks = 1..Len(tasks) /\ Len(tasks) \in Nat
         /\ DOMAIN tasks \subseteq Nat
         /\ \A t \in DOMAIN tasks : /\ tasks[t] \in TaskRecords
                                    /\ tasks[t].worker \in Workers /\ tasks[t].duration \in Nat
                                    /\ tasks[t].status \in {"QUEUED", "RUNNING", "COMPLETED", "FAILED"}
         /\ \A w \in Workers : /\ queues[w] \in Seq(DOMAIN tasks) /\ active[w] \in Seq(DOMAIN tasks)
                               /\ ToSet(queues[w]) \subseteq DOMAIN tasks
                               /\ ToSet(active[w]) \subseteq DOMAIN tasks
<1>1. /\ DOMAIN tasks = 1..Len(tasks) /\ Len(tasks) \in Nat
      /\ \A t \in DOMAIN tasks : tasks[t] \in TaskRecords
  <2> HIDE DEF TaskRecords
  <2> QED
    BY DEF TaskTypes
<1>2. \A q \in Seq(DOMAIN tasks) : ToSet(q) \subseteq DOMAIN tasks
  BY DEF ToSet
<1>3. \A w \in Workers : queues[w] \in Seq(DOMAIN tasks) /\ active[w] \in Seq(DOMAIN tasks)
  BY DEF TaskTypes
<1> QED
  BY <1>1, <1>2, <1>3 DEF TaskRecords

(* enqueue_task: the new task is the last of its queue.                    *)
LEMMA EnqueueSlots ==
  ASSUME TaskTypes, Slots, NEW w \in Workers, NEW d \in Nat,
         tasks' = Append(tasks, Task(w, d)),
         queues' = [queues EXCEPT ![w] = Append(@, Len(tasks) + 1)],
         UNCHANGED <<workers, active>>
  PROVE  TaskTypes' /\ Slots'
<1> DEFINE new == Len(tasks) + 1
<1>1. Task(w, d) \in TaskRecords /\ Task(w, d).worker = w /\ Task(w, d).status = "QUEUED"
      /\ Task(w, d).completion = NoEvent
  BY DEF Task, TaskRecords, NoEvent
<1>2. /\ DOMAIN tasks' = DOMAIN tasks \cup {new} /\ new \notin DOMAIN tasks
      /\ \A t \in DOMAIN tasks : tasks'[t] = tasks[t]
      /\ tasks'[new] = Task(w, d)
      /\ tasks' \in Seq(TaskRecords)
  <2>1. tasks \in Seq(TaskRecords)
    BY DEF TaskTypes
  <2> HIDE DEF TaskRecords
  <2> QED
    BY <1>1, <2>1
<1>3. Seq(DOMAIN tasks) \subseteq Seq(DOMAIN tasks')
  BY <1>2, SeqGrows
<1>4. \A v \in Workers : queues'[v] = IF v = w THEN Append(queues[w], new) ELSE queues[v]
  BY DEF TaskTypes
<1>5. \A v \in Workers : queues[v] \in Seq(DOMAIN tasks') /\ active[v] \in Seq(DOMAIN tasks')
  BY <1>3, TaskFacts
<1>6. Append(queues[w], new) \in Seq(DOMAIN tasks')
  <2> DEFINE E == DOMAIN tasks'
  <2>1. new \in E /\ queues[w] \in Seq(E)
    BY <1>2, <1>5
  <2> HIDE DEF E, new
  <2>2. Append(queues[w], new) \in Seq(E)
    BY <2>1
  <2> QED
    BY <2>2 DEF E
<1>7. TaskTypes'
  <2>1. queues' \in [Workers -> Seq(DOMAIN tasks')]
    BY <1>4, <1>5, <1>6 DEF TaskTypes
  <2>2. active' \in [Workers -> Seq(DOMAIN tasks')]
    BY <1>5 DEF TaskTypes
  <2> QED
    BY <1>1, <1>2, <2>1, <2>2 DEF TaskTypes
<1>8. ASSUME NEW v \in Workers
      PROVE  Lists(queues'[v], tasks', v, "QUEUED") /\ Lists(active[v], tasks', v, "RUNNING")
  <2>1. /\ Lists(queues[v], tasks, v, "QUEUED") /\ Lists(active[v], tasks, v, "RUNNING")
        /\ ToSet(queues[v]) \subseteq DOMAIN tasks /\ ToSet(active[v]) \subseteq DOMAIN tasks
    BY TaskFacts DEF Slots
  <2>2. Lists(active[v], tasks', v, "RUNNING")
    BY <1>1, <1>2, <2>1 DEF Lists
  <2>3. CASE v # w
    BY <1>1, <1>2, <1>4, <2>1, <2>3 DEF Lists
  <2>4. CASE v = w
    <3>2. new \in DOMAIN tasks' /\ queues[w] \in Seq(DOMAIN tasks')
      BY <1>2, <1>5
    <3>3. Once(queues[w]) /\ new \notin ToSet(queues[w])
      BY <1>2, <2>1, <2>4 DEF Lists
    <3>5. Once(Append(queues[w], new)) /\ ToSet(Append(queues[w], new)) = ToSet(queues[w]) \cup {new}
      BY <3>2, <3>3, OnceAppend
    <3> QED
      BY <1>1, <1>2, <1>4, <2>1, <2>2, <2>4, <3>5 DEF Lists
  <2> QED
    BY <2>2, <2>3, <2>4
<1> QED
  BY <1>7, <1>8 DEF Slots

(* _dispatch: from the queue of an UP worker as many tasks are started as  *)
(* it has free slots.                                                      *)
Fills(S, w, up, q, running, chosen, rest) ==
  /\ chosen \in Seq(S) /\ Once(chosen) /\ rest \in Seq(S) /\ Once(rest)
  /\ ToSet(chosen) \cup ToSet(rest) = ToSet(q) /\ ToSet(chosen) \cap ToSet(rest) = {}
  /\ Len(running) + Len(chosen) <= WorkerCapacity[w]
  /\ ~up => chosen = << >>
  /\ up => rest = << >> \/ Len(running) + Len(chosen) = WorkerCapacity[w]

LEMMA StartedFacts ==
  ASSUME NEW S, NEW w \in Workers, NEW up \in BOOLEAN, NEW q \in Seq(S), Once(q),
         NEW running \in Seq(S), Len(running) <= WorkerCapacity[w],
         ~up => running = << >>
  PROVE  LET chosen == Started(w, up, q, running)
         IN  Fills(S, w, up, q, running, chosen, SubSeq(q, Len(chosen) + 1, Len(q)))
<1> DEFINE free == WorkerCapacity[w] - Len(running)
           m == IF up THEN (IF Len(q) < free THEN Len(q) ELSE free) ELSE 0
           chosen == Started(w, up, q, running)
           rest == SubSeq(q, Len(chosen) + 1, Len(q))
<1>1. WorkerCapacity[w] \in Nat /\ Len(running) \in Nat /\ Len(q) \in Nat
  BY TopologyAssumption
<1>2. m \in 0..Len(q) /\ (up => m <= free) /\ (up => m = Len(q) \/ m = free)
  BY <1>1
<1>3. chosen = SubSeq(q, 1, m)
  <2>1. SubSeq(q, 1, 0) = << >>
    OBVIOUS
  <2> QED
    BY <2>1 DEF Started
<1> HIDE DEF m, chosen
<1>4. /\ chosen \in Seq(S) /\ Len(chosen) = m /\ Once(chosen)
      /\ rest \in Seq(S) /\ Len(rest) = Len(q) - m /\ Once(rest)
      /\ ToSet(chosen) \cup ToSet(rest) = ToSet(q) /\ ToSet(chosen) \cap ToSet(rest) = {}
  <2>1. Len(SubSeq(q, 1, m)) = m
    BY <1>2, OnceSplit
  <2>2. chosen = SubSeq(q, 1, m) /\ rest = SubSeq(q, m + 1, Len(q))
    BY <1>3, <2>1
  <2> HIDE DEF rest
  <2> QED
    BY <1>2, <2>2, OnceSplit
<1> HIDE DEF rest
<1>5. Len(running) + Len(chosen) <= WorkerCapacity[w]
  BY <1>1, <1>2, <1>4 DEF m
<1>6. ~up => chosen = << >>
  BY <1>4 DEF m
<1>7. up => rest = << >> \/ Len(running) + Len(chosen) = WorkerCapacity[w]
  <2>1. up /\ m = Len(q) => Len(rest) = 0
    BY <1>1, <1>4
  <2>2. \A z \in Seq(S) : Len(z) = 0 => z = << >>
    OBVIOUS
  <2>3. up /\ m = free => Len(running) + Len(chosen) = WorkerCapacity[w]
    BY <1>1, <1>4
  <2> QED
    BY <1>2, <1>4, <2>1, <2>2, <2>3
<1> QED
  BY <1>4, <1>5, <1>6, <1>7 DEF chosen, rest, Fills

Dispatchable(w, up, running, known) ==
  /\ running \in Seq(DOMAIN tasks) /\ known \in Seq(TaskRecords) /\ DOMAIN known = DOMAIN tasks
  /\ \A t \in DOMAIN tasks : known[t].completion \in {NoEvent, TaskComplete(t)}
  /\ Len(running) <= WorkerCapacity[w] /\ (~up => running = << >>)
  /\ \A v \in Workers : Len(active[v]) <= WorkerCapacity[v]
  /\ Lists(running, known, w, "RUNNING")
  /\ \A v \in Workers : Lists(queues[v], known, v, "QUEUED")
  /\ \A v \in Workers \ {w} : Lists(active[v], known, v, "RUNNING")

Dispatched(w, up, running, known, chosen) ==
  /\ TaskTypes'
  /\ \A v \in Workers : /\ Len(active'[v]) <= WorkerCapacity[v]
                        /\ Lists(active'[v], tasks', v, "RUNNING")
                        /\ Lists(queues'[v], tasks', v, "QUEUED")
  /\ \A v \in Workers \ {w} : active'[v] = active[v] /\ queues'[v] = queues[v]
  /\ ~up => active'[w] = << >>
  /\ up => queues'[w] = << >> \/ Len(active'[w]) = WorkerCapacity[w]
  /\ chosen \in Seq(DOMAIN tasks) /\ Once(chosen) /\ ToSet(chosen) \subseteq ToSet(queues[w])
  /\ DOMAIN tasks' = DOMAIN tasks
  /\ \A t \in DOMAIN tasks :
       tasks'[t] = IF t \in ToSet(chosen)
                     THEN [known[t] EXCEPT !.status = "RUNNING", !.completion = TaskComplete(t)]
                     ELSE known[t]

LEMMA DispatchSlots ==
  ASSUME TaskTypes, NEW w \in Workers, NEW s, NEW up \in BOOLEAN, NEW running, NEW known,
         Dispatchable(w, up, running, known), Dispatch(w, s, up, running, known)
  PROVE  Dispatched(w, up, running, known, Started(w, up, queues[w], running))
<1> USE DEF Dispatchable
<1> DEFINE chosen == Started(w, up, queues[w], running)
           rest == SubSeq(queues[w], Len(chosen) + 1, Len(queues[w]))
           D == DOMAIN tasks
<1>1. queues[w] \in Seq(D) /\ Once(queues[w])
  BY TaskFacts DEF Lists
<1>2. /\ chosen \in Seq(D) /\ Once(chosen) /\ rest \in Seq(D) /\ Once(rest)
      /\ ToSet(chosen) \cup ToSet(rest) = ToSet(queues[w]) /\ ToSet(chosen) \cap ToSet(rest) = {}
      /\ Len(running) + Len(chosen) <= WorkerCapacity[w]
      /\ ~up => chosen = << >>
      /\ up => rest = << >> \/ Len(running) + Len(chosen) = WorkerCapacity[w]
  <2>1. running \in Seq(D) /\ Len(running) <= WorkerCapacity[w] /\ (~up => running = << >>)
    OBVIOUS
  <2> HIDE DEF D
  <2>2. Fills(D, w, up, queues[w], running, chosen, rest)
    BY <1>1, <2>1, StartedFacts
  <2> QED
    BY <2>2 DEF Fills
<1>3. /\ queues' = [queues EXCEPT ![w] = rest]
      /\ active' = [active EXCEPT ![w] = running \o chosen]
      /\ tasks' = [t \in DOMAIN known |->
                     IF t \in ToSet(chosen)
                       THEN [known[t] EXCEPT !.status = "RUNNING", !.completion = TaskComplete(t)]
                       ELSE known[t]]
  BY DEF Dispatch
<1> HIDE DEF chosen, rest
<1>4. \A t \in D : /\ known[t] \in TaskRecords
                   /\ known[t].status \in {"QUEUED", "RUNNING", "COMPLETED", "FAILED"}
  <2>1. \A t \in D : known[t] \in TaskRecords
    <3> HIDE DEF TaskRecords
    <3> QED
      OBVIOUS
  <2> QED
    BY <2>1 DEF TaskRecords
<1>5. \A t \in ToSet(chosen) : t \in D /\ known[t].worker = w /\ known[t].status = "QUEUED"
  BY <1>1, <1>2, SeqFacts DEF Lists
<1>6. \A t \in ToSet(running) : t \in D /\ known[t].worker = w /\ known[t].status = "RUNNING"
  BY SeqFacts DEF Lists
<1>7. /\ running \o chosen \in Seq(D) /\ Len(running \o chosen) = Len(running) + Len(chosen)
      /\ Once(running \o chosen) /\ ToSet(running \o chosen) = ToSet(running) \cup ToSet(chosen)
  <2>1. ToSet(running) \cap ToSet(chosen) = {} /\ Once(running) /\ Once(chosen)
    BY <1>2, <1>5, <1>6 DEF Lists
  <2>2. \A a, b \in Seq(D) : Once(a) /\ Once(b) /\ ToSet(a) \cap ToSet(b) = {} =>
          /\ a \o b \in Seq(D) /\ Len(a \o b) = Len(a) + Len(b) /\ Once(a \o b)
          /\ ToSet(a \o b) = ToSet(a) \cup ToSet(b)
    BY OnceConcat
  <2> HIDE DEF D
  <2> QED
    BY <1>2, <2>1, <2>2 DEF D
<1> DEFINE both == running \o chosen
<1> HIDE DEF both
<1>8. /\ \A v \in Workers : queues'[v] = IF v = w THEN rest ELSE queues[v]
      /\ \A v \in Workers : active'[v] = IF v = w THEN both ELSE active[v]
      /\ queues' \in [Workers -> Seq(D)] /\ active' \in [Workers -> Seq(D)]
  <2>1. queues \in [Workers -> Seq(D)] /\ active \in [Workers -> Seq(D)]
    BY DEF TaskTypes
  <2>2. rest \in Seq(D) /\ both \in Seq(D)
    BY <1>2, <1>7 DEF both
  <2>3. queues' = [queues EXCEPT ![w] = rest] /\ active' = [active EXCEPT ![w] = both]
    BY <1>3 DEF both
  <2> HIDE DEF D
  <2> QED
    BY <2>1, <2>2, <2>3
<1>9. /\ DOMAIN tasks' = D
      /\ \A t \in D : /\ tasks'[t].worker = known[t].worker
                      /\ tasks'[t].status = IF t \in ToSet(chosen) THEN "RUNNING" ELSE known[t].status
                      /\ tasks'[t].completion \in {NoEvent, TaskComplete(t)}
                      /\ tasks'[t] \in TaskRecords
  <2>1. DOMAIN tasks' = D
    BY <1>3
  <2> SUFFICES ASSUME NEW t \in D
               PROVE  /\ tasks'[t].worker = known[t].worker
                      /\ tasks'[t].status = IF t \in ToSet(chosen) THEN "RUNNING" ELSE known[t].status
                      /\ tasks'[t].completion \in {NoEvent, TaskComplete(t)}
                      /\ tasks'[t] \in TaskRecords
    BY <2>1
  <2>2. known[t] \in TaskRecords /\ TaskComplete(t) \in {"task-complete"} \X Nat
    BY <1>4, TaskFacts DEF TaskComplete
  <2>3. tasks'[t] = IF t \in ToSet(chosen)
                      THEN [known[t] EXCEPT !.status = "RUNNING", !.completion = TaskComplete(t)]
                      ELSE known[t]
    BY <1>3
  <2> QED
    BY <2>2, <2>3 DEF TaskRecords
<1>10. tasks' \in Seq(TaskRecords)
  <2>1. DOMAIN tasks' = 1..Len(tasks) /\ Len(tasks) \in Nat /\ \A t \in 1..Len(tasks) : tasks'[t] \in TaskRecords
    BY <1>9, TaskFacts
  <2>2. tasks' = [t \in 1..Len(tasks) |-> tasks'[t]]
    BY <1>3, <1>9, TaskFacts
  <2> HIDE DEF TaskRecords
  <2>3. tasks' \in [1..Len(tasks) -> TaskRecords]
    BY <2>1, <2>2
  <2> QED
    BY <2>1, <2>3
<1>11. TaskTypes'
  BY <1>8, <1>9, <1>10 DEF TaskTypes
<1>12. ASSUME NEW v \in Workers
       PROVE  /\ Len(active'[v]) <= WorkerCapacity[v]
              /\ Lists(active'[v], tasks', v, "RUNNING")
              /\ Lists(queues'[v], tasks', v, "QUEUED")
  <2>1. CASE v # w
    <3>1. \A t \in D : known[t].worker = v => t \notin ToSet(chosen)
      BY <1>5, <2>1
    <3>2. Lists(active[v], known, v, "RUNNING") /\ Lists(queues[v], known, v, "QUEUED")
      BY <2>1
    <3>3. Lists(active[v], tasks', v, "RUNNING") /\ Lists(queues[v], tasks', v, "QUEUED")
      <4>1. \A t \in D : /\ tasks'[t].worker = v <=> known[t].worker = v
                         /\ known[t].worker = v => tasks'[t].status = known[t].status
        BY <1>9, <3>1
      <4>2. DOMAIN tasks' = D /\ DOMAIN known = D
        BY <1>9
      <4> HIDE DEF D
      <4>3. Lists(active[v], tasks', v, "RUNNING")
        BY <3>2, <4>1, <4>2 DEF Lists
      <4>4. Lists(queues[v], tasks', v, "QUEUED")
        BY <3>2, <4>1, <4>2 DEF Lists
      <4> QED
        BY <4>3, <4>4
    <3> QED
      BY <1>8, <2>1, <3>3
  <2>2. CASE v = w
    <3>1. Len(active'[v]) <= WorkerCapacity[v]
      BY <1>2, <1>7, <1>8, <2>2 DEF both
    <3>2. Lists(active'[v], tasks', v, "RUNNING")
      <4>1. \A t \in D : t \in ToSet(both) <=> t \in ToSet(running) \/ t \in ToSet(chosen)
        BY <1>7 DEF both
      <4>2. \A t \in D : t \in ToSet(running) <=> known[t].worker = w /\ known[t].status = "RUNNING"
        BY DEF Lists
      <4>3. \A t \in D : t \in ToSet(both) <=> tasks'[t].worker = w /\ tasks'[t].status = "RUNNING"
        BY <1>5, <1>9, <4>1, <4>2
      <4>4. active'[v] = both /\ Once(both) /\ DOMAIN tasks' = D
        BY <1>7, <1>8, <1>9, <2>2 DEF both
      <4> HIDE DEF D
      <4> QED
        BY <2>2, <4>3, <4>4 DEF Lists
    <3>3. Lists(queues'[v], tasks', v, "QUEUED")
      <4>1. \A t \in D : t \in ToSet(rest) <=> t \in ToSet(queues[w]) /\ t \notin ToSet(chosen)
        BY <1>2
      <4>2. \A t \in D : t \in ToSet(queues[w]) <=> known[t].worker = w /\ known[t].status = "QUEUED"
        BY DEF Lists
      <4>3. \A t \in D : t \in ToSet(rest) <=> tasks'[t].worker = w /\ tasks'[t].status = "QUEUED"
        BY <1>5, <1>9, <4>1, <4>2
      <4>4. queues'[v] = rest /\ Once(rest) /\ DOMAIN tasks' = D
        BY <1>2, <1>8, <1>9, <2>2
      <4> HIDE DEF D
      <4> QED
        BY <2>2, <4>3, <4>4 DEF Lists
    <3> QED
      BY <3>1, <3>2, <3>3
  <2> QED
    BY <2>1, <2>2
<1>13. ~up => active'[w] = << >>
  <2>1. ~up => both = << >>
    BY <1>2 DEF both
  <2> QED
    BY <1>8, <2>1
<1>14. up => queues'[w] = << >> \/ Len(active'[w]) = WorkerCapacity[w]
  BY <1>2, <1>7, <1>8 DEF both
<1> QED
  BY <1>2, <1>3, <1>8, <1>11, <1>12, <1>13, <1>14 DEF chosen, Dispatched

---------------------------------------------------------------------------
(* The orders of the handlers are accepted: the completion of a task that  *)
(* was queued, and events without an id of their own.                      *)
LEMMA CompletionEvents ==
  ASSUME EventsInv, TaskTypes, NEW s, NEW run, NEW gone, Moved(sim, s, run, gone, {}),
         NEW chosen \in Seq(DOMAIN tasks), Once(chosen),
         \A t \in ToSet(chosen) : tasks[t].status = "QUEUED",
         NEW known, \A t \in ToSet(chosen) : known[t].duration \in Nat
  PROVE  LET new == EventsOf(s, Completions(s, chosen, known)) IN
         /\ Acceptable(s, Completions(s, chosen, known))
         /\ \A e \in new : /\ e.kind = "WORKER_TASK_COMPLETED" /\ e.subject \in ToSet(chosen)
                           /\ e.id = TaskComplete(e.subject)
         /\ \A t \in ToSet(chosen) : \E e \in new : e.kind = "WORKER_TASK_COMPLETED" /\ e.subject = t
<1> DEFINE orders == Completions(s, chosen, known)
           new == EventsOf(s, orders)
<1>1. KernelInv(s) /\ s.known = sim.known /\ s.now \in Nat /\ s.next \in Nat
  BY KernelFacts DEF Moved, Ids
<1>2. /\ DOMAIN chosen = 1..Len(chosen) /\ Len(chosen) \in Nat
      /\ \A i \in DOMAIN chosen : chosen[i] \in DOMAIN tasks /\ chosen[i] \in ToSet(chosen)
  BY SeqFacts
<1>3. \A i \in DOMAIN chosen :
        /\ orders[i].at = s.now + known[chosen[i]].duration
        /\ orders[i].kind = "WORKER_TASK_COMPLETED" /\ orders[i].subject = chosen[i]
        /\ orders[i].id = TaskComplete(chosen[i])
  BY DEF Completions, Order
<1>4. /\ DOMAIN orders = 1..Len(chosen) /\ Len(orders) = Len(chosen)
      /\ \A i \in DOMAIN orders : i \in DOMAIN chosen
  <2>1. orders = [i \in 1..Len(chosen) |-> orders[i]]
    BY <1>2 DEF Completions
  <2> HIDE DEF orders
  <2>2. orders \in [1..Len(chosen) -> {orders[i] : i \in 1..Len(chosen)}]
    BY <2>1
  <2> QED
    BY <1>2, <2>2
<1> HIDE DEF orders
<1>5. \A n : \A i \in DOMAIN chosen : /\ ActualId(orders[i], n) = TaskComplete(chosen[i])
                                       /\ ActualId(orders[i], n) \notin sim.known
  <2> TAKE n
  <2> TAKE i \in DOMAIN chosen
  <2>1. ActualId(orders[i], n) = TaskComplete(chosen[i])
    BY <1>3 DEF ActualId, NoId, TaskComplete
  <2>2. \A id \in sim.known : id[1] = "task-complete" => tasks[id[2]].status # "QUEUED"
    BY DEF EventsInv, IdsUsed, IdUsed
  <2>3. TaskComplete(chosen[i])[1] = "task-complete" /\ TaskComplete(chosen[i])[2] = chosen[i]
    BY DEF TaskComplete
  <2> QED
    BY <1>2, <2>1, <2>2, <2>3
<1>6. Acceptable(s, orders)
  <2>1. \A i, j \in DOMAIN chosen : TaskComplete(chosen[i]) = TaskComplete(chosen[j]) => i = j
    BY DEF TaskComplete, Once
  <2>2. \A i \in DOMAIN chosen : orders[i].at \in Nat /\ orders[i].at >= s.now
    BY <1>1, <1>2, <1>3
  <2>3. \A i \in DOMAIN chosen : orders[i].kind \in Kinds /\ orders[i].subject \in Workers \cup Nat
    <3>1. DOMAIN tasks \subseteq Nat
      BY TaskFacts
    <3>2. "WORKER_TASK_COMPLETED" \in Kinds
      BY DEF Kinds
    <3> QED
      BY <1>2, <1>3, <3>1, <3>2
  <2> QED
    BY <1>1, <1>2, <1>4, <1>5, <2>1, <2>2, <2>3 DEF Acceptable
<1>7. \A e \in new : \E i \in DOMAIN chosen : e = EventOf(s, orders, i)
  BY <1>2, <1>4 DEF EventsOf
<1>8. \A i \in DOMAIN chosen : EventOf(s, orders, i) \in new
  BY <1>2, <1>4 DEF EventsOf
<1>9. \A i \in DOMAIN chosen :
        LET e == EventOf(s, orders, i) IN
        e.kind = "WORKER_TASK_COMPLETED" /\ e.subject = chosen[i] /\ e.id = TaskComplete(chosen[i])
  BY <1>3, <1>5 DEF EventOf
<1> HIDE DEF new
<1>10. \A t \in ToSet(chosen) : \E i \in DOMAIN chosen : t = chosen[i]
  BY DEF ToSet
<1> QED
  BY <1>2, <1>6, <1>7, <1>8, <1>9, <1>10 DEF new, orders

LEMMA AtOnceEvents ==
  ASSUME EventsInv, NEW s, NEW run, NEW gone, Moved(sim, s, run, gone, {}),
         NEW n \in Nat, NEW orders, Len(orders) = n, DOMAIN orders = 1..n,
         \A i \in 1..n : /\ orders[i].at = s.now /\ orders[i].id = NoId
                         /\ orders[i].kind \in Kinds /\ orders[i].subject \in Workers \cup Nat
  PROVE  /\ Acceptable(s, orders)
         /\ \A e \in EventsOf(s, orders) :
              /\ e.id # NoEvent /\ e.id[1] = "event"
              /\ e.id[2] \in Nat /\ e.id[2] < s.next + n
              /\ \E i \in 1..n : e.kind = orders[i].kind /\ e.subject = orders[i].subject
<1>1. /\ KernelInv(s) /\ s.known = sim.known /\ s.now \in Nat /\ s.next \in Nat
      /\ sim.next \in Nat /\ sim.next <= s.next
  BY KernelFacts DEF Moved, Ids, EventsInv
<1>2. \A i \in 1..n : ActualId(orders[i], s.next + i - 1) = <<"event", s.next + i - 1>>
  BY DEF ActualId
<1>3. \A i \in 1..n : <<"event", s.next + i - 1>> \notin sim.known
  <2>1. \A id \in sim.known : id[1] = "event" => id[2] \in Nat /\ id[2] < sim.next
    BY DEF EventsInv, IdsUsed, IdUsed
  <2>2. \A i \in 1..n : ~(s.next + i - 1 < sim.next)
    BY <1>1
  <2> QED
    BY <2>1, <2>2
<1>4. \A i, j \in 1..n : <<"event", s.next + i - 1>> = <<"event", s.next + j - 1>> => i = j
  BY <1>1
<1>5. Acceptable(s, orders)
  <2>1. \A i \in 1..n : orders[i].at \in Nat /\ orders[i].at >= s.now
    BY <1>1
  <2>2. \A i \in 1..n : ActualId(orders[i], s.next + i - 1) \notin s.known
    BY <1>1, <1>2, <1>3
  <2>3. \A i, j \in 1..n :
          ActualId(orders[i], s.next + i - 1) = ActualId(orders[j], s.next + j - 1) => i = j
    BY <1>2, <1>4
  <2> QED
    BY <2>1, <2>2, <2>3 DEF Acceptable
<1>6. \A e \in EventsOf(s, orders) : \E i \in 1..n :
        /\ e.kind = orders[i].kind /\ e.subject = orders[i].subject
        /\ e.id = <<"event", s.next + i - 1>>
  BY <1>2 DEF EventsOf, EventOf
<1>7. \A i \in 1..n : LET id == <<"event", s.next + i - 1>> IN
        id # NoEvent /\ id[1] = "event" /\ id[2] \in Nat /\ id[2] < s.next + n
  BY <1>1 DEF NoEvent
<1> QED
  BY <1>5, <1>6, <1>7

---------------------------------------------------------------------------
(* Waiting: an event that dispatches a worker or completes a task stays    *)
(* pending unless it is executed; the handlers cancel completions only.    *)
LEMMA WaitingStep ==
  ASSUME EventsInv, NobodyWaitsInVain, RunningTasksEnd,
         NEW run, NEW gone, NEW new, Moved(sim, sim', run, gone, new),
         \A id \in gone : Completion(id),
         \A t \in DOMAIN tasks' : tasks'[t].status = "RUNNING" => TaskComplete(t) \notin gone,
         \A w \in Workers :
           workers'[w] = "UP" /\ queues'[w] # << >> /\ Len(active'[w]) < WorkerCapacity[w] =>
             \/ \E e \in new : e.kind = "WORKER_TASK_ENQUEUED" /\ e.subject = w
             \/ /\ workers[w] = "UP" /\ queues[w] # << >> /\ Len(active[w]) < WorkerCapacity[w]
                /\ \A e \in run : ~(e.kind = "WORKER_TASK_ENQUEUED" /\ e.subject = w),
         \A t \in DOMAIN tasks' :
           tasks'[t].status = "RUNNING" =>
             \/ \E e \in new : e.kind = "WORKER_TASK_COMPLETED" /\ e.subject = t
             \/ /\ t \in DOMAIN tasks /\ tasks[t].status = "RUNNING"
                /\ \A e \in run : ~(e.kind = "WORKER_TASK_COMPLETED" /\ e.subject = t)
  PROVE  NobodyWaitsInVain' /\ RunningTasksEnd'
<1>1. Pending(sim') = {e \in Pending(sim) \ run : e.id \notin gone} \cup new
  BY DEF Moved
<1>2. \A e \in Pending(sim) : Tells(e) /\ e.id # NoEvent
  <2>1. \A e \in Pending(sim) : e.id \in sim.known
    BY KernelFacts DEF EventsInv
  <2> QED
    BY <2>1 DEF EventsInv, CompletionsTell, IdsUsed, IdUsed
<1>3. ASSUME NEW e \in Pending(sim), e.kind = "WORKER_TASK_ENQUEUED" PROVE e.id \notin gone
  BY <1>2, <1>3 DEF Tells, Completion
<1>4. ASSUME NEW e \in Pending(sim), e.kind = "WORKER_TASK_COMPLETED",
             NEW t \in DOMAIN tasks', tasks'[t].status = "RUNNING", e.subject = t, e.id \in gone
      PROVE  FALSE
  <2>1. Completion(e.id) /\ Tells(e) /\ e.id # NoEvent
    BY <1>2, <1>4
  <2>2. e.id[1] = "task-complete"
    BY <1>4, <2>1 DEF Completion, Tells
  <2>3. e.id = TaskComplete(t)
    BY <1>4, <2>1, <2>2 DEF Tells
  <2> QED
    BY <1>4, <2>3
<1>5. ASSUME NEW w \in Workers, workers'[w] = "UP", queues'[w] # << >>,
             Len(active'[w]) < WorkerCapacity[w]
      PROVE  \E e \in Pending(sim') : e.kind = "WORKER_TASK_ENQUEUED" /\ e.subject = w
  <2>1. CASE \E e \in new : e.kind = "WORKER_TASK_ENQUEUED" /\ e.subject = w
    BY <1>1, <2>1
  <2>2. CASE /\ workers[w] = "UP" /\ queues[w] # << >> /\ Len(active[w]) < WorkerCapacity[w]
             /\ \A e \in run : ~(e.kind = "WORKER_TASK_ENQUEUED" /\ e.subject = w)
    <3>1. PICK e \in Pending(sim) : e.kind = "WORKER_TASK_ENQUEUED" /\ e.subject = w
      BY <2>2 DEF NobodyWaitsInVain
    <3> QED
      BY <1>1, <1>3, <2>2, <3>1
  <2> QED
    BY <1>5, <2>1, <2>2
<1>6. ASSUME NEW t \in DOMAIN tasks', tasks'[t].status = "RUNNING"
      PROVE  \E e \in Pending(sim') : e.kind = "WORKER_TASK_COMPLETED" /\ e.subject = t
  <2>1. CASE \E e \in new : e.kind = "WORKER_TASK_COMPLETED" /\ e.subject = t
    BY <1>1, <2>1
  <2>2. CASE /\ t \in DOMAIN tasks /\ tasks[t].status = "RUNNING"
             /\ \A e \in run : ~(e.kind = "WORKER_TASK_COMPLETED" /\ e.subject = t)
    <3>1. PICK e \in Pending(sim) : e.kind = "WORKER_TASK_COMPLETED" /\ e.subject = t
      BY <2>2 DEF RunningTasksEnd
    <3> QED
      BY <1>1, <1>4, <1>6, <2>2, <3>1
  <2> QED
    BY <1>6, <2>1, <2>2
<1> QED
  BY <1>5, <1>6 DEF NobodyWaitsInVain, RunningTasksEnd

---------------------------------------------------------------------------
(* What every step keeps: the events, and both sides of the resources.     *)
Kept(run) ==
  /\ Result(run)
  /\ WorkerTypes' /\ TaskSide' /\ MoveSide'
  /\ NobodyWaitsInVain /\ RunningTasksEnd => NobodyWaitsInVain' /\ RunningTasksEnd'

LEMMA MovesStay ==
  ASSUME WorkerTypes, WorkerTypes', MoveSide, UNCHANGED <<replicas, transfers>>,
         \A w \in Workers : workers[w] = "UP" => workers'[w] = "UP"
  PROVE  MoveSide'
<1>1. MoveTypes' /\ OneTransfer'
  BY DEF MoveSide, MoveTypes, OneTransfer, Unfinished
<1>2. /\ \A r \in DOMAIN replicas : replicas[r].location \in Workers
      /\ \A t \in DOMAIN transfers : Source(t) \in Workers /\ Destination(t) \in Workers
  <2>1. \A r \in DOMAIN replicas : replicas[r] \in ReplicaRecords
    <3> HIDE DEF ReplicaRecords
    <3> QED
      BY DEF MoveSide, MoveTypes
  <2>2. \A t \in DOMAIN transfers : transfers[t] \in TransferRecords(DOMAIN replicas)
    <3> HIDE DEF TransferRecords
    <3> QED
      BY DEF MoveSide, MoveTypes
  <2> QED
    BY <2>1, <2>2, TopologyAssumption DEF ReplicaRecords, TransferRecords, Source, Destination
<1>3. AvailableIsReachable'
  BY <1>2 DEF MoveSide, AvailableIsReachable, Sound, Source, Destination
<1> QED
  BY <1>1, <1>3 DEF MoveSide

LEMMA TasksStay ==
  ASSUME TaskSide, UNCHANGED <<workers, taskVars>>
  PROVE  TaskSide'
BY DEF TaskSide, TaskTypes, Slots, taskVars

(* A step that leaves the tasks alone and executes an event that is not    *)
(* about them.                                                             *)
LEMMA WaitingStays ==
  ASSUME EventsInv, UNCHANGED <<workers, taskVars>>,
         NEW run, NEW gone, NEW new, Moved(sim, sim', run, gone, new),
         \A id \in gone : Completion(id), \A t : TaskComplete(t) \notin gone,
         \A e \in run : /\ e.kind # "WORKER_TASK_ENQUEUED"
                        /\ e.kind = "WORKER_TASK_COMPLETED" => tasks[e.subject].status # "RUNNING"
  PROVE  NobodyWaitsInVain /\ RunningTasksEnd => NobodyWaitsInVain' /\ RunningTasksEnd'
<1> SUFFICES ASSUME NobodyWaitsInVain, RunningTasksEnd PROVE NobodyWaitsInVain' /\ RunningTasksEnd'
  OBVIOUS
<1>1. workers' = workers /\ tasks' = tasks /\ queues' = queues /\ active' = active
  BY DEF taskVars
<1> QED
  BY <1>1, WaitingStep

(* _dispatch, called from three handlers: running and known are the active *)
(* list of w and the tasks as the handler has changed them before.         *)
LEMMA DispatchStep ==
  ASSUME EventsInv, WorkerTypes, WorkerTypes', TaskSide, MoveSide,
         NEW s, NEW run, Moved(sim, s, run, {}, {}),
         NEW w \in Workers, NEW up \in BOOLEAN, NEW running, NEW known,
         Dispatchable(w, up, running, known),
         \A t \in DOMAIN tasks :
           /\ known[t].status = "QUEUED" <=> tasks[t].status = "QUEUED"
           /\ known[t].status = "RUNNING" =>
                /\ tasks[t].status = "RUNNING"
                /\ \A e \in run : ~(e.kind = "WORKER_TASK_COMPLETED" /\ e.subject = t),
         \A e \in run : e.kind = "WORKER_TASK_ENQUEUED" => e.subject = w,
         \A v \in Workers \ {w} : workers'[v] = workers[v],
         workers'[w] = IF up THEN "UP" ELSE "DOWN", workers[w] = "UP" => up,
         Dispatch(w, s, up, running, known),
         UNCHANGED <<replicas, transfers, records>>
  PROVE  Kept(run)
<1> DEFINE chosen == Started(w, up, queues[w], running)
           orders == Completions(s, chosen, known)
           new == EventsOf(s, orders)
<1> USE DEF TaskSide
<1>1. Dispatched(w, up, running, known, chosen)
  BY DispatchSlots
<1> HIDE DEF chosen
<1>2. /\ TaskTypes'
      /\ \A v \in Workers : /\ Len(active'[v]) <= WorkerCapacity[v]
                            /\ Lists(active'[v], tasks', v, "RUNNING")
                            /\ Lists(queues'[v], tasks', v, "QUEUED")
      /\ \A v \in Workers \ {w} : active'[v] = active[v] /\ queues'[v] = queues[v]
      /\ ~up => active'[w] = << >>
      /\ up => queues'[w] = << >> \/ Len(active'[w]) = WorkerCapacity[w]
      /\ chosen \in Seq(DOMAIN tasks) /\ Once(chosen) /\ ToSet(chosen) \subseteq ToSet(queues[w])
      /\ DOMAIN tasks' = DOMAIN tasks
      /\ \A t \in DOMAIN tasks :
           tasks'[t] = IF t \in ToSet(chosen)
                         THEN [known[t] EXCEPT !.status = "RUNNING", !.completion = TaskComplete(t)]
                         ELSE known[t]
  BY <1>1 DEF Dispatched
<1>3. sim' = Scheduled(s, orders)
  BY DEF Dispatch, chosen
<1>4. \A t \in ToSet(chosen) : t \in DOMAIN tasks /\ tasks[t].status = "QUEUED"
  <2>1. ToSet(queues[w]) \subseteq DOMAIN tasks
    BY TaskFacts
  <2> QED
    BY <1>2, <2>1 DEF Lists, Dispatchable
<1>5. \A t \in DOMAIN tasks : /\ known[t].duration \in Nat
                              /\ tasks'[t].status = IF t \in ToSet(chosen) THEN "RUNNING" ELSE known[t].status
  <2>1. \A t \in DOMAIN tasks : known[t] \in TaskRecords
    <3> HIDE DEF TaskRecords
    <3> QED
      BY DEF Dispatchable
  <2> QED
    BY <1>2, <2>1 DEF TaskRecords
<1>6. /\ Acceptable(s, orders)
      /\ \A e \in new : /\ e.kind = "WORKER_TASK_COMPLETED" /\ e.subject \in ToSet(chosen)
                        /\ e.id = TaskComplete(e.subject)
      /\ \A t \in ToSet(chosen) : \E e \in new : e.kind = "WORKER_TASK_COMPLETED" /\ e.subject = t
  <2>1. /\ \A t \in ToSet(chosen) : tasks[t].status = "QUEUED"
        /\ \A t \in ToSet(chosen) : known[t].duration \in Nat
    BY <1>4, <1>5
  <2>2. chosen \in Seq(DOMAIN tasks) /\ Once(chosen) /\ TaskTypes
    BY <1>2
  <2> QED
    BY <2>1, <2>2, CompletionEvents
<1>7. Moved(sim, sim', run, {}, new)
  <2>1. Moved(sim, Scheduled(s, orders), run, {}, {} \cup EventsOf(s, orders))
    BY <1>6, MovedSchedule DEF EventsInv
  <2> QED
    BY <1>3, <2>1
<1> HIDE DEF orders, new
<1>8. Grows
  BY <1>2, <1>4, <1>5 DEF Grows
<1>9. ASSUME NEW e \in new PROVE IdUsed(e.id)' /\ SubjectExists(e)' /\ Tells(e)
  <2>1. /\ e.kind = "WORKER_TASK_COMPLETED" /\ e.subject \in DOMAIN tasks'
        /\ e.id = TaskComplete(e.subject) /\ tasks'[e.subject].status = "RUNNING"
    BY <1>2, <1>4, <1>5, <1>6
  <2> QED
    BY <2>1 DEF IdUsed, SubjectExists, Tells, TaskComplete, NoEvent
<1>10. Result(run)
  <2>1. StartsNew(new)
    BY <1>6 DEF StartsNew
  <2> QED
    BY <1>7, <1>8, <1>9, <2>1 DEF Result, Advance
<1>11. TaskSide'
  <2>1. ASSUME NEW v \in Workers PROVE workers'[v] = "DOWN" => active'[v] = << >>
    BY <1>2 DEF Slots
  <2> QED
    BY <1>2, <2>1 DEF Slots
<1>12. MoveSide'
  <2>1. \A v \in Workers : workers[v] = "UP" => workers'[v] = "UP"
    OBVIOUS
  <2> QED
    BY <2>1, MovesStay
<1>13. ASSUME NobodyWaitsInVain, RunningTasksEnd
       PROVE  NobodyWaitsInVain' /\ RunningTasksEnd'
  <2>1. ASSUME NEW v \in Workers,
               workers'[v] = "UP", queues'[v] # << >>, Len(active'[v]) < WorkerCapacity[v]
        PROVE  /\ workers[v] = "UP" /\ queues[v] # << >> /\ Len(active[v]) < WorkerCapacity[v]
               /\ \A e \in run : ~(e.kind = "WORKER_TASK_ENQUEUED" /\ e.subject = v)
    <3>1. CASE v = w
      <4>1. up
        BY <2>1, <3>1
      <4>2. Len(active'[w]) = WorkerCapacity[w]
        BY <1>2, <2>1, <3>1, <4>1
      <4>3. WorkerCapacity[w] \in Nat
        BY TopologyAssumption
      <4> QED
        BY <2>1, <3>1, <4>2, <4>3
    <3>2. CASE v # w
      BY <1>2, <2>1, <3>2
    <3> QED
      BY <3>1, <3>2
  <2>2. ASSUME NEW t \in DOMAIN tasks', tasks'[t].status = "RUNNING"
        PROVE  \/ \E e \in new : e.kind = "WORKER_TASK_COMPLETED" /\ e.subject = t
               \/ /\ t \in DOMAIN tasks /\ tasks[t].status = "RUNNING"
                  /\ \A e \in run : ~(e.kind = "WORKER_TASK_COMPLETED" /\ e.subject = t)
    <3>1. t \in DOMAIN tasks
      BY <1>2, <2>2
    <3>2. CASE t \in ToSet(chosen)
      BY <1>6, <3>2
    <3>3. CASE t \notin ToSet(chosen)
      <4>1. known[t].status = "RUNNING"
        BY <1>5, <2>2, <3>1, <3>3
      <4> QED
        BY <3>1, <4>1
    <3> QED
      BY <3>2, <3>3
  <2> QED
    BY <1>7, <1>13, <2>1, <2>2, WaitingStep
<1> QED
  BY <1>10, <1>11, <1>12, <1>13 DEF Kept

Sides == EventsInv /\ WorkerTypes /\ TaskSide /\ MoveSide

(* A handler that returns early.                                           *)
LEMMA IgnoredStep ==
  ASSUME Sides, UNCHANGED records, NEW s, NEW run, Moved(sim, s, run, {}, {}), Ignored(s),
         \A e \in run : /\ e.kind # "WORKER_TASK_ENQUEUED"
                        /\ e.kind = "WORKER_TASK_COMPLETED" => tasks[e.subject].status # "RUNNING"
  PROVE  Kept(run)
<1>1. /\ sim' = s
      /\ UNCHANGED <<workers, taskVars>> /\ UNCHANGED <<workers, tasks, replicas, transfers, records>>
  BY DEF Ignored, taskVars
<1>2. Advance(run, {}, {})
  BY <1>1 DEF Advance, Grows
<1>3. Result(run)
  BY <1>2 DEF Result, StartsNew
<1>4. WorkerTypes' /\ MoveSide'
  <2>1. WorkerTypes'
    BY <1>1 DEF Sides, WorkerTypes
  <2> QED
    BY <1>1, <2>1, MovesStay DEF Sides
<1>5. NobodyWaitsInVain /\ RunningTasksEnd => NobodyWaitsInVain' /\ RunningTasksEnd'
  BY <1>1, WaitingStays DEF Sides
<1> QED
  BY <1>1, <1>3, <1>4, <1>5, TasksStay DEF Kept, Sides

(* _on_worker_task_enqueued.                                               *)
LEMMA TaskEnqueuedStep ==
  ASSUME Sides, UNCHANGED records, NEW s, NEW run, Moved(sim, s, run, {}, {}),
         NEW w \in Workers, OnTaskEnqueued(w, s),
         \A e \in run : e.kind = "WORKER_TASK_ENQUEUED" /\ e.subject = w
  PROVE  Kept(run)
<1> DEFINE up == workers[w] = "UP"
<1>1. /\ Dispatch(w, s, up, active[w], tasks)
      /\ UNCHANGED <<replicas, transfers, records>> /\ workers' = workers
  BY DEF OnTaskEnqueued
<1>2. WorkerTypes' /\ workers[w] = (IF up THEN "UP" ELSE "DOWN") /\ up \in BOOLEAN
  BY <1>1 DEF Sides, WorkerTypes
<1>3. Dispatchable(w, up, active[w], tasks)
  <2>1. /\ tasks \in Seq(TaskRecords) /\ active[w] \in Seq(DOMAIN tasks)
        /\ \A t \in DOMAIN tasks : tasks[t].completion \in {NoEvent, TaskComplete(t)}
    BY DEF Sides, TaskSide, TaskTypes
  <2>2. ~up => active[w] = << >>
    BY <1>2 DEF Sides, TaskSide, Slots
  <2> QED
    BY <2>1, <2>2 DEF Dispatchable, Sides, TaskSide, Slots
<1> HIDE DEF up
<1> QED
  BY <1>1, <1>2, <1>3, DispatchStep DEF Sides

(* _on_worker_recovered.                                                   *)
LEMMA WorkerRecoveredStep ==
  ASSUME Sides, UNCHANGED records, NEW s, NEW run, Moved(sim, s, run, {}, {}),
         NEW w \in Workers, OnWorkerRecovered(w, s),
         \A e \in run : e.kind = "WORKER_RECOVERED"
  PROVE  Kept(run)
<1>1. CASE workers[w] = "UP" /\ Ignored(s)
  BY <1>1, IgnoredStep
<1>2. CASE /\ workers[w] = "DOWN" /\ workers' = [workers EXCEPT ![w] = "UP"]
           /\ Dispatch(w, s, TRUE, active[w], tasks) /\ UNCHANGED <<replicas, transfers>>
  <2>1. /\ WorkerTypes' /\ workers'[w] = "UP"
        /\ \A v \in Workers \ {w} : workers'[v] = workers[v]
    BY <1>2 DEF Sides, WorkerTypes
  <2>2. Dispatchable(w, TRUE, active[w], tasks)
    <3>1. /\ tasks \in Seq(TaskRecords) /\ active[w] \in Seq(DOMAIN tasks)
          /\ \A t \in DOMAIN tasks : tasks[t].completion \in {NoEvent, TaskComplete(t)}
      BY DEF Sides, TaskSide, TaskTypes
    <3> QED
      BY <3>1 DEF Dispatchable, Sides, TaskSide, Slots
  <2>3. /\ workers'[w] = IF TRUE THEN "UP" ELSE "DOWN"
        /\ \A e \in run : e.kind # "WORKER_TASK_ENQUEUED" /\ e.kind # "WORKER_TASK_COMPLETED"
    BY <2>1
  <2> QED
    BY <1>2, <2>1, <2>2, <2>3, DispatchStep DEF Sides
<1> QED
  BY <1>1, <1>2 DEF OnWorkerRecovered

(* _on_worker_task_completed: the task gives up its slot.                  *)
LEMMA TaskCompletedStep ==
  ASSUME Sides, UNCHANGED records, NEW s, NEW run, Moved(sim, s, run, {}, {}),
         NEW t \in DOMAIN tasks, OnTaskCompleted(t, s),
         \A e \in run : e.kind = "WORKER_TASK_COMPLETED" /\ e.subject = t
  PROVE  Kept(run)
<1>1. CASE tasks[t].status # "RUNNING" /\ Ignored(s)
  BY <1>1, IgnoredStep
<1> DEFINE w == tasks[t].worker
           up == workers[w] = "UP"
           running == RemoveFirst(active[w], t)
           known == [tasks EXCEPT ![t].status = "COMPLETED", ![t].completion = NoEvent]
<1>2. CASE /\ tasks[t].status = "RUNNING" /\ Dispatch(w, s, up, running, known)
           /\ UNCHANGED <<workers, replicas, transfers, callers, raised>>
  <2>1. TaskTypes /\ Slots
    BY DEF Sides, TaskSide
  <2>2. /\ w \in Workers /\ active[w] \in Seq(DOMAIN tasks) /\ t \in ToSet(active[w])
        /\ Lists(active[w], tasks, w, "RUNNING") /\ Len(active[w]) <= WorkerCapacity[w]
        /\ Len(active[w]) \in Nat /\ WorkerCapacity[w] \in Nat
    <3>1. w \in Workers /\ active[w] \in Seq(DOMAIN tasks)
      BY <2>1, TaskFacts
    <3>2. Lists(active[w], tasks, w, "RUNNING") /\ Len(active[w]) <= WorkerCapacity[w]
      BY <2>1, <3>1 DEF Slots
    <3> QED
      BY <1>2, <3>1, <3>2, SeqFacts, TopologyAssumption DEF Lists
  <2>3. /\ running \in Seq(DOMAIN tasks) /\ Len(running) < Len(active[w]) /\ Once(running)
        /\ ToSet(running) = ToSet(active[w]) \ {t}
    BY <2>2, OnceRemove DEF Lists
  <2>4. up /\ w \in Workers /\ workers[w] = (IF up THEN "UP" ELSE "DOWN") /\ up \in BOOLEAN
    <3>1. active[w] # << >>
      BY <2>2 DEF ToSet
    <3> QED
      BY <2>1, <2>2, <3>1 DEF Sides, WorkerTypes, Slots
  <2>5. /\ DOMAIN known = DOMAIN tasks /\ known \in Seq(TaskRecords)
        /\ \A u \in DOMAIN tasks : /\ known[u].completion \in {NoEvent, TaskComplete(u)}
                                   /\ known[u].worker = tasks[u].worker
                                   /\ known[u].status = IF u = t THEN "COMPLETED" ELSE tasks[u].status
    <3>1. /\ DOMAIN known = DOMAIN tasks
          /\ \A u \in DOMAIN tasks :
               known[u] = IF u = t THEN [tasks[u] EXCEPT !.status = "COMPLETED", !.completion = NoEvent]
                                   ELSE tasks[u]
      OBVIOUS
    <3>2. \A u \in DOMAIN tasks : /\ tasks[u] \in TaskRecords
                                  /\ tasks[u].completion \in {NoEvent, TaskComplete(u)}
      BY <2>1, TaskFacts DEF TaskTypes
    <3>3. \A u \in DOMAIN tasks : /\ known[u] \in TaskRecords
                                  /\ known[u].completion \in {NoEvent, TaskComplete(u)}
                                  /\ known[u].worker = tasks[u].worker
                                  /\ known[u].status = IF u = t THEN "COMPLETED" ELSE tasks[u].status
      <4> HIDE DEF known
      <4> TAKE u \in DOMAIN tasks
      <4>1. CASE u # t
        BY <3>1, <3>2, <4>1
      <4>2. CASE u = t
        <5>1. known[u] = [tasks[u] EXCEPT !.status = "COMPLETED", !.completion = NoEvent]
          BY <3>1, <4>2
        <5>2. tasks[u] \in TaskRecords
          BY <3>2
        <5> QED
          BY <4>2, <5>1, <5>2 DEF TaskRecords
      <4> QED
        BY <4>1, <4>2
    <3>4. known \in Seq(TaskRecords)
      <4>1. DOMAIN known = 1..Len(tasks) /\ Len(tasks) \in Nat /\ \A u \in 1..Len(tasks) : known[u] \in TaskRecords
        BY <2>1, <3>1, <3>3, TaskFacts
      <4>2. known = [u \in 1..Len(tasks) |-> known[u]]
        BY <4>1
      <4> HIDE DEF known, TaskRecords
      <4>3. known \in [1..Len(tasks) -> TaskRecords]
        BY <4>1, <4>2
      <4> QED
        BY <4>1, <4>3
    <3> QED
      BY <3>1, <3>3, <3>4
  <2> HIDE DEF known, running, up
  <2>6. Lists(running, known, w, "RUNNING")
    BY <2>2, <2>3, <2>5 DEF Lists
  <2>7. ASSUME NEW v \in Workers PROVE Lists(queues[v], known, v, "QUEUED")
    <3>1. Lists(queues[v], tasks, v, "QUEUED")
      BY <2>1 DEF Slots
    <3>2. \A u \in DOMAIN tasks : known[u].status = "QUEUED" <=> tasks[u].status = "QUEUED"
      BY <1>2, <2>5
    <3> QED
      BY <2>5, <3>1, <3>2 DEF Lists
  <2>8. ASSUME NEW v \in Workers \ {w} PROVE Lists(active[v], known, v, "RUNNING")
    <3>1. Lists(active[v], tasks, v, "RUNNING")
      BY <2>1 DEF Slots
    <3>2. \A u \in DOMAIN tasks :
            tasks[u].worker = v => (known[u].status = "RUNNING" <=> tasks[u].status = "RUNNING")
      BY <1>2, <2>5, <2>8
    <3> QED
      BY <2>5, <3>1, <3>2 DEF Lists
  <2>9. Dispatchable(w, up, running, known)
    <3>1. Len(running) \in Nat
      BY <2>3
    <3>2. Len(running) <= WorkerCapacity[w]
      BY <2>2, <2>3, <3>1
    <3> QED
      BY <2>1, <2>3, <2>4, <2>5, <2>6, <2>7, <2>8, <3>2 DEF Dispatchable, Slots
  <2>10. \A u \in DOMAIN tasks :
           /\ known[u].status = "QUEUED" <=> tasks[u].status = "QUEUED"
           /\ known[u].status = "RUNNING" =>
                /\ tasks[u].status = "RUNNING"
                /\ \A e \in run : ~(e.kind = "WORKER_TASK_COMPLETED" /\ e.subject = u)
    BY <1>2, <2>5
  <2>11. WorkerTypes' /\ workers' = workers /\ \A e \in run : e.kind # "WORKER_TASK_ENQUEUED"
    BY <1>2 DEF Sides, WorkerTypes
  <2> HIDE DEF w
  <2> QED
    BY <1>2, <2>4, <2>9, <2>10, <2>11, DispatchStep DEF Sides
<1> QED
  BY <1>1, <1>2 DEF OnTaskCompleted

(* enqueue_task.                                                           *)
LEMMA EnqueueTaskStep ==
  ASSUME Sides, UNCHANGED records, NEW w \in Workers, NEW d \in Nat, EnqueueTask(w, d)
  PROVE  Kept({})
<1> DEFINE t == Len(tasks) + 1
           order == Order("WORKER_TASK_ENQUEUED", sim.now, <<"task-enqueued", t>>, w)
           new == EventsOf(sim, <<order>>)
<1>1. /\ tasks' = Append(tasks, Task(w, d)) /\ queues' = [queues EXCEPT ![w] = Append(@, t)]
      /\ sim' = Scheduled(sim, <<order>>)
      /\ UNCHANGED <<workers, active, replicas, transfers, raised, records>>
  BY DEF EnqueueTask
<1>2. KernelInv(sim) /\ TaskTypes /\ Slots
  BY DEF Sides, TaskSide, EventsInv
<1>3. TaskSide'
  BY <1>1, <1>2, EnqueueSlots DEF TaskSide
<1>4. /\ t \notin DOMAIN tasks /\ t \in DOMAIN tasks' /\ t \in Nat
      /\ DOMAIN tasks' = DOMAIN tasks \cup {t}
      /\ \A u \in DOMAIN tasks : tasks'[u] = tasks[u]
      /\ tasks'[t] = Task(w, d)
  <2>1. tasks \in Seq(TaskRecords)
    BY <1>2 DEF TaskTypes
  <2>2. Task(w, d) \in TaskRecords
    BY DEF Task, TaskRecords, NoEvent
  <2> HIDE DEF TaskRecords
  <2> QED
    BY <1>1, <2>1, <2>2
<1>5. /\ order.at = sim.now /\ order.kind = "WORKER_TASK_ENQUEUED" /\ order.subject = w
      /\ order.id = <<"task-enqueued", t>> /\ ActualId(order, sim.next) = <<"task-enqueued", t>>
  BY DEF Order, ActualId, NoId
<1>6. <<"task-enqueued", t>> \notin sim.known
  <2>1. \A id \in sim.known : id[1] = "task-enqueued" => id[2] \in DOMAIN tasks
    BY DEF Sides, EventsInv, IdsUsed, IdUsed
  <2> QED
    BY <1>4, <2>1
<1>7. sim.now \in Nat /\ sim.now >= sim.now /\ order.kind \in Kinds
  BY <1>2, <1>5, KernelFacts DEF Kinds
<1> HIDE DEF order
<1>8. /\ Acceptable(sim, <<order>>)
      /\ new = {[time |-> sim.now, sequence |-> sim.next, id |-> <<"task-enqueued", t>>,
                 kind |-> "WORKER_TASK_ENQUEUED", subject |-> w]}
  BY <1>2, <1>5, <1>6, <1>7, OneOrder
<1>9. Moved(sim, sim', {}, {}, new)
  <2>1. Moved(sim, Scheduled(sim, <<order>>), {}, {}, {} \cup EventsOf(sim, <<order>>))
    BY <1>2, <1>8, MovedNot, MovedSchedule
  <2> QED
    BY <1>1, <2>1
<1> HIDE DEF new, t
<1>10. Grows
  BY <1>1, <1>4 DEF Grows
<1>11. ASSUME NEW e \in new PROVE IdUsed(e.id)' /\ SubjectExists(e)' /\ Tells(e)
  BY <1>4, <1>8 DEF IdUsed, SubjectExists, Tells, NoEvent
<1>12. Result({})
  <2>1. StartsNew(new)
    BY <1>8 DEF StartsNew
  <2> QED
    BY <1>9, <1>10, <1>11, <2>1 DEF Result, Advance
<1>13. WorkerTypes' /\ MoveSide'
  <2>1. WorkerTypes'
    BY <1>1 DEF Sides, WorkerTypes
  <2> QED
    BY <1>1, <2>1, MovesStay DEF Sides
<1>14. ASSUME NobodyWaitsInVain, RunningTasksEnd
       PROVE  NobodyWaitsInVain' /\ RunningTasksEnd'
  <2>1. \E e \in new : e.kind = "WORKER_TASK_ENQUEUED" /\ e.subject = w
    BY <1>8
  <2>2. \A v \in Workers : v # w => queues'[v] = queues[v]
    BY <1>1, <1>2 DEF TaskTypes
  <2>3. \A u \in DOMAIN tasks' : tasks'[u].status = "RUNNING" => u \in DOMAIN tasks /\ tasks[u].status = "RUNNING"
    BY <1>4 DEF Task
  <2> QED
    BY <1>1, <1>9, <1>14, <2>1, <2>2, <2>3, WaitingStep DEF Sides
<1> QED
  BY <1>3, <1>12, <1>13, <1>14 DEF Kept

(* Events without an id of their own, scheduled by a handler.              *)
NewId(id, next) == id # NoEvent /\ id[1] = "event" /\ id[2] \in Nat /\ id[2] < next

LEMMA NewIdsAreUsed ==
  ASSUME NEW e, NewId(e.id, sim'.next)
  PROVE  IdUsed(e.id)' /\ Tells(e)
BY DEF NewId, IdUsed, Tells

AtOnceOrders(s) == {AtOnce(s, kind, subject) : kind \in Kinds, subject \in Workers \cup Nat}

LEMMA AtOnceStep ==
  ASSUME EventsInv, NEW s, NEW run, NEW gone, Moved(sim, s, run, gone, {}),
         NEW O, O \subseteq AtOnceOrders(s), NEW orders \in Seq(O)
  PROVE  LET t == Scheduled(s, orders)
             new == EventsOf(s, orders)
         IN /\ Moved(sim, t, run, gone, new)
            /\ \A e \in new : /\ NewId(e.id, t.next)
                              /\ \E order \in O : e.kind = order.kind /\ e.subject = order.subject
<1>1. /\ Len(orders) \in Nat /\ DOMAIN orders = 1..Len(orders)
      /\ \A i \in 1..Len(orders) : orders[i] \in O
  OBVIOUS
<1>2. \A order \in O : /\ order.at = s.now /\ order.id = NoId
                       /\ order.kind \in Kinds /\ order.subject \in Workers \cup Nat
  BY DEF AtOnceOrders, AtOnce, Order
<1>3. /\ Acceptable(s, orders)
      /\ \A e \in EventsOf(s, orders) :
           /\ e.id # NoEvent /\ e.id[1] = "event"
           /\ e.id[2] \in Nat /\ e.id[2] < s.next + Len(orders)
           /\ \E i \in 1..Len(orders) : e.kind = orders[i].kind /\ e.subject = orders[i].subject
  BY <1>1, <1>2, AtOnceEvents
<1>4. Moved(sim, Scheduled(s, orders), run, gone, EventsOf(s, orders))
  <2>1. Moved(sim, Scheduled(s, orders), run, gone, {} \cup EventsOf(s, orders))
    BY <1>3, MovedSchedule DEF EventsInv
  <2> QED
    BY <2>1
<1>5. Scheduled(s, orders).next = s.next + Len(orders)
  BY <1>3, ScheduledFields DEF Moved
<1> QED
  BY <1>1, <1>3, <1>4, <1>5 DEF NewId

(* One such event.                                                         *)
LEMMA OneAtOnce ==
  ASSUME EventsInv, NEW s, NEW run, NEW gone, Moved(sim, s, run, gone, {}),
         NEW kind \in Kinds, NEW subject \in Workers \cup Nat
  PROVE  LET t == Scheduled(s, <<AtOnce(s, kind, subject)>>)
             new == EventsOf(s, <<AtOnce(s, kind, subject)>>)
         IN /\ Moved(sim, t, run, gone, new)
            /\ \A e \in new : NewId(e.id, t.next) /\ e.kind = kind /\ e.subject = subject
<1> DEFINE order == AtOnce(s, kind, subject)
<1>1. {order} \subseteq AtOnceOrders(s)
  BY DEF AtOnceOrders
<1>2. order.kind = kind /\ order.subject = subject
  BY DEF AtOnce, Order
<1> HIDE DEF order
<1>3. <<order>> \in Seq({order})
  OBVIOUS
<1>4. /\ Moved(sim, Scheduled(s, <<order>>), run, gone, EventsOf(s, <<order>>))
      /\ \A e \in EventsOf(s, <<order>>) :
           /\ NewId(e.id, Scheduled(s, <<order>>).next)
           /\ \E o \in {order} : e.kind = o.kind /\ e.subject = o.subject
  BY <1>1, <1>3, AtOnceStep
<1> QED
  BY <1>2, <1>4 DEF order

(* fail_worker, recover_worker, evict_replica and lose_replica only order  *)
(* an event.                                                               *)
LEMMA OrderedStep ==
  ASSUME Sides, NEW kind \in Kinds, NEW subject \in Workers \cup Nat,
         sim' = Scheduled(sim, <<AtOnce(sim, kind, subject)>>),
         UNCHANGED <<workers, taskVars, replicas, transfers>>,
         \A i \in DOMAIN records : i \in DOMAIN records',
         kind \in {"WORKER_FAILED", "WORKER_RECOVERED"} => subject \in Workers,
         kind \in {"STATE_EVICTED", "STATE_LOST"} => subject \in DOMAIN replicas,
         kind \in {"WORKER_FAILED", "WORKER_RECOVERED", "STATE_EVICTED", "STATE_LOST"}
  PROVE  Kept({})
<1> DEFINE new == EventsOf(sim, <<AtOnce(sim, kind, subject)>>)
<1>1. /\ Moved(sim, sim', {}, {}, new)
      /\ \A e \in new : NewId(e.id, sim'.next) /\ e.kind = kind /\ e.subject = subject
  BY OneAtOnce, MovedNot DEF Sides, EventsInv
<1> HIDE DEF new
<1>2. workers' = workers /\ tasks' = tasks /\ replicas' = replicas /\ transfers' = transfers
  BY DEF taskVars
<1>3. \A e \in new : IdUsed(e.id)' /\ SubjectExists(e)' /\ Tells(e)
  BY <1>1, <1>2, NewIdsAreUsed DEF SubjectExists
<1>4. Result({})
  <2>1. StartsNew(new)
    BY <1>1 DEF StartsNew
  <2> QED
    BY <1>1, <1>2, <1>3, <2>1 DEF Result, Advance, Grows
<1>5. WorkerTypes' /\ MoveSide' /\ TaskSide'
  <2>1. WorkerTypes'
    BY <1>2 DEF Sides, WorkerTypes
  <2> QED
    BY <1>2, <2>1, MovesStay, TasksStay DEF Sides
<1>6. NobodyWaitsInVain /\ RunningTasksEnd => NobodyWaitsInVain' /\ RunningTasksEnd'
  BY <1>1, WaitingStays DEF Sides
<1> QED
  BY <1>4, <1>5, <1>6 DEF Kept

---------------------------------------------------------------------------
(* Replicas and transfers.                                                 *)
LEMMA MoveFacts ==
  ASSUME MoveTypes
  PROVE  /\ DOMAIN replicas = 1..Len(replicas) /\ Len(replicas) \in Nat /\ DOMAIN replicas \subseteq Nat
         /\ DOMAIN transfers = 1..Len(transfers) /\ Len(transfers) \in Nat /\ DOMAIN transfers \subseteq Nat
         /\ \A r \in DOMAIN replicas :
              /\ replicas[r] \in ReplicaRecords
              /\ replicas[r].location \in Workers /\ replicas[r].duration \in Nat
              /\ replicas[r].status \in {"MATERIALIZING", "AVAILABLE", "EVICTED", "LOST"}
              /\ replicas[r].completion = NoEvent \/ replicas[r].completion[1] = "materialize-complete"
         /\ \A t \in DOMAIN transfers :
              /\ transfers[t] \in TransferRecords(DOMAIN replicas)
              /\ transfers[t].replica \in DOMAIN replicas /\ transfers[t].link \in DOMAIN Links
              /\ transfers[t].status \in {"SCHEDULED", "RUNNING", "COMPLETED", "FAILED"}
              /\ transfers[t].completion = NoEvent \/ transfers[t].completion[1] = "transfer-complete"
              /\ Source(t) \in Workers /\ Destination(t) \in Workers
              /\ Links[transfers[t].link].duration \in Nat
<1>1. /\ DOMAIN replicas = 1..Len(replicas) /\ Len(replicas) \in Nat
      /\ \A r \in DOMAIN replicas : replicas[r] \in ReplicaRecords
  <2> HIDE DEF ReplicaRecords
  <2> QED
    BY DEF MoveTypes
<1>2. /\ DOMAIN transfers = 1..Len(transfers) /\ Len(transfers) \in Nat
      /\ \A t \in DOMAIN transfers : transfers[t] \in TransferRecords(DOMAIN replicas)
  <2> HIDE DEF TransferRecords
  <2> QED
    BY DEF MoveTypes
<1>3. \A r \in DOMAIN replicas :
        /\ replicas[r].location \in Workers /\ replicas[r].duration \in Nat
        /\ replicas[r].status \in {"MATERIALIZING", "AVAILABLE", "EVICTED", "LOST"}
        /\ replicas[r].completion = NoEvent \/ replicas[r].completion[1] = "materialize-complete"
  BY <1>1 DEF ReplicaRecords
<1>4. \A t \in DOMAIN transfers :
        /\ transfers[t].replica \in DOMAIN replicas /\ transfers[t].link \in DOMAIN Links
        /\ transfers[t].status \in {"SCHEDULED", "RUNNING", "COMPLETED", "FAILED"}
        /\ transfers[t].completion = NoEvent \/ transfers[t].completion[1] = "transfer-complete"
  BY <1>2 DEF TransferRecords
<1>5. \A t \in DOMAIN transfers :
        /\ Source(t) \in Workers /\ Destination(t) \in Workers
        /\ Links[transfers[t].link].duration \in Nat
  BY <1>4, TopologyAssumption DEF Source, Destination
<1> QED
  BY <1>1, <1>2, <1>3, <1>4, <1>5

(* The records change, their number does not.                              *)
LEMMA ReplicasChange ==
  ASSUME MoveTypes, replicas' = [r \in DOMAIN replicas |-> replicas'[r]],
         \A r \in DOMAIN replicas : replicas'[r] \in ReplicaRecords
  PROVE  replicas' \in Seq(ReplicaRecords) /\ DOMAIN replicas' = DOMAIN replicas
<1>1. DOMAIN replicas = 1..Len(replicas) /\ Len(replicas) \in Nat
  BY MoveFacts
<1> HIDE DEF ReplicaRecords
<1>2. replicas' \in [1..Len(replicas) -> ReplicaRecords]
  BY <1>1
<1> QED
  BY <1>1, <1>2

LEMMA TransfersChange ==
  ASSUME MoveTypes, transfers' = [t \in DOMAIN transfers |-> transfers'[t]],
         \A t \in DOMAIN transfers : transfers'[t] \in TransferRecords(DOMAIN replicas)
  PROVE  transfers' \in Seq(TransferRecords(DOMAIN replicas)) /\ DOMAIN transfers' = DOMAIN transfers
<1>1. DOMAIN transfers = 1..Len(transfers) /\ Len(transfers) \in Nat
  BY MoveFacts
<1> DEFINE T == TransferRecords(DOMAIN replicas)
<1>2. \A t \in DOMAIN transfers : transfers'[t] \in T
  OBVIOUS
<1> HIDE DEF T
<1>3. transfers' \in [1..Len(transfers) -> T]
  BY <1>1, <1>2
<1>4. transfers' \in Seq(T)
  BY <1>1, <1>3
<1> QED
  BY <1>1, <1>3, <1>4 DEF T

(* What must be shown of a step that changes them.                         *)
LEMMA MoveSideStep ==
  ASSUME MoveSide,
         replicas' \in Seq(ReplicaRecords) /\ DOMAIN replicas' = DOMAIN replicas,
         transfers' \in Seq(TransferRecords(DOMAIN replicas)) /\ DOMAIN transfers' = DOMAIN transfers,
         \A t \in DOMAIN transfers :
           /\ transfers'[t].replica = transfers[t].replica /\ transfers'[t].link = transfers[t].link
           /\ transfers'[t].status \in {"SCHEDULED", "RUNNING"} => Unfinished(t),
         \A r \in DOMAIN replicas :
           replicas'[r].status = "AVAILABLE" => workers'[replicas'[r].location] = "UP",
         \A t \in DOMAIN transfers :
           transfers'[t].status = "RUNNING" =>
             LET r == transfers[t].replica IN
             /\ replicas'[r].status = "AVAILABLE" /\ replicas'[r].location = Source(t)
             /\ workers'[Source(t)] = "UP" /\ workers'[Destination(t)] = "UP"
  PROVE  MoveSide'
<1>1. MoveTypes'
  BY DEF MoveTypes
<1>2. OneTransfer'
  BY DEF MoveSide, OneTransfer, Unfinished
<1>3. \A t \in DOMAIN transfers : Source(t)' = Source(t) /\ Destination(t)' = Destination(t)
  BY DEF Source, Destination
<1>4. AvailableIsReachable'
  BY <1>3 DEF AvailableIsReachable, Sound
<1> QED
  BY <1>1, <1>2, <1>4 DEF MoveSide

---------------------------------------------------------------------------
(* _on_worker_failed: the tasks of the worker.                             *)
FailsTasks(w) ==
  /\ workers' = [workers EXCEPT ![w] = "DOWN"] /\ queues' = queues
  /\ active' = [active EXCEPT ![w] = << >>]
  /\ tasks' = [t \in DOMAIN tasks |->
                 IF t \in ToSet(active[w])
                   THEN [tasks[t] EXCEPT !.status = "FAILED", !.completion = NoEvent]
                   ELSE tasks[t]]

LEMMA FailedTasks ==
  ASSUME TaskSide, WorkerTypes, NEW w \in Workers, FailsTasks(w)
  PROVE  TaskSide'
<1>1. TaskTypes /\ Slots
  BY DEF TaskSide
<1>2. /\ DOMAIN tasks' = DOMAIN tasks
      /\ \A t \in DOMAIN tasks :
           /\ tasks'[t] \in TaskRecords /\ tasks'[t].completion \in {NoEvent, TaskComplete(t)}
           /\ tasks'[t].worker = tasks[t].worker
           /\ tasks'[t].status = IF t \in ToSet(active[w]) THEN "FAILED" ELSE tasks[t].status
  <2>1. DOMAIN tasks' = DOMAIN tasks
    BY DEF FailsTasks
  <2>2. \A t \in DOMAIN tasks : tasks[t] \in TaskRecords /\ tasks[t].completion \in {NoEvent, TaskComplete(t)}
    BY <1>1, TaskFacts DEF TaskTypes
  <2> QED
    BY <2>1, <2>2 DEF TaskRecords, FailsTasks
<1>3. tasks' \in Seq(TaskRecords)
  <2>1. DOMAIN tasks = 1..Len(tasks) /\ Len(tasks) \in Nat
    BY <1>1, TaskFacts
  <2>2. tasks' = [t \in 1..Len(tasks) |-> tasks'[t]]
    BY <2>1 DEF FailsTasks
  <2> HIDE DEF TaskRecords
  <2>3. tasks' \in [1..Len(tasks) -> TaskRecords]
    BY <1>2, <2>1, <2>2
  <2> QED
    BY <2>1, <2>3, SeqIntro
<1>4. /\ \A v \in Workers : active'[v] = IF v = w THEN << >> ELSE active[v]
      /\ active' \in [Workers -> Seq(DOMAIN tasks)]
  <2> DEFINE D == DOMAIN tasks
  <2>1. active \in [Workers -> Seq(D)]
    BY <1>1 DEF TaskTypes
  <2> HIDE DEF D
  <2>2. << >> \in Seq(D)
    BY EmptyFacts
  <2>3. active' \in [Workers -> Seq(D)] /\ \A v \in Workers : active'[v] = IF v = w THEN << >> ELSE active[v]
    BY <2>1, <2>2 DEF FailsTasks
  <2> QED
    BY <2>3 DEF D
<1>5. TaskTypes'
  BY <1>1, <1>2, <1>3, <1>4 DEF TaskTypes, FailsTasks
<1>6. ASSUME NEW v \in Workers
      PROVE  /\ Len(active'[v]) <= WorkerCapacity[v]
             /\ workers'[v] = "DOWN" => active'[v] = << >>
             /\ Lists(active'[v], tasks', v, "RUNNING")
             /\ Lists(queues[v], tasks', v, "QUEUED")
  <2>1. /\ Lists(active[v], tasks, v, "RUNNING") /\ Lists(queues[v], tasks, v, "QUEUED")
        /\ Lists(active[w], tasks, w, "RUNNING")
        /\ Len(active[v]) <= WorkerCapacity[v] /\ WorkerCapacity[v] \in Nat
        /\ workers[v] = "DOWN" => active[v] = << >>
    BY <1>1, TopologyAssumption DEF Slots
  <2>2. Lists(queues[v], tasks', v, "QUEUED")
    <3>1. \A t \in DOMAIN tasks : tasks'[t].status = "QUEUED" <=> tasks[t].status = "QUEUED"
      BY <1>2, <2>1 DEF Lists
    <3> QED
      BY <1>2, <2>1, <3>1 DEF Lists
  <2>3. CASE v # w
    <3>1. \A t \in DOMAIN tasks :
            tasks[t].worker = v => (tasks'[t].status = "RUNNING" <=> tasks[t].status = "RUNNING")
      BY <1>2, <2>1, <2>3 DEF Lists
    <3>2. Lists(active[v], tasks', v, "RUNNING")
      BY <1>2, <2>1, <3>1 DEF Lists
    <3>3. workers'[v] = workers[v] /\ active'[v] = active[v]
      BY <1>4, <2>3 DEF WorkerTypes, FailsTasks
    <3> QED
      BY <2>1, <2>2, <3>2, <3>3
  <2>4. CASE v = w
    <3>1. active'[w] = << >> /\ Len(<< >>) = 0 /\ ToSet(<< >>) = {} /\ Once(<< >>)
      BY <1>4, EmptyFacts
    <3>2. \A t \in DOMAIN tasks : ~(tasks'[t].worker = w /\ tasks'[t].status = "RUNNING")
      BY <1>2, <2>1 DEF Lists
    <3>3. Lists(active'[w], tasks', w, "RUNNING")
      BY <1>2, <3>1, <3>2 DEF Lists
    <3> QED
      BY <2>1, <2>2, <2>4, <3>1, <3>3
  <2> QED
    BY <2>3, <2>4
<1> QED
  BY <1>5, <1>6 DEF TaskSide, Slots, FailsTasks

(* _on_worker_failed: the replicas and transfers.                          *)
FailsMoves(w) ==
  /\ workers' = [workers EXCEPT ![w] = "DOWN"]
  /\ replicas' = [r \in DOMAIN replicas |->
                    IF r \in Present(w)
                      THEN [replicas[r] EXCEPT !.status = "LOST", !.completion = NoEvent]
                      ELSE replicas[r]]
  /\ transfers' = Failed(Touching(w))

LEMMA FailedTransfers ==
  ASSUME MoveTypes, NEW ids, transfers' = Failed(ids)
  PROVE  /\ transfers' \in Seq(TransferRecords(DOMAIN replicas)) /\ DOMAIN transfers' = DOMAIN transfers
         /\ \A t \in DOMAIN transfers :
              /\ transfers'[t].replica = transfers[t].replica /\ transfers'[t].link = transfers[t].link
              /\ transfers'[t].status = IF t \in ids THEN "FAILED" ELSE transfers[t].status
              /\ t \notin ids => transfers'[t] = transfers[t]
<1>1. \A t \in DOMAIN transfers :
        transfers'[t] = IF t \in ids THEN [transfers[t] EXCEPT !.status = "FAILED", !.completion = NoEvent]
                                     ELSE transfers[t]
  BY DEF Failed
<1>2. \A t \in DOMAIN transfers : transfers[t] \in TransferRecords(DOMAIN replicas)
  BY MoveFacts
<1>3. \A t \in DOMAIN transfers :
        /\ transfers'[t] \in TransferRecords(DOMAIN replicas)
        /\ transfers'[t].replica = transfers[t].replica /\ transfers'[t].link = transfers[t].link
        /\ transfers'[t].status = IF t \in ids THEN "FAILED" ELSE transfers[t].status
  <2> TAKE t \in DOMAIN transfers
  <2>1. NoEvent \in {NoEvent} \cup ({"transfer-complete"} \X Nat)
    OBVIOUS
  <2>2. CASE t \notin ids
    BY <1>1, <1>2, <2>2
  <2>3. CASE t \in ids
    <3>1. transfers'[t] = [transfers[t] EXCEPT !.status = "FAILED", !.completion = NoEvent]
      BY <1>1, <2>3
    <3>2. transfers[t] \in TransferRecords(DOMAIN replicas)
      BY <1>2
    <3> QED
      BY <2>1, <2>3, <3>1, <3>2 DEF TransferRecords
  <2> QED
    BY <2>2, <2>3
<1>4. transfers' = [t \in DOMAIN transfers |-> transfers'[t]]
  BY DEF Failed
<1>5. transfers' \in Seq(TransferRecords(DOMAIN replicas)) /\ DOMAIN transfers' = DOMAIN transfers
  BY <1>3, <1>4, TransfersChange
<1> QED
  BY <1>1, <1>3, <1>5

LEMMA FailedMoves ==
  ASSUME MoveSide, WorkerTypes, NEW w \in Workers, FailsMoves(w)
  PROVE  MoveSide'
<1>1. MoveTypes /\ AvailableIsReachable
  BY DEF MoveSide
<1>2. /\ \A r \in DOMAIN replicas :
           replicas'[r] = IF r \in Present(w)
                            THEN [replicas[r] EXCEPT !.status = "LOST", !.completion = NoEvent]
                            ELSE replicas[r]
      /\ replicas' = [r \in DOMAIN replicas |-> replicas'[r]]
      /\ \A v \in Workers : workers'[v] = IF v = w THEN "DOWN" ELSE workers[v]
      /\ transfers' = Failed(Touching(w))
  BY DEF FailsMoves, WorkerTypes
<1>3. \A r \in DOMAIN replicas :
        /\ replicas'[r] \in ReplicaRecords
        /\ replicas'[r].status = IF r \in Present(w) THEN "LOST" ELSE replicas[r].status
  <2>1. \A r \in DOMAIN replicas : replicas[r] \in ReplicaRecords
    BY <1>1, MoveFacts
  <2> TAKE r \in DOMAIN replicas
  <2>2. CASE r \notin Present(w)
    BY <1>2, <2>1, <2>2
  <2>3. CASE r \in Present(w)
    <3>1. replicas'[r] = [replicas[r] EXCEPT !.status = "LOST", !.completion = NoEvent]
      BY <1>2, <2>3
    <3> QED
      BY <2>1, <2>3, <3>1 DEF ReplicaRecords
  <2> QED
    BY <2>2, <2>3
<1>4. replicas' \in Seq(ReplicaRecords) /\ DOMAIN replicas' = DOMAIN replicas
  BY <1>1, <1>2, <1>3, ReplicasChange
<1>5. /\ transfers' \in Seq(TransferRecords(DOMAIN replicas)) /\ DOMAIN transfers' = DOMAIN transfers
      /\ \A t \in DOMAIN transfers :
           /\ transfers'[t].replica = transfers[t].replica /\ transfers'[t].link = transfers[t].link
           /\ transfers'[t].status = IF t \in Touching(w) THEN "FAILED" ELSE transfers[t].status
  BY <1>1, <1>2, FailedTransfers
<1>6. ASSUME NEW r \in DOMAIN replicas, replicas'[r].status = "AVAILABLE"
      PROVE  workers'[replicas'[r].location] = "UP"
  <2>1. r \notin Present(w) /\ replicas'[r] = replicas[r] /\ replicas[r].status = "AVAILABLE"
    BY <1>2, <1>3, <1>6
  <2>2. replicas[r].location # w
    BY <2>1 DEF Present
  <2>3. workers[replicas[r].location] = "UP" /\ replicas[r].location \in Workers
    BY <1>1, <2>1, MoveFacts DEF AvailableIsReachable
  <2> QED
    BY <1>2, <2>1, <2>2, <2>3
<1>7. ASSUME NEW t \in DOMAIN transfers, transfers'[t].status = "RUNNING"
      PROVE  LET r == transfers[t].replica IN
             /\ replicas'[r].status = "AVAILABLE" /\ replicas'[r].location = Source(t)
             /\ workers'[Source(t)] = "UP" /\ workers'[Destination(t)] = "UP"
  <2>1. t \notin Touching(w) /\ transfers[t].status = "RUNNING"
    BY <1>5, <1>7
  <2>2. Sound(t)
    BY <1>1, <2>1 DEF AvailableIsReachable
  <2>3. Source(t) # w /\ Destination(t) # w
    BY <2>1 DEF Touching, Unfinished
  <2>4. transfers[t].replica \in DOMAIN replicas /\ Source(t) \in Workers /\ Destination(t) \in Workers
    BY <1>1, MoveFacts
  <2>5. transfers[t].replica \notin Present(w)
    BY <2>2, <2>3 DEF Sound, Present
  <2> QED
    BY <1>2, <2>2, <2>3, <2>4, <2>5 DEF Sound
<1>8. \A t \in DOMAIN transfers :
        transfers'[t].status \in {"SCHEDULED", "RUNNING"} => Unfinished(t)
  BY <1>5 DEF Unfinished
<1> QED
  BY <1>4, <1>5, <1>6, <1>7, <1>8, MoveSideStep

(* _on_worker_failed: the completions are cancelled, and an event of its   *)
(* own tells the end of each task, replica and transfer.                   *)
LEMMA WorkerFailedStep ==
  ASSUME Sides, UNCHANGED records, NEW s, NEW run, Moved(sim, s, run, {}, {}),
         NEW w \in Workers, OnWorkerFailed(w, s),
         \A e \in run : e.kind = "WORKER_FAILED"
  PROVE  Kept(run)
<1>1. CASE workers[w] = "DOWN" /\ Ignored(s)
  BY <1>1, IgnoredStep
<1> DEFINE lost == Ascending(Present(w))
           broken == Ascending(Touching(w))
           ends == {tasks[t].completion : t \in ToSet(active[w])}
                     \cup {replicas[r].completion : r \in Present(w)}
                     \cup {transfers[t].completion : t \in Touching(w)}
           a == [i \in DOMAIN active[w] |-> AtOnce(s, "WORKER_TASK_FAILED", active[w][i])]
           b == [i \in DOMAIN lost |-> AtOnce(s, "STATE_LOST", lost[i])]
           c == [i \in DOMAIN broken |-> AtOnce(s, "STATE_TRANSFER_FAILED", broken[i])]
           O == {AtOnce(s, "WORKER_TASK_FAILED", t) : t \in DOMAIN tasks}
                  \cup {AtOnce(s, "STATE_LOST", r) : r \in DOMAIN replicas}
                  \cup {AtOnce(s, "STATE_TRANSFER_FAILED", t) : t \in DOMAIN transfers}
           z == Cancelled(s, ends)
           new == EventsOf(z, a \o b \o c)
<1>2. CASE /\ workers[w] = "UP" /\ FailsTasks(w) /\ FailsMoves(w)
           /\ sim' = Scheduled(z, a \o b \o c)
  <2>1. TaskTypes /\ MoveTypes /\ Slots /\ EventsInv /\ WorkerTypes /\ TaskSide /\ MoveSide
    BY DEF Sides, TaskSide, MoveSide
  <2>2. TaskSide' /\ MoveSide' /\ WorkerTypes'
    <3>1. WorkerTypes'
      BY <1>2, <2>1 DEF WorkerTypes, FailsTasks
    <3> QED
      BY <1>2, <2>1, <3>1, FailedTasks, FailedMoves
  <2>3. a \in Seq(O) /\ b \in Seq(O) /\ c \in Seq(O)
    <3>1. /\ DOMAIN active[w] = 1..Len(active[w]) /\ Len(active[w]) \in Nat
          /\ \A i \in DOMAIN active[w] : active[w][i] \in DOMAIN tasks
      BY <2>1, TaskFacts, SeqFacts
    <3>2. /\ Cardinality(Present(w)) \in Nat /\ DOMAIN lost = 1..Cardinality(Present(w))
          /\ \A i \in DOMAIN lost : lost[i] \in DOMAIN replicas
      <4>1. Present(w) \in SUBSET (1..Len(replicas)) /\ Len(replicas) \in Nat
        BY <2>1, MoveFacts DEF Present
      <4>2. Present(w) \subseteq DOMAIN replicas
        BY DEF Present
      <4> QED
        BY <4>1, <4>2, AscendingFacts
    <3>3. /\ Cardinality(Touching(w)) \in Nat /\ DOMAIN broken = 1..Cardinality(Touching(w))
          /\ \A i \in DOMAIN broken : broken[i] \in DOMAIN transfers
      <4>1. Touching(w) \in SUBSET (1..Len(transfers)) /\ Len(transfers) \in Nat
        BY <2>1, MoveFacts DEF Touching
      <4>2. Touching(w) \subseteq DOMAIN transfers
        BY DEF Touching
      <4> QED
        BY <4>1, <4>2, AscendingFacts
    <3> HIDE DEF lost, broken
    <3>4. /\ a \in [1..Len(active[w]) -> O]
          /\ b \in [1..Cardinality(Present(w)) -> O]
          /\ c \in [1..Cardinality(Touching(w)) -> O]
      BY <3>1, <3>2, <3>3
    <3> HIDE DEF a, b, c, O
    <3> QED
      BY <3>1, <3>2, <3>3, <3>4, SeqIntro
  <2>4. a \o b \o c \in Seq(O)
    <3> HIDE DEF a, b, c, O
    <3> QED
      BY <2>3
  <2>5. O \subseteq AtOnceOrders(s)
    <3>1. {"WORKER_TASK_FAILED", "STATE_LOST", "STATE_TRANSFER_FAILED"} \subseteq Kinds
      BY DEF Kinds
    <3>2. DOMAIN tasks \cup DOMAIN replicas \cup DOMAIN transfers \subseteq Nat
      BY <2>1, TaskFacts, MoveFacts
    <3> QED
      BY <3>1, <3>2 DEF AtOnceOrders
  <2>6. /\ Moved(sim, z, run, ends, {}) /\ AtOnceOrders(z) = AtOnceOrders(s)
    <3>1. Moved(sim, z, run, {} \cup ends, {})
      <4>1. ends \cap Ids({}) = {}
        BY DEF Ids
      <4> HIDE DEF ends
      <4> QED
        BY <4>1, MovedCancel
    <3>2. z.now = s.now
      BY CancelledFields DEF Moved
    <3> HIDE DEF ends, z
    <3> QED
      BY <3>1, <3>2 DEF AtOnceOrders, AtOnce
  <2>7. \A o \in O : o.kind = "STATE_LOST" => o.subject \in DOMAIN replicas
    BY DEF AtOnce, Order
  <2>8. \A o \in O : o.kind \in {"WORKER_TASK_FAILED", "STATE_LOST", "STATE_TRANSFER_FAILED"}
    BY DEF AtOnce, Order
  <2> HIDE DEF O, z
  <2> DEFINE orders == a \o b \o c
  <2> HIDE DEF orders
  <2>9. /\ Moved(sim, Scheduled(z, orders), run, ends, EventsOf(z, orders))
        /\ \A e \in EventsOf(z, orders) :
             /\ NewId(e.id, Scheduled(z, orders).next)
             /\ \E o \in O : e.kind = o.kind /\ e.subject = o.subject
    <3>1. orders \in Seq(O) /\ O \subseteq AtOnceOrders(z) /\ Moved(sim, z, run, ends, {}) /\ EventsInv
      BY <2>1, <2>4, <2>5, <2>6 DEF orders
    <3> HIDE DEF ends
    <3> QED
      BY <3>1, AtOnceStep
  <2>10. /\ Moved(sim, sim', run, ends, new)
         /\ \A e \in new : NewId(e.id, sim'.next) /\ \E o \in O : e.kind = o.kind /\ e.subject = o.subject
    BY <1>2, <2>9 DEF orders
  <2>11. /\ DOMAIN tasks' = DOMAIN tasks /\ DOMAIN replicas' = DOMAIN replicas
         /\ DOMAIN transfers' = DOMAIN transfers
         /\ \A t \in DOMAIN tasks :
              tasks'[t].status = IF t \in ToSet(active[w]) THEN "FAILED" ELSE tasks[t].status
         /\ \A t \in DOMAIN transfers :
              transfers'[t].status = IF t \in Touching(w) THEN "FAILED" ELSE transfers[t].status
    <3>1. \A t \in DOMAIN tasks : tasks[t] \in TaskRecords
      BY <2>1, TaskFacts
    <3>2. DOMAIN transfers' = DOMAIN transfers /\ \A t \in DOMAIN transfers :
              transfers'[t].status = IF t \in Touching(w) THEN "FAILED" ELSE transfers[t].status
      BY <1>2, <2>1, FailedTransfers DEF FailsMoves
    <3> QED
      BY <1>2, <3>1, <3>2 DEF FailsTasks, FailsMoves, TaskRecords
  <2> HIDE DEF new
  <2>12. Grows
    BY <2>11 DEF Grows
  <2>13. \A e \in new : IdUsed(e.id)' /\ SubjectExists(e)' /\ Tells(e)
    <3> SUFFICES ASSUME NEW e \in new PROVE IdUsed(e.id)' /\ SubjectExists(e)' /\ Tells(e)
      OBVIOUS
    <3>1. IdUsed(e.id)' /\ Tells(e)
      BY <2>10, NewIdsAreUsed
    <3>2. PICK o \in O : e.kind = o.kind /\ e.subject = o.subject
      BY <2>10
    <3>3. SubjectExists(e)'
      BY <2>7, <2>8, <2>11, <3>2 DEF SubjectExists
    <3> QED
      BY <3>1, <3>3
  <2>14. ASSUME NEW id \in ends
         PROVE  /\ Completion(id)
                /\ id[1] = "task-complete" => id = NoEvent \/ \E t \in ToSet(active[w]) : id = TaskComplete(t)
    <3>1. CASE id \in {tasks[t].completion : t \in ToSet(active[w])}
      <4>1. PICK t \in ToSet(active[w]) : id = tasks[t].completion
        BY <3>1
      <4>2. id = NoEvent \/ id = TaskComplete(t)
        BY <2>1, <4>1, TaskFacts DEF TaskTypes
      <4> QED
        BY <4>2 DEF Completion, TaskComplete
    <3>2. CASE id \in {replicas[r].completion : r \in Present(w)}
      BY <2>1, <3>2, MoveFacts DEF Present, Completion
    <3>3. CASE id \in {transfers[t].completion : t \in Touching(w)}
      BY <2>1, <3>3, MoveFacts DEF Touching, Completion
    <3> QED
      BY <2>14, <3>1, <3>2, <3>3
  <2> HIDE DEF ends
  <2>15. Result(run)
    <3>1. StartsNew(new)
      BY <2>8, <2>10 DEF StartsNew
    <3> QED
      BY <2>10, <2>12, <2>13, <2>14, <3>1 DEF Result, Advance
  <2>16. ASSUME NobodyWaitsInVain, RunningTasksEnd
         PROVE  NobodyWaitsInVain' /\ RunningTasksEnd'
    <3>1. ASSUME NEW t \in DOMAIN tasks', tasks'[t].status = "RUNNING"
          PROVE  /\ t \in DOMAIN tasks /\ tasks[t].status = "RUNNING"
                 /\ TaskComplete(t) \notin ends
      <4>1. t \in DOMAIN tasks /\ t \notin ToSet(active[w]) /\ tasks[t].status = "RUNNING"
        BY <2>11, <3>1
      <4> QED
        BY <2>14, <4>1 DEF TaskComplete, NoEvent
    <3>2. \A v \in Workers :
            /\ workers'[v] = IF v = w THEN "DOWN" ELSE workers[v]
            /\ queues'[v] = queues[v]
            /\ v # w => active'[v] = active[v]
      BY <1>2, <2>1 DEF FailsTasks, WorkerTypes, TaskTypes
    <3>3. \A v \in Workers :
            workers'[v] = "UP" /\ queues'[v] # << >> /\ Len(active'[v]) < WorkerCapacity[v] =>
              workers[v] = "UP" /\ queues[v] # << >> /\ Len(active[v]) < WorkerCapacity[v]
      BY <3>2
    <3> QED
      BY <2>1, <2>10, <2>14, <2>16, <3>1, <3>3, WaitingStep
  <2> QED
    BY <2>2, <2>15, <2>16 DEF Kept
<1> QED
  <2>1. OnWorkerFailed(w, s) /\ ~(workers[w] = "DOWN" /\ Ignored(s)) =>
          /\ workers[w] = "UP" /\ FailsTasks(w) /\ FailsMoves(w)
          /\ sim' = Scheduled(z, a \o b \o c)
    BY DEF OnWorkerFailed, FailsTasks, FailsMoves
  <2> QED
    BY <1>1, <1>2, <2>1

---------------------------------------------------------------------------
(* What must be shown of a step that leaves the tasks and workers alone.   *)
LEMMA MovesStep ==
  ASSUME Sides, UNCHANGED <<workers, taskVars>>, MoveSide', Grows,
         NEW run, NEW gone, NEW new, Moved(sim, sim', run, gone, new),
         \A e \in new : IdUsed(e.id)' /\ SubjectExists(e)' /\ Tells(e),
         StartsNew(new), \A id \in gone : Completion(id), \A t : TaskComplete(t) \notin gone,
         \A e \in run : e.kind \notin {"WORKER_TASK_ENQUEUED", "WORKER_TASK_COMPLETED"}
  PROVE  Kept(run)
<1>1. Result(run)
  BY DEF Result, Advance
<1>2. WorkerTypes' /\ TaskSide'
  BY TasksStay DEF Sides, WorkerTypes
<1>3. NobodyWaitsInVain /\ RunningTasksEnd => NobodyWaitsInVain' /\ RunningTasksEnd'
  BY WaitingStays DEF Sides
<1> QED
  BY <1>1, <1>2, <1>3 DEF Kept

(* An event with an id of its own.                                         *)
LEMMA OneNamed ==
  ASSUME EventsInv, NEW s, NEW run, NEW gone, Moved(sim, s, run, gone, {}),
         NEW kind \in Kinds, NEW at \in Nat, at >= s.now, NEW id, id # NoId, id \notin sim.known,
         NEW subject \in Workers \cup Nat
  PROVE  LET t == Scheduled(s, <<Order(kind, at, id, subject)>>)
             new == EventsOf(s, <<Order(kind, at, id, subject)>>)
         IN /\ Moved(sim, t, run, gone, new)
            /\ \E e : /\ new = {e} /\ e.id = id /\ e.kind = kind /\ e.subject = subject
                    /\ e.time = at /\ e.sequence = s.next
<1> DEFINE order == Order(kind, at, id, subject)
<1>1. /\ order.at = at /\ order.kind = kind /\ order.subject = subject /\ order.id = id
      /\ ActualId(order, s.next) = id
  BY DEF Order, ActualId
<1>2. KernelInv(sim) /\ KernelInv(s) /\ s.known = sim.known
  BY DEF EventsInv, Moved, Ids
<1> HIDE DEF order
<1>3. /\ Acceptable(s, <<order>>)
      /\ EventsOf(s, <<order>>) =
           {[time |-> at, sequence |-> s.next, id |-> id, kind |-> kind, subject |-> subject]}
  BY <1>1, <1>2, OneOrder
<1>4. Moved(sim, Scheduled(s, <<order>>), run, gone, {} \cup EventsOf(s, <<order>>))
  BY <1>2, <1>3, MovedSchedule
<1>5. {} \cup EventsOf(s, <<order>>) = EventsOf(s, <<order>>)
  OBVIOUS
<1>6. \E e : /\ EventsOf(s, <<order>>) = {e} /\ e.id = id /\ e.kind = kind /\ e.subject = subject
             /\ e.time = at /\ e.sequence = s.next
  <2> DEFINE only == [time |-> at, sequence |-> s.next, id |-> id, kind |-> kind, subject |-> subject]
  <2>1. /\ only.id = id /\ only.kind = kind /\ only.subject = subject
        /\ only.time = at /\ only.sequence = s.next
    OBVIOUS
  <2>2. EventsOf(s, <<order>>) = {only}
    BY <1>3
  <2> HIDE DEF only
  <2> QED
    BY <2>1, <2>2
<1>7. Moved(sim, Scheduled(s, <<order>>), run, gone, EventsOf(s, <<order>>))
  BY <1>4, <1>5
<1> QED
  BY <1>6, <1>7 DEF order

(* materialize_replica.                                                    *)
LEMMA MaterializeReplicaStep ==
  ASSUME Sides, UNCHANGED records, NEW w \in Workers, NEW d \in Nat, MaterializeReplica(w, d)
  PROVE  Kept({})
<1> DEFINE r == Len(replicas) + 1
           order == Order("STATE_MATERIALIZATION_STARTED", sim.now, <<"materialize-start", r>>, r)
           new == EventsOf(sim, <<order>>)
<1>1. /\ replicas' = Append(replicas, Replica(w, d)) /\ sim' = Scheduled(sim, <<order>>)
      /\ UNCHANGED <<workers, taskVars>> /\ tasks' = tasks /\ transfers' = transfers
  BY DEF MaterializeReplica, taskVars
<1>2. EventsInv /\ KernelInv(sim) /\ MoveTypes /\ OneTransfer /\ AvailableIsReachable /\ WorkerTypes
  BY DEF Sides, MoveSide, EventsInv
<1>3. /\ r \notin DOMAIN replicas /\ r \in Nat
      /\ DOMAIN replicas' = DOMAIN replicas \cup {r} /\ replicas' \in Seq(ReplicaRecords)
      /\ \A q \in DOMAIN replicas : replicas'[q] = replicas[q]
      /\ replicas'[r] = Replica(w, d)
  <2>1. replicas \in Seq(ReplicaRecords)
    BY <1>2 DEF MoveTypes
  <2>2. Replica(w, d) \in ReplicaRecords
    BY DEF Replica, ReplicaRecords, NoEvent
  <2> HIDE DEF ReplicaRecords
  <2> QED
    BY <1>1, <2>1, <2>2
<1>4. <<"materialize-start", r>> \notin sim.known
  <2>1. \A id \in sim.known : id[1] = "materialize-start" => id[2] \in DOMAIN replicas
    BY <1>2 DEF EventsInv, IdsUsed, IdUsed
  <2> QED
    BY <1>3, <2>1
<1>5. /\ Moved(sim, sim', {}, {}, new)
      /\ \A e \in new : /\ e.id = <<"materialize-start", r>> /\ e.subject = r
                        /\ e.kind = "STATE_MATERIALIZATION_STARTED" /\ new = {e}
  <2> DEFINE id == <<"materialize-start", r>>
             kind == "STATE_MATERIALIZATION_STARTED"
  <2>1. /\ sim.now \in Nat /\ sim.now >= sim.now /\ id # NoId /\ kind \in Kinds
        /\ Moved(sim, sim, {}, {}, {}) /\ id \notin sim.known /\ r \in Workers \cup Nat
    BY <1>2, <1>3, <1>4, KernelFacts, MovedNot DEF Kinds, NoId
  <2> HIDE DEF id, kind, r
  <2>2. LET z == Scheduled(sim, <<Order(kind, sim.now, id, r)>>)
            ordered == EventsOf(sim, <<Order(kind, sim.now, id, r)>>)
        IN /\ Moved(sim, z, {}, {}, ordered)
           /\ \E e : ordered = {e} /\ e.id = id /\ e.kind = kind /\ e.subject = r
    BY <1>2, <2>1, OneNamed
  <2> QED
    BY <1>1, <2>2 DEF id, kind
<1> HIDE DEF r, new
<1>6. MoveTypes'
  <2>1. TransferRecords(DOMAIN replicas) \subseteq TransferRecords(DOMAIN replicas')
    BY <1>3 DEF TransferRecords
  <2>2. transfers \in Seq(TransferRecords(DOMAIN replicas))
    BY <1>2 DEF MoveTypes
  <2>3. transfers \in Seq(TransferRecords(DOMAIN replicas'))
    BY <2>1, <2>2, SeqGrows
  <2> QED
    BY <1>1, <1>3, <2>3 DEF MoveTypes
<1>7. \A t \in DOMAIN transfers : transfers[t].replica \in DOMAIN replicas
  BY <1>2, MoveFacts
<1>8. OneTransfer' /\ AvailableIsReachable'
  <2>1. OneTransfer'
    BY <1>1, <1>2 DEF OneTransfer, Unfinished
  <2>2. \A q \in DOMAIN replicas' : replicas'[q].status = "AVAILABLE" => workers'[replicas'[q].location] = "UP"
    BY <1>1, <1>2, <1>3 DEF AvailableIsReachable, Replica
  <2>3. \A t \in DOMAIN transfers' : transfers'[t].status = "RUNNING" => Sound(t)'
    BY <1>1, <1>2, <1>3, <1>7 DEF AvailableIsReachable, Sound, Source, Destination
  <2> QED
    BY <2>1, <2>2, <2>3 DEF AvailableIsReachable
<1>9. Grows
  BY <1>1, <1>3 DEF Grows
<1>10. \A e \in new : IdUsed(e.id)' /\ SubjectExists(e)' /\ Tells(e)
  BY <1>3, <1>5 DEF IdUsed, SubjectExists, Tells, NoEvent
<1>11. (\A id \in {} : Completion(id)) /\ StartsNew(new)
  BY <1>3, <1>5 DEF StartsNew
<1> QED
  BY <1>1, <1>5, <1>6, <1>8, <1>9, <1>10, <1>11, MovesStep DEF MoveSide

(* start_transfer.                                                         *)
LEMMA StartTransferStep ==
  ASSUME Sides, UNCHANGED records, NEW r \in DOMAIN replicas, NEW l \in DOMAIN Links, StartTransfer(r, l)
  PROVE  Kept({})
<1> DEFINE t == Len(transfers) + 1
           order == Order("STATE_TRANSFER_STARTED", sim.now, <<"transfer-start", t>>, t)
           new == EventsOf(sim, <<order>>)
<1>1. /\ transfers' = Append(transfers, Transfer(r, l)) /\ sim' = Scheduled(sim, <<order>>)
      /\ Transferable(r, l)
      /\ UNCHANGED <<workers, taskVars>> /\ tasks' = tasks /\ replicas' = replicas
  BY DEF StartTransfer, taskVars
<1>2. EventsInv /\ KernelInv(sim) /\ MoveTypes /\ OneTransfer /\ AvailableIsReachable /\ WorkerTypes
  BY DEF Sides, MoveSide, EventsInv
<1>3. /\ t \notin DOMAIN transfers /\ t \in Nat
      /\ DOMAIN transfers' = DOMAIN transfers \cup {t}
      /\ transfers' \in Seq(TransferRecords(DOMAIN replicas))
      /\ \A u \in DOMAIN transfers : transfers'[u] = transfers[u]
      /\ transfers'[t] = Transfer(r, l)
  <2> DEFINE T == TransferRecords(DOMAIN replicas)
  <2>1. transfers \in Seq(T)
    BY <1>2 DEF MoveTypes
  <2>2. Transfer(r, l) \in T
    BY DEF Transfer, TransferRecords, NoEvent
  <2> HIDE DEF T
  <2>3. /\ t \notin DOMAIN transfers /\ t \in Nat
        /\ DOMAIN transfers' = DOMAIN transfers \cup {t}
        /\ transfers' \in Seq(T)
        /\ \A u \in DOMAIN transfers : transfers'[u] = transfers[u]
        /\ transfers'[t] = Transfer(r, l)
    BY <1>1, <2>1, <2>2
  <2> QED
    BY <2>3 DEF T
<1>4. <<"transfer-start", t>> \notin sim.known
  <2>1. \A id \in sim.known : id[1] = "transfer-start" => id[2] \in DOMAIN transfers
    BY <1>2 DEF EventsInv, IdsUsed, IdUsed
  <2> QED
    BY <1>3, <2>1
<1>5. /\ Moved(sim, sim', {}, {}, new)
      /\ \A e \in new : /\ e.id = <<"transfer-start", t>> /\ e.subject = t
                        /\ e.kind = "STATE_TRANSFER_STARTED"
  <2> DEFINE id == <<"transfer-start", t>>
             kind == "STATE_TRANSFER_STARTED"
  <2>1. /\ sim.now \in Nat /\ sim.now >= sim.now /\ id # NoId /\ kind \in Kinds
        /\ Moved(sim, sim, {}, {}, {}) /\ id \notin sim.known /\ t \in Workers \cup Nat
    BY <1>2, <1>3, <1>4, KernelFacts, MovedNot DEF Kinds, NoId
  <2> HIDE DEF id, kind, t
  <2>2. LET z == Scheduled(sim, <<Order(kind, sim.now, id, t)>>)
            ordered == EventsOf(sim, <<Order(kind, sim.now, id, t)>>)
        IN /\ Moved(sim, z, {}, {}, ordered)
           /\ \E e : ordered = {e} /\ e.id = id /\ e.kind = kind /\ e.subject = t
    BY <1>2, <2>1, OneNamed
  <2> QED
    BY <1>1, <2>2 DEF id, kind
<1> HIDE DEF t, new
<1>6. MoveTypes'
  BY <1>1, <1>2, <1>3 DEF MoveTypes
<1>7. transfers'[t].replica = r /\ transfers'[t].status = "SCHEDULED"
  BY <1>3 DEF Transfer
<1>8. OneTransfer'
  <2> SUFFICES ASSUME NEW u \in DOMAIN transfers', NEW v \in DOMAIN transfers',
                      Unfinished(u)', Unfinished(v)', transfers'[u].replica = transfers'[v].replica
               PROVE  u = v
    BY DEF OneTransfer
  <2>1. \A q \in DOMAIN transfers : transfers[q].replica = r => ~Unfinished(q)
    BY <1>1 DEF Transferable
  <2>2. \A q \in DOMAIN transfers : Unfinished(q)' <=> Unfinished(q)
    BY <1>3 DEF Unfinished
  <2> QED
    BY <1>2, <1>3, <1>7, <2>1, <2>2 DEF OneTransfer
<1>9. AvailableIsReachable'
  <2>1. \A u \in DOMAIN transfers' : transfers'[u].status = "RUNNING" => Sound(u)'
    BY <1>1, <1>2, <1>3, <1>7 DEF AvailableIsReachable, Sound, Source, Destination
  <2> QED
    BY <1>1, <1>2, <2>1 DEF AvailableIsReachable
<1>10. Grows
  BY <1>1, <1>3 DEF Grows
<1>11. \A e \in new : IdUsed(e.id)' /\ SubjectExists(e)' /\ Tells(e)
  BY <1>3, <1>5 DEF IdUsed, SubjectExists, Tells, NoEvent
<1>12. (\A id \in {} : Completion(id)) /\ StartsNew(new)
  BY <1>5 DEF StartsNew
<1> QED
  BY <1>1, <1>5, <1>6, <1>8, <1>9, <1>10, <1>11, <1>12, MovesStep DEF MoveSide

(* A replica that is not available yet changes.                            *)
ReplicaBecomes(r, status) ==
  /\ replicas' \in Seq(ReplicaRecords) /\ DOMAIN replicas' = DOMAIN replicas
  /\ \A q \in DOMAIN replicas :
       /\ replicas'[q].location = replicas[q].location
       /\ replicas'[q].status = IF q = r THEN status ELSE replicas[q].status

LEMMA ReplicaUpdate ==
  ASSUME MoveTypes, NEW r \in DOMAIN replicas,
         NEW status \in {"MATERIALIZING", "AVAILABLE", "EVICTED", "LOST"},
         NEW completion \in {NoEvent} \cup ({"materialize-complete"} \X Nat),
         replicas' = [replicas EXCEPT ![r].status = status, ![r].completion = completion]
  PROVE  ReplicaBecomes(r, status)
<1>1. \A q \in DOMAIN replicas :
        replicas'[q] = IF q = r THEN [replicas[q] EXCEPT !.status = status, !.completion = completion]
                                ELSE replicas[q]
  OBVIOUS
<1>2. \A q \in DOMAIN replicas : replicas[q] \in ReplicaRecords
  BY MoveFacts
<1>3. \A q \in DOMAIN replicas :
        /\ replicas'[q] \in ReplicaRecords
        /\ replicas'[q].location = replicas[q].location
        /\ replicas'[q].status = IF q = r THEN status ELSE replicas[q].status
  <2> TAKE q \in DOMAIN replicas
  <2>1. CASE q # r
    BY <1>1, <1>2, <2>1
  <2>2. CASE q = r
    <3>1. replicas'[q] = [replicas[q] EXCEPT !.status = status, !.completion = completion]
      BY <1>1, <2>2
    <3>2. replicas[q] \in ReplicaRecords
      BY <1>2
    <3> QED
      BY <2>2, <3>1, <3>2 DEF ReplicaRecords
  <2> QED
    BY <2>1, <2>2
<1>4. replicas' = [q \in DOMAIN replicas |-> replicas'[q]]
  OBVIOUS
<1> QED
  BY <1>3, <1>4, ReplicasChange DEF ReplicaBecomes

LEMMA MaterializingChanges ==
  ASSUME MoveSide, NEW r \in DOMAIN replicas, replicas[r].status = "MATERIALIZING",
         NEW status \in {"MATERIALIZING", "AVAILABLE", "EVICTED", "LOST"},
         NEW completion \in {NoEvent} \cup ({"materialize-complete"} \X Nat),
         replicas' = [replicas EXCEPT ![r].status = status, ![r].completion = completion],
         UNCHANGED <<workers, transfers>>,
         status = "AVAILABLE" => workers[replicas[r].location] = "UP"
  PROVE  MoveSide' /\ DOMAIN replicas' = DOMAIN replicas
<1>1. MoveTypes /\ AvailableIsReachable
  BY DEF MoveSide
<1>2. /\ replicas' \in Seq(ReplicaRecords) /\ DOMAIN replicas' = DOMAIN replicas
      /\ \A q \in DOMAIN replicas :
           /\ replicas'[q].location = replicas[q].location
           /\ replicas'[q].status = IF q = r THEN status ELSE replicas[q].status
  <2>1. ReplicaBecomes(r, status)
    BY <1>1, ReplicaUpdate
  <2> QED
    BY <2>1 DEF ReplicaBecomes
<1>3. \A t \in DOMAIN transfers : transfers[t].status = "RUNNING" => transfers[t].replica # r /\ Sound(t)
  BY <1>1 DEF AvailableIsReachable, Sound
<1>4. \A t \in DOMAIN transfers : transfers[t].replica \in DOMAIN replicas
  BY <1>1, MoveFacts
<1>5. transfers' \in Seq(TransferRecords(DOMAIN replicas)) /\ DOMAIN transfers' = DOMAIN transfers
  BY <1>1 DEF MoveTypes
<1>6. \A t \in DOMAIN transfers :
        /\ transfers'[t].replica = transfers[t].replica /\ transfers'[t].link = transfers[t].link
        /\ transfers'[t].status \in {"SCHEDULED", "RUNNING"} => Unfinished(t)
  BY DEF Unfinished
<1>7. \A q \in DOMAIN replicas :
        replicas'[q].status = "AVAILABLE" => workers'[replicas'[q].location] = "UP"
  BY <1>1, <1>2 DEF AvailableIsReachable
<1>8. \A t \in DOMAIN transfers :
        transfers'[t].status = "RUNNING" =>
          LET q == transfers[t].replica IN
          /\ replicas'[q].status = "AVAILABLE" /\ replicas'[q].location = Source(t)
          /\ workers'[Source(t)] = "UP" /\ workers'[Destination(t)] = "UP"
  BY <1>2, <1>3, <1>4 DEF Sound
<1> QED
  BY <1>2, <1>5, <1>6, <1>7, <1>8, MoveSideStep

(* A handler that changes such a replica and nothing else.                 *)
LEMMA LostWithWorkerStep ==
  ASSUME Sides, UNCHANGED records, NEW s, NEW run, Moved(sim, s, run, {}, {}),
         NEW r \in DOMAIN replicas, replicas[r].status = "MATERIALIZING", LostWithWorker(r, s),
         \A e \in run : e.kind \notin {"WORKER_TASK_ENQUEUED", "WORKER_TASK_COMPLETED"}
  PROVE  Kept(run)
<1> DEFINE new == EventsOf(s, <<AtOnce(s, "STATE_LOST", r)>>)
<1>1. /\ replicas' = [replicas EXCEPT ![r].status = "LOST", ![r].completion = NoEvent]
      /\ sim' = Scheduled(s, <<AtOnce(s, "STATE_LOST", r)>>)
      /\ UNCHANGED <<workers, taskVars>> /\ workers' = workers /\ tasks' = tasks /\ transfers' = transfers
  BY DEF LostWithWorker, taskVars
<1>2. EventsInv /\ MoveSide /\ MoveTypes
  BY DEF Sides, MoveSide
<1>3. MoveSide' /\ DOMAIN replicas' = DOMAIN replicas
  BY <1>1, <1>2, MaterializingChanges
<1>4. Moved(sim, sim', run, {}, new) /\ \A e \in new : NewId(e.id, sim'.next) /\ e.kind = "STATE_LOST" /\ e.subject = r
  <2>1. r \in Workers \cup Nat /\ "STATE_LOST" \in Kinds
    BY <1>2, MoveFacts DEF Kinds
  <2> QED
    BY <1>1, <1>2, <2>1, OneAtOnce
<1> HIDE DEF new
<1>5. Grows
  BY <1>1, <1>3 DEF Grows
<1>6. \A e \in new : IdUsed(e.id)' /\ SubjectExists(e)' /\ Tells(e)
  BY <1>3, <1>4, NewIdsAreUsed DEF SubjectExists
<1>7. (\A id \in {} : Completion(id)) /\ (\A t : TaskComplete(t) \notin {}) /\ StartsNew(new)
  BY <1>4 DEF StartsNew
<1> QED
  BY <1>1, <1>3, <1>4, <1>5, <1>6, <1>7, MovesStep

(* _on_state_materialization_started.                                      *)
LEMMA MaterializationStartedStep ==
  ASSUME Sides, UNCHANGED records, NEW s, NEW run, Moved(sim, s, run, {}, {}),
         NEW r \in DOMAIN replicas, OnMaterializationStarted(r, s), run # {},
         \A e \in run : e.kind = "STATE_MATERIALIZATION_STARTED" /\ e.subject = r
  PROVE  Kept(run)
<1> DEFINE id == MaterializeComplete(r)
           at == s.now + replicas[r].duration
           order == Order("STATE_MATERIALIZED", at, id, r)
           new == EventsOf(s, <<order>>)
<1> USE DEF taskVars
<1>1. EventsInv /\ MoveSide /\ MoveTypes /\ KernelInv(s) /\ KernelInv(sim) /\ WorkerTypes
  BY DEF Sides, MoveSide, Moved, EventsInv
<1>2. r \in Nat /\ at \in Nat /\ at >= s.now /\ r \in Workers \cup Nat
  <2>1. r \in Nat /\ replicas[r].duration \in Nat /\ s.now \in Nat
    BY <1>1, MoveFacts, KernelFacts
  <2> QED
    BY <2>1
<1>3. \A e \in run : e.kind \notin {"WORKER_TASK_ENQUEUED", "WORKER_TASK_COMPLETED"}
  OBVIOUS
<1>4. (\A t : TaskComplete(t) \notin {}) /\ \A x \in {} : Completion(x)
  OBVIOUS
<1>5. CASE replicas[r].status # "MATERIALIZING" /\ Ignored(s)
  BY <1>5, IgnoredStep
<1>6. CASE replicas[r].status = "MATERIALIZING" /\ LostWithWorker(r, s)
  BY <1>3, <1>6, LostWithWorkerStep
<1>7. CASE /\ replicas[r].status = "MATERIALIZING" /\ Schedulable(s, order)
           /\ sim' = Scheduled(s, <<order>>)
           /\ replicas' = [replicas EXCEPT ![r].completion = MaterializeComplete(r)]
           /\ UNCHANGED <<workers, taskVars, transfers>>
  <2>1. replicas' = [replicas EXCEPT ![r].status = "MATERIALIZING", ![r].completion = id]
    <3>1. replicas[r] \in ReplicaRecords
      BY <1>1, MoveFacts
    <3>2. [replicas[r] EXCEPT !.completion = id] =
             [replicas[r] EXCEPT !.status = "MATERIALIZING", !.completion = id]
      BY <1>7, <3>1 DEF ReplicaRecords
    <3> QED
      BY <1>7, <3>2
  <2>2. id \in {NoEvent} \cup ({"materialize-complete"} \X Nat)
    BY <1>2 DEF MaterializeComplete
  <2>3. MoveSide' /\ DOMAIN replicas' = DOMAIN replicas
    BY <1>1, <1>7, <2>1, <2>2, MaterializingChanges
  <2>4. id \notin sim.known /\ id # NoId
    <3>1. ActualId(order, s.next) = id
      BY DEF ActualId, Order, MaterializeComplete, NoId
    <3>2. s.known = sim.known
      BY DEF Moved, Ids
    <3> QED
      BY <1>7, <3>1, <3>2 DEF Schedulable, MaterializeComplete, NoId
  <2>5. /\ Moved(sim, sim', run, {}, new)
        /\ \A e \in new : e.id = id /\ e.kind = "STATE_MATERIALIZED" /\ e.subject = r
    <3> DEFINE kind == "STATE_MATERIALIZED"
    <3>1. kind \in Kinds
      BY DEF Kinds
    <3> HIDE DEF id, at, kind
    <3>2. LET z == Scheduled(s, <<Order(kind, at, id, r)>>)
              ordered == EventsOf(s, <<Order(kind, at, id, r)>>)
          IN /\ Moved(sim, z, run, {}, ordered)
             /\ \E e : ordered = {e} /\ e.id = id /\ e.kind = kind /\ e.subject = r
      <4>1. EventsInv /\ at \in Nat /\ at >= s.now /\ id # NoId /\ id \notin sim.known /\ r \in Workers \cup Nat
        BY <1>1, <1>2, <2>4
      <4>2. \A i, a : i # NoId /\ i \notin sim.known /\ a \in Nat /\ a >= s.now =>
              LET z == Scheduled(s, <<Order(kind, a, i, r)>>)
                  ordered == EventsOf(s, <<Order(kind, a, i, r)>>)
              IN /\ Moved(sim, z, run, {}, ordered)
                 /\ \E e : ordered = {e} /\ e.id = i /\ e.kind = kind /\ e.subject = r
        BY <3>1, <4>1, OneNamed
      <4> QED
        BY <4>1, <4>2
    <3> QED
      BY <1>7, <3>2 DEF kind
  <2> HIDE DEF new
  <2>6. MaterializationStarted(r)'
    <3>1. PICK e \in run : e.kind = "STATE_MATERIALIZATION_STARTED" /\ e.subject = r
      OBVIOUS
    <3>2. e \in ToSet(sim'.trace)
      BY <1>1, <2>5, MovedHistory
    <3> QED
      BY <3>1, <3>2 DEF MaterializationStarted, ToSet
  <2>7. \A e \in new : IdUsed(e.id)' /\ SubjectExists(e)' /\ Tells(e)
    BY <2>3, <2>5, <2>6 DEF IdUsed, SubjectExists, Tells, MaterializeComplete, NoEvent
  <2>8. Grows
    BY <1>7, <2>3 DEF Grows
  <2>9. StartsNew(new)
    BY <2>5 DEF StartsNew
  <2> QED
    BY <1>3, <1>4, <1>7, <2>3, <2>5, <2>7, <2>8, <2>9, MovesStep
<1>8. CASE sim' = s /\ UNCHANGED <<workers, taskVars, replicas, transfers>>
  <2>1. Moved(sim, sim', run, {}, {}) /\ Grows
    BY <1>8 DEF Grows
  <2>2. MoveSide'
    BY <1>1, <1>8, MovesStay DEF WorkerTypes
  <2>3. (\A e \in {} : IdUsed(e.id)' /\ SubjectExists(e)' /\ Tells(e)) /\ StartsNew({})
    BY DEF StartsNew
  <2> QED
    BY <1>3, <1>4, <1>8, <2>1, <2>2, <2>3, MovesStep
<1> HIDE DEF new
<1> QED
  BY <1>5, <1>6, <1>7, <1>8 DEF OnMaterializationStarted

(* _on_state_materialized.                                                 *)
LEMMA StateMaterializedStep ==
  ASSUME Sides, UNCHANGED records, NEW s, NEW run, Moved(sim, s, run, {}, {}),
         NEW r \in DOMAIN replicas, OnStateMaterialized(r, s),
         \A e \in run : e.kind = "STATE_MATERIALIZED"
  PROVE  Kept(run)
<1>1. \A e \in run : e.kind \notin {"WORKER_TASK_ENQUEUED", "WORKER_TASK_COMPLETED"}
  OBVIOUS
<1>2. CASE replicas[r].status # "MATERIALIZING" /\ Ignored(s)
  BY <1>2, IgnoredStep
<1>3. CASE replicas[r].status = "MATERIALIZING" /\ LostWithWorker(r, s)
  BY <1>1, <1>3, LostWithWorkerStep
<1>4. CASE /\ replicas[r].status = "MATERIALIZING" /\ workers[replicas[r].location] = "UP"
           /\ replicas' = [replicas EXCEPT ![r].status = "AVAILABLE", ![r].completion = NoEvent]
           /\ sim' = s /\ UNCHANGED <<workers, taskVars, transfers>>
  <2>1. MoveSide' /\ DOMAIN replicas' = DOMAIN replicas
    BY <1>4, MaterializingChanges DEF Sides
  <2>2. Moved(sim, sim', run, {}, {}) /\ Grows
    BY <1>4, <2>1 DEF Grows, taskVars
  <2>3. /\ (\A t : TaskComplete(t) \notin {}) /\ \A x \in {} : Completion(x)
        /\ (\A e \in {} : IdUsed(e.id)' /\ SubjectExists(e)' /\ Tells(e)) /\ StartsNew({})
    BY DEF StartsNew
  <2> QED
    BY <1>1, <1>4, <2>1, <2>2, <2>3, MovesStep
<1> QED
  BY <1>2, <1>3, <1>4 DEF OnStateMaterialized

(* A transfer changes.                                                     *)
LEMMA TransferUpdate ==
  ASSUME MoveTypes, NEW t \in DOMAIN transfers,
         NEW status \in {"SCHEDULED", "RUNNING", "COMPLETED", "FAILED"},
         NEW completion \in {NoEvent} \cup ({"transfer-complete"} \X Nat),
         transfers' = [transfers EXCEPT ![t].status = status, ![t].completion = completion]
  PROVE  /\ transfers' \in Seq(TransferRecords(DOMAIN replicas)) /\ DOMAIN transfers' = DOMAIN transfers
         /\ \A u \in DOMAIN transfers :
              /\ transfers'[u].replica = transfers[u].replica /\ transfers'[u].link = transfers[u].link
              /\ transfers'[u].status = IF u = t THEN status ELSE transfers[u].status
<1>1. \A u \in DOMAIN transfers :
        transfers'[u] = IF u = t THEN [transfers[u] EXCEPT !.status = status, !.completion = completion]
                                 ELSE transfers[u]
  OBVIOUS
<1>2. \A u \in DOMAIN transfers : transfers[u] \in TransferRecords(DOMAIN replicas)
  BY MoveFacts
<1>3. \A u \in DOMAIN transfers :
        /\ transfers'[u] \in TransferRecords(DOMAIN replicas)
        /\ transfers'[u].replica = transfers[u].replica /\ transfers'[u].link = transfers[u].link
        /\ transfers'[u].status = IF u = t THEN status ELSE transfers[u].status
  <2> TAKE u \in DOMAIN transfers
  <2>1. CASE u # t
    BY <1>1, <1>2, <2>1
  <2>2. CASE u = t
    <3>1. transfers'[u] = [transfers[u] EXCEPT !.status = status, !.completion = completion]
      BY <1>1, <2>2
    <3>2. transfers[u] \in TransferRecords(DOMAIN replicas)
      BY <1>2
    <3> QED
      BY <2>2, <3>1, <3>2 DEF TransferRecords
  <2> QED
    BY <2>1, <2>2
<1>4. transfers' = [u \in DOMAIN transfers |-> transfers'[u]]
  OBVIOUS
<1>5. transfers' \in Seq(TransferRecords(DOMAIN replicas)) /\ DOMAIN transfers' = DOMAIN transfers
  BY <1>3, <1>4, TransfersChange
<1> QED
  BY <1>3, <1>5

(* A transfer that cannot go on.                                           *)
LEMMA FailTransferStep ==
  ASSUME Sides, UNCHANGED records, NEW s, NEW run, Moved(sim, s, run, {}, {}),
         NEW t \in DOMAIN transfers, FailTransfer(t, s),
         \A e \in run : e.kind \notin {"WORKER_TASK_ENQUEUED", "WORKER_TASK_COMPLETED"}
  PROVE  Kept(run)
<1> DEFINE new == EventsOf(s, <<AtOnce(s, "STATE_TRANSFER_FAILED", t)>>)
<1>1. /\ transfers' = Failed({t}) /\ sim' = Scheduled(s, <<AtOnce(s, "STATE_TRANSFER_FAILED", t)>>)
      /\ UNCHANGED <<workers, taskVars>> /\ workers' = workers /\ tasks' = tasks /\ replicas' = replicas
  BY DEF FailTransfer, taskVars
<1>2. EventsInv /\ MoveSide /\ MoveTypes /\ AvailableIsReachable
  BY DEF Sides, MoveSide
<1>3. /\ transfers' \in Seq(TransferRecords(DOMAIN replicas)) /\ DOMAIN transfers' = DOMAIN transfers
      /\ \A u \in DOMAIN transfers :
           /\ transfers'[u].replica = transfers[u].replica /\ transfers'[u].link = transfers[u].link
           /\ transfers'[u].status = IF u \in {t} THEN "FAILED" ELSE transfers[u].status
  BY <1>1, <1>2, FailedTransfers
<1>4. MoveSide'
  <2>1. replicas' \in Seq(ReplicaRecords) /\ DOMAIN replicas' = DOMAIN replicas
    BY <1>1, <1>2 DEF MoveTypes
  <2>2. \A u \in DOMAIN transfers :
          transfers'[u].status \in {"SCHEDULED", "RUNNING"} => Unfinished(u)
    BY <1>3 DEF Unfinished
  <2>3. \A r \in DOMAIN replicas :
          replicas'[r].status = "AVAILABLE" => workers'[replicas'[r].location] = "UP"
    BY <1>1, <1>2 DEF AvailableIsReachable
  <2>4. \A u \in DOMAIN transfers : transfers'[u].status = "RUNNING" => Sound(u)
    BY <1>2, <1>3 DEF AvailableIsReachable
  <2>5. \A u \in DOMAIN transfers :
          transfers'[u].status = "RUNNING" =>
            LET r == transfers[u].replica IN
            /\ replicas'[r].status = "AVAILABLE" /\ replicas'[r].location = Source(u)
            /\ workers'[Source(u)] = "UP" /\ workers'[Destination(u)] = "UP"
    BY <1>1, <2>4 DEF Sound
  <2> QED
    BY <1>2, <1>3, <2>1, <2>2, <2>3, <2>5, MoveSideStep
<1>5. /\ Moved(sim, sim', run, {}, new)
      /\ \A e \in new : NewId(e.id, sim'.next) /\ e.kind = "STATE_TRANSFER_FAILED" /\ e.subject = t
  <2>1. t \in Workers \cup Nat /\ "STATE_TRANSFER_FAILED" \in Kinds
    BY <1>2, MoveFacts DEF Kinds
  <2> QED
    BY <1>1, <1>2, <2>1, OneAtOnce
<1> HIDE DEF new
<1>6. Grows
  BY <1>1, <1>3 DEF Grows
<1>7. \A e \in new : IdUsed(e.id)' /\ SubjectExists(e)' /\ Tells(e)
  BY <1>5, NewIdsAreUsed DEF SubjectExists
<1>8. (\A id \in {} : Completion(id)) /\ (\A u : TaskComplete(u) \notin {}) /\ StartsNew(new)
  BY <1>5 DEF StartsNew
<1> QED
  BY <1>1, <1>4, <1>5, <1>6, <1>7, <1>8, MovesStep

(* _on_state_transfer_started.                                             *)
LEMMA TransferStartedStep ==
  ASSUME Sides, UNCHANGED records, NEW s, NEW run, Moved(sim, s, run, {}, {}),
         NEW t \in DOMAIN transfers, OnTransferStarted(t, s),
         \A e \in run : e.kind = "STATE_TRANSFER_STARTED"
  PROVE  Kept(run)
<1> DEFINE id == TransferComplete(t)
           at == s.now + Links[transfers[t].link].duration
           order == Order("STATE_TRANSFER_COMPLETED", at, id, t)
           new == EventsOf(s, <<order>>)
<1>1. /\ EventsInv /\ MoveSide /\ MoveTypes /\ AvailableIsReachable
      /\ KernelInv(s) /\ KernelInv(sim)
  BY DEF Sides, MoveSide, Moved, EventsInv
<1>2. t \in Nat /\ at \in Nat /\ at >= s.now /\ t \in Workers \cup Nat
  <2>1. t \in Nat /\ Links[transfers[t].link].duration \in Nat /\ s.now \in Nat
    BY <1>1, MoveFacts, KernelFacts
  <2> QED
    BY <2>1
<1>3. \A e \in run : e.kind \notin {"WORKER_TASK_ENQUEUED", "WORKER_TASK_COMPLETED"}
  OBVIOUS
<1>4. CASE transfers[t].status # "SCHEDULED" /\ Ignored(s)
  BY <1>4, IgnoredStep
<1>5. CASE FailTransfer(t, s)
  BY <1>3, <1>5, FailTransferStep
<1>6. CASE /\ transfers[t].status = "SCHEDULED" /\ Sound(t)
           /\ transfers' = [transfers EXCEPT ![t].status = "RUNNING", ![t].completion = TransferComplete(t)]
           /\ sim' = Scheduled(s, <<order>>)
           /\ UNCHANGED <<workers, taskVars, replicas>>
  <2>1. id \in {NoEvent} \cup ({"transfer-complete"} \X Nat) /\ tasks' = tasks
    BY <1>2, <1>6 DEF TransferComplete, taskVars
  <2>2. /\ transfers' \in Seq(TransferRecords(DOMAIN replicas)) /\ DOMAIN transfers' = DOMAIN transfers
        /\ \A u \in DOMAIN transfers :
             /\ transfers'[u].replica = transfers[u].replica /\ transfers'[u].link = transfers[u].link
             /\ transfers'[u].status = IF u = t THEN "RUNNING" ELSE transfers[u].status
    <3> DEFINE status == "RUNNING"
    <3>1. /\ status \in {"SCHEDULED", "RUNNING", "COMPLETED", "FAILED"}
          /\ transfers' = [transfers EXCEPT ![t].status = status, ![t].completion = id]
      BY <1>6
    <3> HIDE DEF status, id
    <3>2. \A st \in {"SCHEDULED", "RUNNING", "COMPLETED", "FAILED"},
             c \in {NoEvent} \cup ({"transfer-complete"} \X Nat) :
            transfers' = [transfers EXCEPT ![t].status = st, ![t].completion = c] =>
              /\ transfers' \in Seq(TransferRecords(DOMAIN replicas)) /\ DOMAIN transfers' = DOMAIN transfers
              /\ \A u \in DOMAIN transfers :
                   /\ transfers'[u].replica = transfers[u].replica /\ transfers'[u].link = transfers[u].link
                   /\ transfers'[u].status = IF u = t THEN st ELSE transfers[u].status
      BY <1>1, TransferUpdate
    <3> QED
      BY <2>1, <3>1, <3>2 DEF status
  <2>3. MoveSide'
    <3>1. replicas' \in Seq(ReplicaRecords) /\ DOMAIN replicas' = DOMAIN replicas
      BY <1>1, <1>6 DEF MoveTypes
    <3>2. \A u \in DOMAIN transfers :
            transfers'[u].status \in {"SCHEDULED", "RUNNING"} => Unfinished(u)
      BY <1>6, <2>2 DEF Unfinished
    <3>3. \A r \in DOMAIN replicas :
            replicas'[r].status = "AVAILABLE" => workers'[replicas'[r].location] = "UP"
      BY <1>1, <1>6 DEF AvailableIsReachable
    <3>4. \A u \in DOMAIN transfers : transfers'[u].status = "RUNNING" => Sound(u)
      BY <1>1, <1>6, <2>2 DEF AvailableIsReachable
    <3>5. \A u \in DOMAIN transfers :
            transfers'[u].status = "RUNNING" =>
              LET r == transfers[u].replica IN
              /\ replicas'[r].status = "AVAILABLE" /\ replicas'[r].location = Source(u)
              /\ workers'[Source(u)] = "UP" /\ workers'[Destination(u)] = "UP"
      BY <1>6, <3>4 DEF Sound
    <3> QED
      BY <1>1, <2>2, <3>1, <3>2, <3>3, <3>5, MoveSideStep
  <2>4. id \notin sim.known /\ id # NoId
    <3>1. \A x \in sim.known : x[1] = "transfer-complete" => transfers[x[2]].status # "SCHEDULED"
      BY <1>1 DEF EventsInv, IdsUsed, IdUsed
    <3> QED
      BY <1>6, <3>1 DEF TransferComplete, NoId
  <2>5. /\ Moved(sim, sim', run, {}, new)
        /\ \A e \in new : e.id = id /\ e.kind = "STATE_TRANSFER_COMPLETED" /\ e.subject = t
    <3> DEFINE kind == "STATE_TRANSFER_COMPLETED"
    <3>1. kind \in Kinds
      BY DEF Kinds
    <3> HIDE DEF id, at, kind
    <3>2. LET z == Scheduled(s, <<Order(kind, at, id, t)>>)
              ordered == EventsOf(s, <<Order(kind, at, id, t)>>)
          IN /\ Moved(sim, z, run, {}, ordered)
             /\ \E e : ordered = {e} /\ e.id = id /\ e.kind = kind /\ e.subject = t
      BY <1>1, <1>2, <2>4, <3>1, OneNamed
    <3> QED
      BY <1>6, <3>2 DEF kind
  <2> HIDE DEF new
  <2>6. \A e \in new : IdUsed(e.id)' /\ SubjectExists(e)' /\ Tells(e)
    BY <2>2, <2>5 DEF IdUsed, SubjectExists, Tells, TransferComplete, NoEvent
  <2>7. Grows
    BY <1>6, <2>1, <2>2 DEF Grows
  <2>8. (\A x \in {} : Completion(x)) /\ (\A u : TaskComplete(u) \notin {}) /\ StartsNew(new)
    BY <2>5 DEF StartsNew
  <2> QED
    BY <1>3, <1>6, <2>3, <2>5, <2>6, <2>7, <2>8, MovesStep
<1> HIDE DEF new
<1> QED
  BY <1>4, <1>5, <1>6 DEF OnTransferStarted

(* _on_state_transfer_completed: the replica moves to the destination.     *)
LEMMA TransferCompletedStep ==
  ASSUME Sides, UNCHANGED records, NEW s, NEW run, Moved(sim, s, run, {}, {}),
         NEW t \in DOMAIN transfers, OnTransferCompleted(t, s),
         \A e \in run : e.kind = "STATE_TRANSFER_COMPLETED"
  PROVE  Kept(run)
<1> DEFINE moved == transfers[t].replica
           new == EventsOf(s, <<AtOnce(s, "STATE_MOVED", moved)>>)
<1>1. /\ EventsInv /\ MoveSide /\ MoveTypes /\ AvailableIsReachable /\ OneTransfer
  BY DEF Sides, MoveSide
<1>2. moved \in DOMAIN replicas /\ moved \in Workers \cup Nat
  BY <1>1, MoveFacts
<1>3. \A e \in run : e.kind \notin {"WORKER_TASK_ENQUEUED", "WORKER_TASK_COMPLETED"}
  OBVIOUS
<1>4. CASE transfers[t].status # "RUNNING" /\ Ignored(s)
  BY <1>4, IgnoredStep
<1>5. CASE FailTransfer(t, s)
  BY <1>3, <1>5, FailTransferStep
<1>6. CASE /\ transfers[t].status = "RUNNING" /\ Sound(t)
           /\ replicas' = [replicas EXCEPT ![moved].location = Destination(t)]
           /\ transfers' = [transfers EXCEPT ![t].status = "COMPLETED", ![t].completion = NoEvent]
           /\ sim' = Scheduled(s, <<AtOnce(s, "STATE_MOVED", moved)>>)
           /\ UNCHANGED <<workers, taskVars>>
  <2>1. /\ transfers' \in Seq(TransferRecords(DOMAIN replicas)) /\ DOMAIN transfers' = DOMAIN transfers
        /\ \A u \in DOMAIN transfers :
             /\ transfers'[u].replica = transfers[u].replica /\ transfers'[u].link = transfers[u].link
             /\ transfers'[u].status = IF u = t THEN "COMPLETED" ELSE transfers[u].status
    <3>1. \A st \in {"SCHEDULED", "RUNNING", "COMPLETED", "FAILED"},
             c \in {NoEvent} \cup ({"transfer-complete"} \X Nat) :
            transfers' = [transfers EXCEPT ![t].status = st, ![t].completion = c] =>
              /\ transfers' \in Seq(TransferRecords(DOMAIN replicas)) /\ DOMAIN transfers' = DOMAIN transfers
              /\ \A u \in DOMAIN transfers :
                   /\ transfers'[u].replica = transfers[u].replica /\ transfers'[u].link = transfers[u].link
                   /\ transfers'[u].status = IF u = t THEN st ELSE transfers[u].status
      BY <1>1, TransferUpdate
    <3> QED
      BY <1>6, <3>1
  <2>2. /\ replicas' \in Seq(ReplicaRecords) /\ DOMAIN replicas' = DOMAIN replicas
        /\ \A q \in DOMAIN replicas :
             /\ replicas'[q].location = IF q = moved THEN Destination(t) ELSE replicas[q].location
             /\ replicas'[q].status = replicas[q].status
    <3>1. Destination(t) \in Workers /\ \A q \in DOMAIN replicas : replicas[q] \in ReplicaRecords
      BY <1>1, MoveFacts
    <3>2. \A q \in DOMAIN replicas :
            replicas'[q] = IF q = moved THEN [replicas[q] EXCEPT !.location = Destination(t)]
                                        ELSE replicas[q]
      BY <1>2, <1>6
    <3> HIDE DEF moved
    <3>3. \A q \in DOMAIN replicas :
            /\ replicas'[q] \in ReplicaRecords
            /\ replicas'[q].location = IF q = moved THEN Destination(t) ELSE replicas[q].location
            /\ replicas'[q].status = replicas[q].status
      <4> TAKE q \in DOMAIN replicas
      <4>1. CASE q # moved
        BY <3>1, <3>2, <4>1
      <4>2. CASE q = moved
        <5>1. replicas'[q] = [replicas[q] EXCEPT !.location = Destination(t)] /\ replicas[q] \in ReplicaRecords
          BY <3>1, <3>2, <4>2
        <5> QED
          BY <3>1, <4>2, <5>1 DEF ReplicaRecords
      <4> QED
        BY <4>1, <4>2
    <3>4. replicas' = [q \in DOMAIN replicas |-> replicas'[q]]
      BY <1>6
    <3>5. replicas' \in Seq(ReplicaRecords) /\ DOMAIN replicas' = DOMAIN replicas
      BY <1>1, <3>3, <3>4, ReplicasChange
    <3> QED
      BY <3>3, <3>5
  <2>3. /\ replicas[moved].status = "AVAILABLE" /\ replicas[moved].location = Source(t)
        /\ workers[Source(t)] = "UP" /\ workers[Destination(t)] = "UP"
    BY <1>6 DEF Sound
  <2>4. \A u \in DOMAIN transfers :
          transfers'[u].status \in {"SCHEDULED", "RUNNING"} => Unfinished(u) /\ u # t
    BY <2>1 DEF Unfinished
  <2>5. MoveSide'
    <3>1. \A r \in DOMAIN replicas :
            replicas'[r].status = "AVAILABLE" => workers'[replicas'[r].location] = "UP"
      BY <1>1, <1>6, <2>2, <2>3 DEF AvailableIsReachable
    <3>2. ASSUME NEW u \in DOMAIN transfers, transfers'[u].status = "RUNNING"
          PROVE  LET r == transfers[u].replica IN
                 /\ replicas'[r].status = "AVAILABLE" /\ replicas'[r].location = Source(u)
                 /\ workers'[Source(u)] = "UP" /\ workers'[Destination(u)] = "UP"
      <4>1. u # t /\ transfers[u].status = "RUNNING"
        BY <2>1, <3>2
      <4>2. transfers[u].replica # moved
        BY <1>1, <1>6, <4>1 DEF OneTransfer, Unfinished
      <4>3. Sound(u) /\ transfers[u].replica \in DOMAIN replicas
        BY <1>1, <4>1, MoveFacts DEF AvailableIsReachable
      <4> QED
        BY <1>6, <2>2, <4>2, <4>3 DEF Sound
    <3> QED
      BY <1>1, <2>1, <2>2, <2>4, <3>1, <3>2, MoveSideStep
  <2>6. /\ Moved(sim, sim', run, {}, new)
        /\ \A e \in new : NewId(e.id, sim'.next) /\ e.kind = "STATE_MOVED" /\ e.subject = moved
    <3>1. "STATE_MOVED" \in Kinds
      BY DEF Kinds
    <3> HIDE DEF moved
    <3> QED
      BY <1>1, <1>2, <1>6, <3>1, OneAtOnce
  <2> HIDE DEF new
  <2>7. \A e \in new : IdUsed(e.id)' /\ SubjectExists(e)' /\ Tells(e)
    BY <2>6, NewIdsAreUsed DEF SubjectExists
  <2>8. Grows
    BY <1>6, <2>1, <2>2 DEF Grows, taskVars
  <2>9. (\A x \in {} : Completion(x)) /\ (\A u : TaskComplete(u) \notin {}) /\ StartsNew(new)
    BY <2>6 DEF StartsNew
  <2> QED
    BY <1>3, <1>6, <2>5, <2>6, <2>7, <2>8, <2>9, MovesStep
<1> HIDE DEF new
<1> QED
  BY <1>4, <1>5, <1>6 DEF OnTransferCompleted

(* _on_state_evicted and _on_state_lost.                                   *)
LEMMA StateGoneStep ==
  ASSUME Sides, UNCHANGED records, NEW s, NEW run, Moved(sim, s, run, {}, {}),
         NEW r \in DOMAIN replicas, NEW status \in {"EVICTED", "LOST"}, OnStateGone(r, s, status),
         \A e \in run : e.kind \notin {"WORKER_TASK_ENQUEUED", "WORKER_TASK_COMPLETED"}
  PROVE  Kept(run)
<1> DEFINE moving == {t \in DOMAIN transfers : transfers[t].replica = r /\ Unfinished(t)}
           broken == Ascending(moving)
           orders == [i \in DOMAIN broken |-> AtOnce(s, "STATE_TRANSFER_FAILED", broken[i])]
           ends == {transfers[t].completion : t \in moving} \cup {replicas[r].completion}
           O == {AtOnce(s, "STATE_TRANSFER_FAILED", t) : t \in DOMAIN transfers}
           new == EventsOf(s, orders)
<1>1. EventsInv /\ MoveSide /\ MoveTypes /\ AvailableIsReachable
  BY DEF Sides, MoveSide
<1>2. CASE replicas[r].status = "LOST" /\ Ignored(s)
  BY <1>2, IgnoredStep
<1>3. CASE /\ replicas' = [replicas EXCEPT ![r].status = status, ![r].completion = NoEvent]
           /\ transfers' = Failed(moving)
           /\ sim' = Cancelled(Scheduled(s, orders), ends)
           /\ UNCHANGED <<workers, taskVars>>
  <2>1. orders \in Seq(O)
    <3>1. moving \in SUBSET (1..Len(transfers)) /\ Len(transfers) \in Nat /\ moving \subseteq DOMAIN transfers
      BY <1>1, MoveFacts
    <3> HIDE DEF moving
    <3>2. /\ Cardinality(moving) \in Nat /\ DOMAIN broken = 1..Cardinality(moving)
          /\ \A i \in DOMAIN broken : broken[i] \in DOMAIN transfers
      BY <3>1, AscendingFacts
    <3> HIDE DEF broken
    <3>3. orders \in [1..Cardinality(moving) -> O]
      BY <3>2
    <3> HIDE DEF orders, O
    <3> QED
      BY <3>2, <3>3, SeqIntro
  <2>2. O \subseteq AtOnceOrders(s)
    <3>1. "STATE_TRANSFER_FAILED" \in Kinds /\ DOMAIN transfers \subseteq Nat
      BY <1>1, MoveFacts DEF Kinds
    <3> QED
      BY <3>1 DEF AtOnceOrders
  <2>3. \A o \in O : o.kind = "STATE_TRANSFER_FAILED"
    BY DEF AtOnce, Order
  <2>4. /\ Moved(sim, Scheduled(s, orders), run, {}, new)
        /\ \A e \in new : /\ NewId(e.id, Scheduled(s, orders).next)
                          /\ e.kind = "STATE_TRANSFER_FAILED"
    <3> HIDE DEF orders, O
    <3>1. /\ Moved(sim, Scheduled(s, orders), run, {}, new)
          /\ \A e \in new : /\ NewId(e.id, Scheduled(s, orders).next)
                            /\ \E o \in O : e.kind = o.kind /\ e.subject = o.subject
      BY <1>1, <2>1, <2>2, AtOnceStep
    <3> QED
      BY <2>3, <3>1
  <2>5. \A id \in ends : id = NoEvent \/ id[1] \in {"transfer-complete", "materialize-complete"}
    BY <1>1, MoveFacts
  <2> HIDE DEF new, ends, orders, O
  <2>6. /\ Moved(sim, sim', run, ends, new)
        /\ \A e \in new : NewId(e.id, sim'.next) /\ e.kind = "STATE_TRANSFER_FAILED"
    <3>1. ends \cap Ids(new) = {}
      BY <2>4, <2>5 DEF Ids, NewId
    <3>2. Moved(sim, sim', run, {} \cup ends, new)
      BY <1>3, <2>4, <3>1, MovedCancel
    <3>3. {} \cup ends = ends
      OBVIOUS
    <3>4. KernelInv(Scheduled(s, orders))
      BY <2>4 DEF Moved
    <3>5. sim'.next = Scheduled(s, orders).next
      BY <1>3, <3>4, CancelledFields
    <3> QED
      BY <2>4, <3>2, <3>3, <3>5
  <2>7. /\ transfers' \in Seq(TransferRecords(DOMAIN replicas)) /\ DOMAIN transfers' = DOMAIN transfers
        /\ \A u \in DOMAIN transfers :
             /\ transfers'[u].replica = transfers[u].replica /\ transfers'[u].link = transfers[u].link
             /\ transfers'[u].status = IF u \in moving THEN "FAILED" ELSE transfers[u].status
    BY <1>1, <1>3, FailedTransfers
  <2>8. /\ replicas' \in Seq(ReplicaRecords) /\ DOMAIN replicas' = DOMAIN replicas
        /\ \A q \in DOMAIN replicas :
             /\ replicas'[q].location = replicas[q].location
             /\ replicas'[q].status = IF q = r THEN status ELSE replicas[q].status
    <3>1. \A st \in {"MATERIALIZING", "AVAILABLE", "EVICTED", "LOST"},
             c \in {NoEvent} \cup ({"materialize-complete"} \X Nat) :
            replicas' = [replicas EXCEPT ![r].status = st, ![r].completion = c] => ReplicaBecomes(r, st)
      BY <1>1, ReplicaUpdate
    <3> QED
      BY <1>3, <3>1 DEF ReplicaBecomes
  <2>9. MoveSide'
    <3>1. \A u \in DOMAIN transfers :
            transfers'[u].status \in {"SCHEDULED", "RUNNING"} => Unfinished(u)
      BY <2>7 DEF Unfinished
    <3>2. \A q \in DOMAIN replicas :
            replicas'[q].status = "AVAILABLE" => workers'[replicas'[q].location] = "UP"
      BY <1>1, <1>3, <2>8 DEF AvailableIsReachable
    <3>3. ASSUME NEW u \in DOMAIN transfers, transfers'[u].status = "RUNNING"
          PROVE  LET q == transfers[u].replica IN
                 /\ replicas'[q].status = "AVAILABLE" /\ replicas'[q].location = Source(u)
                 /\ workers'[Source(u)] = "UP" /\ workers'[Destination(u)] = "UP"
      <4>1. u \notin moving /\ transfers[u].status = "RUNNING"
        BY <2>7, <3>3
      <4>2. transfers[u].replica # r
        BY <4>1 DEF Unfinished
      <4>3. Sound(u) /\ transfers[u].replica \in DOMAIN replicas
        BY <1>1, <4>1, MoveFacts DEF AvailableIsReachable
      <4> QED
        BY <1>3, <2>8, <4>2, <4>3 DEF Sound
    <3> QED
      BY <1>1, <2>7, <2>8, <3>1, <3>2, <3>3, MoveSideStep
  <2>10. \A e \in new : IdUsed(e.id)' /\ SubjectExists(e)' /\ Tells(e)
    BY <2>6, NewIdsAreUsed DEF SubjectExists
  <2>11. Grows
    BY <1>3, <2>7, <2>8 DEF Grows, taskVars
  <2>12. (\A id \in ends : Completion(id)) /\ (\A t : TaskComplete(t) \notin ends) /\ StartsNew(new)
    BY <2>5, <2>6 DEF Completion, TaskComplete, NoEvent, StartsNew
  <2> HIDE DEF moving
  <2> QED
    BY <1>3, <2>6, <2>9, <2>10, <2>11, <2>12, MovesStep
<1> HIDE DEF new
<1>4. OnStateGone(r, s, status) /\ ~(replicas[r].status = "LOST" /\ Ignored(s)) =>
        /\ replicas' = [replicas EXCEPT ![r].status = status, ![r].completion = NoEvent]
        /\ transfers' = Failed(moving)
        /\ sim' = Cancelled(Scheduled(s, orders), ends)
        /\ UNCHANGED <<workers, taskVars>>
  BY DEF OnStateGone
<1> QED
  BY <1>2, <1>3, <1>4

---------------------------------------------------------------------------
(* One iteration of run: the earliest event is popped and handled.         *)
LEMMA HandleStep ==
  ASSUME Sides, UNCHANGED records, NEW e, SubjectExists(e), NEW s, Moved(sim, s, {e}, {}, {}), Handle(e, s)
  PROVE  Kept({e})
<1> DEFINE run == {e}
<1>1. run # {} /\ \A f \in run : f = e
  OBVIOUS
<1>2. Moved(sim, s, run, {}, {})
  OBVIOUS
<1> HIDE DEF run
<1>3. CASE e.kind = "WORKER_TASK_ENQUEUED"
  <2>1. OnTaskEnqueued(e.subject, s) /\ e.subject \in Workers
    BY <1>3 DEF Handle, SubjectExists
  <2>2. Kept(run)
    BY <1>1, <1>2, <1>3, <2>1, TaskEnqueuedStep
  <2> QED
    BY <2>2 DEF run
<1>4. CASE e.kind = "WORKER_TASK_COMPLETED"
  <2>1. OnTaskCompleted(e.subject, s) /\ e.subject \in DOMAIN tasks
    BY <1>4 DEF Handle, SubjectExists
  <2>2. Kept(run)
    BY <1>1, <1>2, <1>4, <2>1, TaskCompletedStep
  <2> QED
    BY <2>2 DEF run
<1>5. CASE e.kind = "WORKER_FAILED"
  <2>1. OnWorkerFailed(e.subject, s) /\ e.subject \in Workers
    BY <1>5 DEF Handle, SubjectExists
  <2>2. Kept(run)
    BY <1>1, <1>2, <1>5, <2>1, WorkerFailedStep
  <2> QED
    BY <2>2 DEF run
<1>6. CASE e.kind = "WORKER_RECOVERED"
  <2>1. OnWorkerRecovered(e.subject, s) /\ e.subject \in Workers
    BY <1>6 DEF Handle, SubjectExists
  <2>2. Kept(run)
    BY <1>1, <1>2, <1>6, <2>1, WorkerRecoveredStep
  <2> QED
    BY <2>2 DEF run
<1>7. CASE e.kind = "STATE_MATERIALIZATION_STARTED"
  <2>1. OnMaterializationStarted(e.subject, s) /\ e.subject \in DOMAIN replicas
    BY <1>7 DEF Handle, SubjectExists
  <2>2. Kept(run)
    BY <1>1, <1>2, <1>7, <2>1, MaterializationStartedStep
  <2> QED
    BY <2>2 DEF run
<1>8. CASE e.kind = "STATE_MATERIALIZED"
  <2>1. OnStateMaterialized(e.subject, s) /\ e.subject \in DOMAIN replicas
    BY <1>8 DEF Handle, SubjectExists
  <2>2. Kept(run)
    BY <1>1, <1>2, <1>8, <2>1, StateMaterializedStep
  <2> QED
    BY <2>2 DEF run
<1>9. CASE e.kind = "STATE_TRANSFER_STARTED"
  <2>1. OnTransferStarted(e.subject, s) /\ e.subject \in DOMAIN transfers
    BY <1>9 DEF Handle, SubjectExists
  <2>2. Kept(run)
    BY <1>1, <1>2, <1>9, <2>1, TransferStartedStep
  <2> QED
    BY <2>2 DEF run
<1>10. CASE e.kind = "STATE_TRANSFER_COMPLETED"
  <2>1. OnTransferCompleted(e.subject, s) /\ e.subject \in DOMAIN transfers
    BY <1>10 DEF Handle, SubjectExists
  <2>2. Kept(run)
    BY <1>1, <1>2, <1>10, <2>1, TransferCompletedStep
  <2> QED
    BY <2>2 DEF run
<1>11. CASE e.kind \in {"STATE_EVICTED", "STATE_LOST"}
  <2>1. e.subject \in DOMAIN replicas /\ \E status \in {"EVICTED", "LOST"} : OnStateGone(e.subject, s, status)
    BY <1>11 DEF Handle, SubjectExists
  <2>2. \A f \in run : f.kind \notin {"WORKER_TASK_ENQUEUED", "WORKER_TASK_COMPLETED"}
    BY <1>1, <1>11
  <2>3. Kept(run)
    BY <1>2, <2>1, <2>2, StateGoneStep
  <2> QED
    BY <2>3 DEF run
<1>12. CASE e.kind \notin {"WORKER_TASK_ENQUEUED", "WORKER_TASK_COMPLETED", "WORKER_FAILED", "WORKER_RECOVERED",
                           "STATE_MATERIALIZATION_STARTED", "STATE_MATERIALIZED", "STATE_TRANSFER_STARTED",
                           "STATE_TRANSFER_COMPLETED", "STATE_EVICTED", "STATE_LOST"}
  <2>1. Ignored(s)
    BY <1>12 DEF Handle
  <2>2. Kept(run)
    BY <1>1, <1>2, <1>12, <2>1, IgnoredStep
  <2> QED
    BY <2>2 DEF run
<1> QED
  BY <1>3, <1>4, <1>5, <1>6, <1>7, <1>8, <1>9, <1>10, <1>11, <1>12

LEMMA RunNextStep ==
  ASSUME Sides, UNCHANGED records, RunNext
  PROVE  \E e \in Pending(sim) : Kept({e})
<1>1. PICK e \in sim.queue : IsEarliest(sim, e) /\ Handle(e, Popped(sim, e))
  BY DEF RunNext
<1>2. KernelInv(sim)
  BY DEF Sides, EventsInv
<1>3. Moved(sim, Popped(sim, e), {e}, {}, {})
  BY <1>1, <1>2, MovedPop
<1>4. e \in Pending(sim)
  BY <1>1 DEF IsEarliest
<1>5. SubjectExists(e)
  BY <1>4 DEF Sides, EventsInv, SubjectsExist, History
<1>6. Kept({e})
  BY <1>1, <1>3, <1>5, HandleStep
<1> QED
  BY <1>4, <1>6

(* The handlers create no task and leave the callers alone.                *)
LEMMA HandlersAreNoCallers ==
  ASSUME TaskTypes, NEW e, NEW s, Handle(e, s)
  PROVE  DOMAIN tasks' = DOMAIN tasks /\ callers' = callers
<1>1. \A w, up, running, known : Dispatch(w, s, up, running, known) => DOMAIN tasks' = DOMAIN known
  BY DEF Dispatch
<1>2. OnTaskEnqueued(e.subject, s) => DOMAIN tasks' = DOMAIN tasks /\ callers' = callers
  BY <1>1 DEF OnTaskEnqueued
<1>3. OnTaskCompleted(e.subject, s) => DOMAIN tasks' = DOMAIN tasks /\ callers' = callers
  <2>1. \A t : DOMAIN [tasks EXCEPT ![t].status = "COMPLETED", ![t].completion = NoEvent] = DOMAIN tasks
    OBVIOUS
  <2> QED
    BY <1>1, <2>1 DEF OnTaskCompleted, Ignored, taskVars
<1>4. OnWorkerFailed(e.subject, s) => DOMAIN tasks' = DOMAIN tasks /\ callers' = callers
  BY DEF OnWorkerFailed, Ignored, taskVars
<1>5. OnWorkerRecovered(e.subject, s) => DOMAIN tasks' = DOMAIN tasks /\ callers' = callers
  BY <1>1 DEF OnWorkerRecovered, Ignored, taskVars
<1>6. OnMaterializationStarted(e.subject, s) => tasks' = tasks /\ callers' = callers
  BY DEF OnMaterializationStarted, LostWithWorker, Ignored, taskVars
<1>7. OnStateMaterialized(e.subject, s) => tasks' = tasks /\ callers' = callers
  BY DEF OnStateMaterialized, LostWithWorker, Ignored, taskVars
<1>8. OnTransferStarted(e.subject, s) => tasks' = tasks /\ callers' = callers
  BY DEF OnTransferStarted, FailTransfer, Ignored, taskVars
<1>9. OnTransferCompleted(e.subject, s) => tasks' = tasks /\ callers' = callers
  BY DEF OnTransferCompleted, FailTransfer, Ignored, taskVars
<1>10. \A status : OnStateGone(e.subject, s, status) => tasks' = tasks /\ callers' = callers
  BY DEF OnStateGone, Ignored, taskVars
<1>11. Ignored(s) => tasks' = tasks /\ callers' = callers
  BY DEF Ignored, taskVars
<1> QED
  BY <1>2, <1>3, <1>4, <1>5, <1>6, <1>7, <1>8, <1>9, <1>10, <1>11 DEF Handle

---------------------------------------------------------------------------
(* The faults.                                                             *)
LEMMA RecordedFacts ==
  ASSUME RecordsListed, NEW record, Recorded(record)
  PROVE  /\ DOMAIN records = 1..Len(records) /\ Len(records) \in Nat
         /\ DOMAIN records' = DOMAIN records \cup {Len(records) + 1}
         /\ Len(records) + 1 \notin DOMAIN records
         /\ \A i \in DOMAIN records : records'[i] = records[i]
         /\ records'[Len(records) + 1] = record
         /\ RecordsListed'
<1> DEFINE S == ToSet(records)
           T == S \cup {record}
<1>1. records \in Seq(S)
  BY DEF RecordsListed
<1>2. records \in Seq(T) /\ record \in T
  <2> HIDE DEF S
  <2> QED
    BY <1>1, SeqGrows
<1>3. records' = Append(records, record)
  BY DEF Recorded
<1> HIDE DEF T, S
<1>4. /\ DOMAIN records = 1..Len(records) /\ Len(records) \in Nat
      /\ DOMAIN records' = 1..(Len(records) + 1)
      /\ \A i \in DOMAIN records : records'[i] = records[i]
      /\ records'[Len(records) + 1] = record
      /\ records' \in Seq(T)
  BY <1>2, <1>3
<1>5. records' \in Seq(ToSet(records'))
  <2> DEFINE n == Len(records) + 1
             U == ToSet(records')
  <2>1. n \in Nat /\ records' \in [1..n -> U]
    <3>1. \A i \in 1..n : records'[i] \in U
      BY <1>4 DEF ToSet
    <3>2. records' = [i \in 1..n |-> records'[i]]
      BY <1>4
    <3> HIDE DEF U
    <3> QED
      BY <1>4, <3>1, <3>2
  <2> HIDE DEF n, U
  <2>2. records' \in Seq(U)
    BY <2>1, SeqIntro
  <2> QED
    BY <2>2 DEF U
<1>6. 1..(Len(records) + 1) = 1..Len(records) \cup {Len(records) + 1} /\ Len(records) + 1 \notin 1..Len(records)
  BY <1>4
<1> QED
  BY <1>4, <1>5, <1>6 DEF RecordsListed

(* The same delivery once more.                                            *)
LEMMA RedeliveryEvents ==
  ASSUME Sides, RecordsListed, NEW e \in Pending(sim), NEW at \in Nat, at >= sim.now
  PROVE  LET t == Scheduled(sim, <<Redelivery(e, at)>>)
             new == EventsOf(sim, <<Redelivery(e, at)>>)
         IN /\ Moved(sim, t, {}, {}, new)
            /\ new # {}
            /\ \A f \in new : /\ f.id = FaultEventId(e) /\ f.id \notin sim.known
                              /\ f.kind = e.kind /\ f.subject = e.subject
                              /\ f.time = at /\ f.sequence = sim.next /\ new = {f}
<1> DEFINE id == FaultEventId(e)
<1>1. EventsInv /\ KernelInv(sim) /\ Moved(sim, sim, {}, {}, {})
  BY MovedNot DEF Sides, EventsInv
<1>2. e.kind \in Kinds /\ e.subject \in Workers \cup Nat
  <2>1. e \in Events(sim.known)
    BY <1>1, KernelFacts
  <2> QED
    BY <2>1 DEF Events
<1>3. id # NoId /\ id[1] = "fault" /\ id[2] = Len(records) + 1
  BY DEF FaultEventId, NoId
<1>4. id \notin sim.known
  <2>1. \A x \in sim.known : x[1] = "fault" => x[2] \in DOMAIN records
    BY <1>1 DEF EventsInv, IdsUsed, IdUsed
  <2>2. Len(records) + 1 \notin DOMAIN records
    <3> DEFINE S == ToSet(records)
    <3>1. records \in Seq(S)
      BY DEF RecordsListed
    <3> HIDE DEF S
    <3> QED
      BY <3>1
  <2> QED
    BY <1>3, <2>1, <2>2
<1>5. Redelivery(e, at) = Order(e.kind, at, id, e.subject)
  BY DEF Redelivery
<1> HIDE DEF id
<1> DEFINE kind == e.kind
           subject == e.subject
<1> HIDE DEF kind, subject
<1>6. kind \in Kinds /\ subject \in Workers \cup Nat
  BY <1>2 DEF kind, subject
<1>7. LET t == Scheduled(sim, <<Order(kind, at, id, subject)>>)
          new == EventsOf(sim, <<Order(kind, at, id, subject)>>)
      IN /\ Moved(sim, t, {}, {}, new)
         /\ \E f : /\ new = {f} /\ f.id = id /\ f.kind = kind /\ f.subject = subject
                 /\ f.time = at /\ f.sequence = sim.next
  <2>1. id # NoId /\ id \notin sim.known /\ at \in Nat /\ at >= sim.now
    BY <1>3, <1>4
  <2> QED
    BY <1>1, <1>6, <2>1, OneNamed
<1> QED
  BY <1>4, <1>5, <1>7 DEF id, kind, subject

(* A fault of a delivery: it is scheduled once more, or cancelled, or      *)
(* both.                                                                   *)
Redelivered(e, gone, new) ==
  /\ OnlyDeliveries /\ gone \in {{}, {e.id}}
  /\ Moved(sim, sim', {}, gone, new)
  /\ \A f \in new : f.id = FaultEventId(e) /\ f.kind = e.kind /\ f.subject = e.subject
  /\ DOMAIN records' = DOMAIN records \cup {Len(records) + 1}

LEMMA DeliveryStep ==
  ASSUME Sides, NEW e \in Pending(sim), NEW gone, NEW new, Redelivered(e, gone, new)
  PROVE  /\ Sides'
         /\ new # {} /\ NobodyWaitsInVain /\ RunningTasksEnd => NobodyWaitsInVain' /\ RunningTasksEnd'
<1> USE DEF Redelivered
<1>1. /\ workers' = workers /\ tasks' = tasks /\ queues' = queues /\ active' = active
      /\ replicas' = replicas /\ transfers' = transfers
  BY DEF OnlyDeliveries, taskVars
<1>2. Grows
  BY <1>1 DEF Grows
<1>3. ASSUME NEW f \in new PROVE IdUsed(f.id)' /\ SubjectExists(f)' /\ Tells(f)
  <2>1. SubjectExists(e)
    BY DEF Sides, EventsInv, SubjectsExist, History
  <2> QED
    BY <1>1, <2>1 DEF FaultEventId, IdUsed, SubjectExists, Tells, NoEvent
<1>4. EventsInv'
  <2>1. Advance({}, gone, new)
    BY <1>2, <1>3 DEF Advance
  <2> QED
    BY <2>1, EventsInvStep DEF Sides
<1>5. WorkerTypes' /\ MoveSide' /\ TaskSide'
  <2>1. WorkerTypes'
    BY <1>1 DEF Sides, WorkerTypes
  <2>2. UNCHANGED <<workers, taskVars>>
    BY <1>1 DEF taskVars
  <2> QED
    BY <1>1, <2>1, <2>2, MovesStay, TasksStay DEF Sides
<1>6. ASSUME new # {}, NobodyWaitsInVain, RunningTasksEnd
      PROVE  NobodyWaitsInVain' /\ RunningTasksEnd'
  <2>1. ASSUME NEW f \in Pending(sim)
        PROVE  \E g \in Pending(sim') : g.kind = f.kind /\ g.subject = f.subject
    <3>1. CASE f.id # e.id
      BY <3>1 DEF Moved
    <3>2. CASE f.id = e.id
      <4>1. f = e
        BY <3>2 DEF Sides, EventsInv, KernelInv, HeapInv, Pending
      <4>2. new \subseteq Pending(sim')
        BY DEF Moved
      <4> QED
        BY <1>6, <4>1, <4>2
    <3> QED
      BY <3>1, <3>2
  <2>2. NobodyWaitsInVain'
    BY <1>1, <1>6, <2>1 DEF NobodyWaitsInVain
  <2>3. RunningTasksEnd'
    BY <1>1, <1>6, <2>1 DEF RunningTasksEnd
  <2> QED
    BY <2>2, <2>3
<1> QED
  BY <1>4, <1>5, <1>6 DEF Sides

(* What is shown of every step.                                            *)
Stepped ==
  /\ Sides' /\ RecordsListed'
  /\ NobodyWaitsInVain /\ RunningTasksEnd => NobodyWaitsInVain' /\ RunningTasksEnd'

(* A delivery is put off.                                                  *)
LEMMA PutOffEvents ==
  ASSUME Sides, RecordsListed, NEW e \in Pending(sim), NEW at \in Nat, at >= sim.now, sim' = PutOff(e, at)
  PROVE  \E f : /\ Moved(sim, sim', {}, {e.id}, {f})
                /\ f.id = FaultEventId(e) /\ f.kind = e.kind /\ f.subject = e.subject
                /\ f.time = at /\ f.sequence = sim.next
<1> DEFINE z == Scheduled(sim, <<Redelivery(e, at)>>)
           new == EventsOf(sim, <<Redelivery(e, at)>>)
           gone == {e.id}
<1>1. /\ Moved(sim, z, {}, {}, new) /\ new # {}
      /\ \A f \in new : /\ f.id = FaultEventId(e) /\ f.id \notin sim.known
                        /\ f.kind = e.kind /\ f.subject = e.subject
                        /\ f.time = at /\ f.sequence = sim.next /\ new = {f}
  BY RedeliveryEvents
<1>2. sim' = Cancelled(z, gone)
  BY DEF PutOff
<1>3. e.id \in sim.known
  <2>1. KernelInv(sim)
    BY DEF Sides, EventsInv
  <2> QED
    BY <2>1, KernelFacts
<1> HIDE DEF z, new
<1>4. Moved(sim, sim', {}, gone, new)
  <2>1. gone \cap Ids(new) = {}
    BY <1>1, <1>3 DEF Ids
  <2> HIDE DEF gone
  <2>2. Moved(sim, Cancelled(z, gone), {}, {} \cup gone, new)
    BY <1>1, <2>1, MovedCancel
  <2>3. {} \cup gone = gone
    OBVIOUS
  <2> QED
    BY <1>2, <2>2, <2>3
<1> QED
  BY <1>1, <1>4

LEMMA PutOffStep ==
  ASSUME Sides, RecordsListed, NEW e \in Pending(sim), NEW at \in Nat, at >= sim.now,
         sim' = PutOff(e, at), OnlyDeliveries, NEW record, Recorded(record)
  PROVE  Stepped
<1>1. PICK f : /\ Moved(sim, sim', {}, {e.id}, {f})
               /\ f.id = FaultEventId(e) /\ f.kind = e.kind /\ f.subject = e.subject
  BY PutOffEvents
<1> DEFINE gone == {e.id}
           new == {f}
<1>2. DOMAIN records' = DOMAIN records \cup {Len(records) + 1} /\ RecordsListed'
  BY RecordedFacts
<1>3. new # {} /\ Redelivered(e, gone, new)
  BY <1>1, <1>2 DEF Redelivered
<1> HIDE DEF gone, new
<1>4. Sides' /\ (new # {} /\ NobodyWaitsInVain /\ RunningTasksEnd => NobodyWaitsInVain' /\ RunningTasksEnd')
  BY <1>3, DeliveryStep
<1> QED
  BY <1>2, <1>3, <1>4 DEF Stepped

(* A copy of a delivery.                                                   *)
LEMMA DuplicateStep ==
  ASSUME Sides, RecordsListed, NEW e \in Pending(sim), NEW at \in Nat, at >= sim.now,
         sim' = Scheduled(sim, <<Redelivery(e, at)>>), OnlyDeliveries, NEW record, Recorded(record)
  PROVE  Stepped
<1> DEFINE new == EventsOf(sim, <<Redelivery(e, at)>>)
           gone == {}
<1>1. /\ Moved(sim, sim', {}, gone, new) /\ new # {}
      /\ \A f \in new : f.id = FaultEventId(e) /\ f.kind = e.kind /\ f.subject = e.subject
  BY RedeliveryEvents
<1>2. DOMAIN records' = DOMAIN records \cup {Len(records) + 1} /\ RecordsListed'
  BY RecordedFacts
<1> HIDE DEF new
<1>3. Redelivered(e, gone, new)
  BY <1>1, <1>2 DEF Redelivered
<1> HIDE DEF gone
<1>4. Sides' /\ (new # {} /\ NobodyWaitsInVain /\ RunningTasksEnd => NobodyWaitsInVain' /\ RunningTasksEnd')
  BY <1>3, DeliveryStep
<1> QED
  BY <1>1, <1>2, <1>4 DEF Stepped

(* A dropped delivery, in a behaviour without tasks or whose callers drop. *)
LEMMA DropStep ==
  ASSUME Sides, RecordsListed, NEW e \in Pending(sim), DropDelivery(e)
  PROVE  /\ Sides' /\ RecordsListed'
         /\ DOMAIN tasks = {} => NobodyWaitsInVain' /\ RunningTasksEnd'
<1> DEFINE gone == {e.id}
           record == FaultRecord("DELIVERY_DROP", e, e.time, {}, {e.id}, NoAnchor)
           new == {}
<1>1. sim' = Cancelled(sim, gone) /\ OnlyDeliveries /\ Recorded(record)
  BY DEF DropDelivery
<1> HIDE DEF record
<1>2. /\ Moved(sim, sim', {}, gone, new)
      /\ \A f \in new : f.id = FaultEventId(e) /\ f.kind = e.kind /\ f.subject = e.subject
  <2>1. Moved(sim, sim, {}, {}, new) /\ gone \cap Ids(new) = {}
    BY MovedNot DEF Sides, EventsInv, Ids
  <2> HIDE DEF gone
  <2>2. Moved(sim, Cancelled(sim, gone), {}, {} \cup gone, new)
    BY <2>1, MovedCancel
  <2>3. {} \cup gone = gone
    OBVIOUS
  <2> QED
    BY <1>1, <2>2, <2>3
<1>3. DOMAIN records' = DOMAIN records \cup {Len(records) + 1} /\ RecordsListed'
  BY <1>1, RecordedFacts
<1>4. Sides'
  <2>1. Redelivered(e, gone, new)
    BY <1>1, <1>2, <1>3 DEF Redelivered
  <2> HIDE DEF new, gone
  <2> QED
    BY <2>1, DeliveryStep
<1>5. ASSUME DOMAIN tasks = {} PROVE NobodyWaitsInVain' /\ RunningTasksEnd'
  <2>1. tasks' = tasks /\ queues' = queues
    BY <1>1 DEF OnlyDeliveries, taskVars
  <2>2. \A w \in Workers : queues[w] = << >>
    <3>1. \A w \in Workers : queues[w] \in Seq({})
      BY <1>5 DEF Sides, TaskSide, TaskTypes
    <3> QED
      BY <3>1
  <2> QED
    BY <1>5, <2>1, <2>2 DEF NobodyWaitsInVain, RunningTasksEnd
<1> QED
  BY <1>3, <1>4, <1>5

LEMMA KeptIsStepped ==
  ASSUME Sides, RecordsListed', NEW run, Kept(run)
  PROVE  Stepped
<1>1. PICK gone, new : Advance(run, gone, new)
  BY DEF Kept, Result
<1>2. EventsInv'
  BY <1>1, EventsInvStep DEF Sides
<1> QED
  BY <1>2 DEF Kept, Stepped, Sides

(* A call is used up; the callers keep what they may do.                   *)
LEMMA CallFacts ==
  ASSUME CallersTyped, NEW kind \in Calls, Call(kind)
  PROVE  /\ CallersTyped' /\ callers'.classes = callers.classes
         /\ callers'.tasks > 0 => callers.tasks > 0
         /\ kind = "tasks" => callers.tasks > 0
<1>1. /\ DOMAIN callers' = DOMAIN callers
      /\ \A field \in DOMAIN callers : field # kind => callers'[field] = callers[field]
      /\ kind \in DOMAIN callers => callers'[kind] = callers[kind] - 1
      /\ callers[kind] > 0
  BY DEF Call
<1>2. {"workers", "durations", "faults", "classes", "tasks"} \subseteq DOMAIN callers /\ kind \in DOMAIN callers
  BY DEF CallersTyped, Calls
<1>3. kind \notin {"workers", "durations", "faults", "classes"}
  BY DEF Calls
<1>4. /\ callers'.workers = callers.workers /\ callers'.durations = callers.durations
      /\ callers'.classes = callers.classes
  BY <1>1, <1>2, <1>3
<1>5. CASE kind = "tasks"
  <2>1. callers'.tasks = callers.tasks - 1 /\ callers.tasks > 0
    BY <1>1, <1>2, <1>5
  <2>2. callers'.tasks \in Nat
    BY <2>1 DEF CallersTyped
  <2> QED
    BY <1>1, <1>4, <2>1, <2>2 DEF CallersTyped
<1>6. CASE kind # "tasks"
  <2>1. callers'.tasks = callers.tasks
    BY <1>1, <1>2, <1>6
  <2> QED
    BY <1>1, <1>4, <1>6, <2>1 DEF CallersTyped
<1> QED
  BY <1>5, <1>6

---------------------------------------------------------------------------
(* What a step does to the callers, and that it drops no task.             *)
CallersStep ==
  /\ CallersTyped' /\ callers'.classes = callers.classes
  /\ DOMAIN tasks' # {} \/ callers'.tasks > 0 => DOMAIN tasks # {} \/ callers.tasks > 0

LEMMA OperationStep ==
  ASSUME Sides, CallersTyped, RecordsListed, Operation, UNCHANGED records
  PROVE  Kept({}) /\ Stepped /\ CallersStep
<1>1. RecordsListed'
  BY DEF RecordsListed
<1>2. callers.workers \subseteq Workers /\ callers.durations \subseteq Nat
  BY DEF CallersTyped
<1>3. \A i \in DOMAIN records : i \in DOMAIN records'
  OBVIOUS
<1>4. MoveTypes
  BY DEF Sides, MoveSide
<1>5. ASSUME NEW w \in callers.workers, NEW d \in callers.durations, EnqueueTask(w, d)
      PROVE  Kept({}) /\ Stepped /\ CallersStep
  <2>1. Kept({})
    BY <1>2, <1>5, EnqueueTaskStep
  <2>2. Stepped
    BY <1>1, <2>1, KeptIsStepped
  <2>3. Call("tasks") /\ "tasks" \in Calls
    BY <1>5 DEF EnqueueTask, Calls
  <2> QED
    BY <2>1, <2>2, <2>3, CallFacts DEF CallersStep
<1>6. ASSUME NEW w \in callers.workers, NEW d \in callers.durations, MaterializeReplica(w, d)
      PROVE  Kept({}) /\ Stepped /\ CallersStep
  <2>1. Kept({})
    BY <1>2, <1>6, MaterializeReplicaStep
  <2>2. Stepped
    BY <1>1, <2>1, KeptIsStepped
  <2>3. Call("replicas") /\ "replicas" \in Calls /\ tasks' = tasks
    BY <1>6 DEF MaterializeReplica, Calls, taskVars
  <2> QED
    BY <2>1, <2>2, <2>3, CallFacts DEF CallersStep
<1>7. ASSUME NEW r \in DOMAIN replicas, NEW l \in DOMAIN Links, StartTransfer(r, l)
      PROVE  Kept({}) /\ Stepped /\ CallersStep
  <2>1. Kept({})
    BY <1>7, StartTransferStep
  <2>2. Stepped
    BY <1>1, <2>1, KeptIsStepped
  <2>3. Call("transfers") /\ "transfers" \in Calls /\ tasks' = tasks
    BY <1>7 DEF StartTransfer, Calls, taskVars
  <2> QED
    BY <2>1, <2>2, <2>3, CallFacts DEF CallersStep
<1>8. ASSUME NEW w \in callers.workers, NEW kind \in {"WORKER_FAILED", "WORKER_RECOVERED"}, FailOrRecover(w, kind)
      PROVE  Kept({}) /\ Stepped /\ CallersStep
  <2>1. w \in Workers /\ kind \in Kinds
    BY <1>2 DEF Kinds
  <2>2. /\ sim' = Scheduled(sim, <<AtOnce(sim, kind, w)>>)
        /\ UNCHANGED <<workers, taskVars, replicas, transfers>>
        /\ Call("failures") /\ "failures" \in Calls /\ tasks' = tasks
    BY <1>8 DEF FailOrRecover, Calls, taskVars
  <2>3. Kept({})
    BY <1>3, <2>1, <2>2, OrderedStep
  <2>4. Stepped
    BY <1>1, <2>3, KeptIsStepped
  <2> QED
    BY <2>2, <2>3, <2>4, CallFacts DEF CallersStep
<1>9. ASSUME NEW r \in DOMAIN replicas, NEW kind \in {"STATE_EVICTED", "STATE_LOST"}, EvictOrLose(r, kind)
      PROVE  Kept({}) /\ Stepped /\ CallersStep
  <2>1. r \in Nat /\ kind \in Kinds
    BY <1>4, MoveFacts DEF Kinds
  <2>2. /\ sim' = Scheduled(sim, <<AtOnce(sim, kind, r)>>)
        /\ UNCHANGED <<workers, taskVars, replicas, transfers>>
        /\ Call("removals") /\ "removals" \in Calls /\ tasks' = tasks
    BY <1>9 DEF EvictOrLose, Calls, taskVars
  <2>3. Kept({})
    BY <1>3, <2>1, <2>2, OrderedStep
  <2>4. Stepped
    BY <1>1, <2>3, KeptIsStepped
  <2> QED
    BY <2>2, <2>3, <2>4, CallFacts DEF CallersStep
<1> QED
  BY <1>5, <1>6, <1>7, <1>8, <1>9 DEF Operation, FailWorker, RecoverWorker, EvictReplica, LoseReplica

LEMMA HandledStep ==
  ASSUME Sides, CallersTyped, RecordsListed, RunNext, UNCHANGED records
  PROVE  Stepped /\ CallersStep
<1>1. RecordsListed'
  BY DEF RecordsListed
<1>2. Stepped
  BY <1>1, RunNextStep, KeptIsStepped
<1>3. DOMAIN tasks' = DOMAIN tasks /\ callers' = callers
  BY HandlersAreNoCallers DEF RunNext, Sides, TaskSide
<1> QED
  BY <1>2, <1>3 DEF CallersStep, CallersTyped

(* run(until) comes to its horizon.                                        *)
Waited ==
  /\ \E until \in Nat : Reaches(sim, until) /\ sim' = AtHorizon(sim, until)
  /\ UNCHANGED <<taskVars, workers, replicas, transfers, callers, raised>>

LEMMA WaitedMoves ==
  ASSUME EventsInv, Waited
  PROVE  /\ Moved(sim, sim', {}, {}, {}) /\ Pending(sim') = Pending(sim)
         /\ workers' = workers /\ tasks' = tasks /\ queues' = queues /\ active' = active
         /\ replicas' = replicas /\ transfers' = transfers /\ callers' = callers /\ raised' = raised
<1> DEFINE none == {}
<1>1. Moved(sim, sim', none, none, none)
  BY MovedOn DEF EventsInv, Waited
<1>2. Pending(sim') = {e \in Pending(sim) \ none : e.id \notin none} \cup none
  BY <1>1 DEF Moved
<1> QED
  BY <1>1, <1>2 DEF Waited, taskVars

LEMMA WaitedStep ==
  ASSUME Sides, CallersTyped, RecordsListed, Waited, UNCHANGED records
  PROVE  Stepped /\ CallersStep
<1>1. EventsInv /\ Moved(sim, sim', {}, {}, {}) /\ Pending(sim') = Pending(sim)
  BY WaitedMoves DEF Sides
<1>2. /\ workers' = workers /\ tasks' = tasks /\ queues' = queues /\ active' = active
      /\ replicas' = replicas /\ transfers' = transfers /\ callers' = callers
  BY <1>1, WaitedMoves
<1>3. EventsInv'
  <2>1. Grows
    BY <1>2 DEF Grows
  <2>2. Advance({}, {}, {})
    BY <1>1, <2>1 DEF Advance
  <2> QED
    BY <1>1, <2>2, EventsInvStep
<1>4. WorkerTypes' /\ MoveSide' /\ TaskSide'
  <2>1. WorkerTypes'
    BY <1>2 DEF Sides, WorkerTypes
  <2>2. UNCHANGED <<workers, taskVars>>
    BY <1>2 DEF taskVars
  <2> QED
    BY <1>2, <2>1, <2>2, MovesStay, TasksStay DEF Sides
<1>5. NobodyWaitsInVain /\ RunningTasksEnd => NobodyWaitsInVain' /\ RunningTasksEnd'
  BY <1>1, <1>2 DEF NobodyWaitsInVain, RunningTasksEnd
<1>6. RecordsListed' /\ CallersStep
  BY <1>2 DEF RecordsListed, CallersStep, CallersTyped
<1> QED
  BY <1>3, <1>4, <1>5, <1>6 DEF Stepped, Sides

(* A fault of a worker or a replica.                                       *)
LEMMA DelegatedStep ==
  ASSUME Sides, CallersTyped, RecordsListed, NEW class, NEW target, Delegated(class, target),
         \/ \E w \in Workers : FailWorker(w)
         \/ \E r \in DOMAIN replicas : EvictReplica(r) \/ LoseReplica(r)
  PROVE  Stepped /\ CallersStep
<1> DEFINE record == FaultRecord(class, [id |-> target, time |-> sim.now], sim.now,
                                 {<<"event", sim.next>>}, {}, NoAnchor)
<1>1. Recorded(record)
  BY DEF Delegated
<1> HIDE DEF record
<1>2. RecordsListed' /\ \A i \in DOMAIN records : i \in DOMAIN records'
  BY <1>1, RecordedFacts
<1>3. MoveTypes
  BY DEF Sides, MoveSide
<1>4. {"failures", "removals"} \subseteq Calls
  BY DEF Calls
<1>5. ASSUME NEW w \in Workers, NEW kind \in {"WORKER_FAILED"}, FailOrRecover(w, kind)
      PROVE  Stepped /\ CallersStep
  <2>1. w \in Workers /\ kind \in Kinds
    BY DEF Kinds
  <2>2. /\ sim' = Scheduled(sim, <<AtOnce(sim, kind, w)>>)
        /\ UNCHANGED <<workers, taskVars, replicas, transfers>> /\ tasks' = tasks
        /\ Call("failures")
    BY <1>5 DEF FailOrRecover, taskVars
  <2>3. Kept({})
    BY <1>2, <2>1, <2>2, OrderedStep
  <2>4. Stepped
    BY <1>2, <2>3, KeptIsStepped
  <2> QED
    BY <1>4, <2>2, <2>4, CallFacts DEF CallersStep
<1>6. ASSUME NEW r \in DOMAIN replicas, NEW kind \in {"STATE_EVICTED", "STATE_LOST"}, EvictOrLose(r, kind)
      PROVE  Stepped /\ CallersStep
  <2>1. r \in Nat /\ kind \in Kinds
    BY <1>3, MoveFacts DEF Kinds
  <2>2. /\ sim' = Scheduled(sim, <<AtOnce(sim, kind, r)>>)
        /\ UNCHANGED <<workers, taskVars, replicas, transfers>> /\ tasks' = tasks
        /\ Call("removals")
    BY <1>6 DEF EvictOrLose, taskVars
  <2>3. Kept({})
    BY <1>2, <2>1, <2>2, OrderedStep
  <2>4. Stepped
    BY <1>2, <2>3, KeptIsStepped
  <2> QED
    BY <1>4, <2>2, <2>4, CallFacts DEF CallersStep
<1> QED
  BY <1>5, <1>6 DEF FailWorker, EvictReplica, LoseReplica

(* Any fault, whoever asks for it.                                         *)
AnyFault ==
  \/ \E e \in Pending(sim) :
       \/ DropDelivery(e)
       \/ \E d \in Nat : DelayDelivery(e, d) \/ DuplicateDelivery(e, d)
       \/ \E anchor \in Pending(sim), d \in Nat : ReorderAfter(e, anchor, d)
  \/ \E w \in Workers : InjectWorkerFailure(w)
  \/ \E r \in DOMAIN replicas : InjectReplicaLoss(r) \/ InjectReplicaEviction(r)

LEMMA InjectedFault ==
  ASSUME CallersTyped, Inject
  PROVE  AnyFault
<1>1. callers.workers \subseteq Workers /\ Delays \subseteq Nat
  BY FaultAssumption DEF CallersTyped
<1> QED
  BY <1>1 DEF Inject, AnyFault

(* A dropped delivery may leave a task waiting.                            *)
LEMMA FaultKeepsSides ==
  ASSUME ResourceInv, AnyFault
  PROVE  /\ Sides' /\ RecordsListed' /\ CallersStep
         /\ Waiting => Waiting'
<1>1. Sides /\ CallersTyped /\ RecordsListed /\ DropsNoTask
  BY DEF ResourceInv, Sides
<1>2. /\ sim.now \in Nat
      /\ \A e \in Pending(sim) : e.time \in Nat /\ e.time >= sim.now
  <2>1. KernelInv(sim)
    BY <1>1 DEF Sides, EventsInv
  <2>2. \A e \in Pending(sim) : e.time \in Nat
    BY <2>1, KernelFacts
  <2> QED
    BY <2>1, <2>2, KernelFacts DEF KernelInv, HeapInv, Pending
<1>4. Stepped => Sides' /\ RecordsListed' /\ (Waiting => Waiting')
  BY DEF Stepped, Waiting, TasksAreDelivered
<1>5. OnlyDeliveries => CallersStep
  BY <1>1 DEF OnlyDeliveries, CallersStep, CallersTyped, taskVars
<1>6. ASSUME NEW e \in Pending(sim), DropDelivery(e)
      PROVE  Sides' /\ RecordsListed' /\ CallersStep /\ (Waiting => Waiting')
  <2>1. Sides' /\ RecordsListed' /\ (DOMAIN tasks = {} => NobodyWaitsInVain' /\ RunningTasksEnd')
    BY <1>1, <1>6, DropStep
  <2>2. OnlyDeliveries /\ "DELIVERY_DROP" \in callers.classes
    BY <1>6 DEF DropDelivery, Recorded, FaultRecord
  <2>3. TasksAreDelivered => DOMAIN tasks = {}
    BY <1>1, <2>2 DEF DropsNoTask
  <2> QED
    BY <1>5, <2>1, <2>2, <2>3 DEF Waiting, TasksAreDelivered
<1>7. ASSUME NEW e \in Pending(sim), NEW d \in Nat, DelayDelivery(e, d)
      PROVE  Stepped /\ OnlyDeliveries
  <2> DEFINE record == FaultRecord("DELIVERY_DELAY", e, e.time + d, {FaultEventId(e)}, {e.id}, NoAnchor)
             at == e.time + d
  <2>1. Recorded(record) /\ sim' = PutOff(e, at) /\ OnlyDeliveries
    BY <1>7 DEF DelayDelivery
  <2>2. at \in Nat /\ at >= sim.now
    BY <1>2
  <2> HIDE DEF record, at
  <2> QED
    BY <1>1, <2>1, <2>2, PutOffStep
<1>8. ASSUME NEW e \in Pending(sim), NEW d \in Nat, DuplicateDelivery(e, d)
      PROVE  Stepped /\ OnlyDeliveries
  <2> DEFINE record == FaultRecord("DELIVERY_DUPLICATE", e, e.time + d, {FaultEventId(e)}, {}, NoAnchor)
             at == e.time + d
  <2>1. Recorded(record) /\ sim' = Scheduled(sim, <<Redelivery(e, at)>>) /\ OnlyDeliveries
    BY <1>8 DEF DuplicateDelivery
  <2>2. at \in Nat /\ at >= sim.now
    BY <1>2
  <2> HIDE DEF record, at
  <2> QED
    BY <1>1, <2>1, <2>2, DuplicateStep
<1>9. ASSUME NEW e \in Pending(sim), NEW anchor \in Pending(sim), NEW d \in Nat, ReorderAfter(e, anchor, d)
      PROVE  Stepped /\ OnlyDeliveries
  <2> DEFINE record == FaultRecord("DELIVERY_REORDER", e, TimeAfter(e, anchor, d), {FaultEventId(e)}, {e.id},
                                   [id |-> anchor.id, time |-> anchor.time])
             at == TimeAfter(e, anchor, d)
  <2>1. Recorded(record) /\ sim' = PutOff(e, at) /\ OnlyDeliveries
    BY <1>9 DEF ReorderAfter
  <2>2. at \in Nat /\ at >= sim.now
    BY <1>2 DEF TimeAfter
  <2> HIDE DEF record, at
  <2> QED
    BY <1>1, <2>1, <2>2, PutOffStep
<1>10. ASSUME NEW class, NEW target, Delegated(class, target),
              \/ \E w \in Workers : FailWorker(w)
              \/ \E r \in DOMAIN replicas : EvictReplica(r) \/ LoseReplica(r)
       PROVE  Stepped /\ CallersStep
  BY <1>1, <1>10, DelegatedStep
<1> QED
  BY <1>4, <1>5, <1>6, <1>7, <1>8, <1>9, <1>10
     DEF AnyFault, InjectWorkerFailure, InjectReplicaLoss, InjectReplicaEviction

---------------------------------------------------------------------------
(* The invariant.                                                          *)
LEMMA InitiallyInvariant ==
  ASSUME FaultInit
  PROVE  ResourceInv
<1> USE DEF FaultInit, ResourceInit
<1>1. /\ sim.now = 0 /\ sim.queue = {} /\ sim.cancelled = {} /\ sim.known = {} /\ sim.next = 0
      /\ sim.trace = << >> /\ Pending(sim) = {} /\ History(sim) = {}
      /\ sim = [now |-> sim.now, queue |-> sim.queue, cancelled |-> sim.cancelled, known |-> sim.known,
                next |-> sim.next, trace |-> sim.trace]
  BY EmptyFacts DEF NewSimulator, Pending, History
<1>2. EventsInv
  <2>1. KernelInv(sim)
    <3>1. << >> \in Seq(Events(sim.known))
      BY EmptyFacts
    <3> QED
      BY <1>1, <3>1 DEF KernelInv, KernelTypes, HeapInv, TraceInv, Ids
  <2> QED
    BY <1>1, <2>1 DEF EventsInv, IdsUsed, SubjectsExist, CompletionsTell
<1>3. WorkerTypes
  BY DEF WorkerTypes
<1>4. CallersTyped
  BY TopologyAssumption, FaultAssumption DEF CallersTyped, Calls
<1>5. RecordsListed
  BY EmptyFacts DEF RecordsListed
<1>6. TaskSide
  <2>1. TaskTypes
    <3>1. << >> \in Seq(TaskRecords) /\ << >> \in Seq(DOMAIN tasks)
      BY EmptyFacts
    <3> QED
      BY <3>1 DEF TaskTypes
  <2>2. Slots
    BY TopologyAssumption, EmptyFacts DEF Slots, Lists
  <2> QED
    BY <2>1, <2>2 DEF TaskSide
<1>7. MoveSide
  <2>1. << >> \in Seq(ReplicaRecords) /\ << >> \in Seq(TransferRecords(DOMAIN replicas))
    BY EmptyFacts
  <2> QED
    BY <2>1 DEF MoveSide, MoveTypes, OneTransfer, AvailableIsReachable
<1>8. DropsNoTask
  BY DEF DropsNoTask, TasksAreDelivered
<1>9. Waiting
  BY DEF Waiting, NobodyWaitsInVain, RunningTasksEnd
<1> QED
  BY <1>2, <1>3, <1>4, <1>5, <1>6, <1>7, <1>8, <1>9 DEF ResourceInv

(* Whatever is asked of the simulator and of its faults, in any order: the *)
(* steps of FaultSpec are among these, and so are those of a campaign.     *)
AnyStep ==
  \/ AnyFault
  \/ (Operation \/ RunNext \/ Waited) /\ UNCHANGED records
  \/ UNCHANGED faultVars

LEMMA FaultStepIsAny ==
  ASSUME ResourceInv, [FaultNext]_faultVars
  PROVE  AnyStep
BY InjectedFault DEF ResourceInv, FaultNext, ResourceNext, AnyStep

LEMMA StepKeepsInvariant ==
  ASSUME ResourceInv, AnyStep
  PROVE  ResourceInv'
<1>1. Sides /\ CallersTyped /\ RecordsListed
  BY DEF ResourceInv, Sides
<1>2. Stepped => Sides' /\ RecordsListed' /\ (Waiting => Waiting')
  BY DEF Stepped, Waiting, TasksAreDelivered
<1>3. ASSUME ~UNCHANGED faultVars
      PROVE  Sides' /\ RecordsListed' /\ CallersStep /\ (Waiting => Waiting')
  <2>1. Operation /\ UNCHANGED records => Stepped /\ CallersStep
    BY <1>1, OperationStep
  <2>2. RunNext /\ UNCHANGED records => Stepped /\ CallersStep
    BY <1>1, HandledStep
  <2>3. Waited /\ UNCHANGED records => Stepped /\ CallersStep
    BY <1>1, WaitedStep
  <2>4. AnyFault => Sides' /\ RecordsListed' /\ CallersStep /\ (Waiting => Waiting')
    BY FaultKeepsSides
  <2> QED
    BY <1>2, <1>3, <2>1, <2>2, <2>3, <2>4 DEF AnyStep
<1>4. CASE ~UNCHANGED faultVars
  <2>1. DropsNoTask'
    BY <1>3, <1>4 DEF ResourceInv, DropsNoTask, CallersStep, TasksAreDelivered
  <2> QED
    BY <1>3, <1>4, <2>1 DEF ResourceInv, Sides, CallersStep
<1>5. CASE UNCHANGED faultVars
  <2>1. /\ sim' = sim /\ workers' = workers /\ tasks' = tasks /\ queues' = queues /\ active' = active
        /\ replicas' = replicas /\ transfers' = transfers /\ callers' = callers /\ records' = records
    BY <1>5 DEF faultVars, vars
  <2>2. EventsInv'
    BY <2>1 DEF ResourceInv, EventsInv, IdsUsed, IdUsed, MaterializationStarted, SubjectsExist, SubjectExists,
                CompletionsTell
  <2>3. WorkerTypes' /\ CallersTyped' /\ RecordsListed' /\ DropsNoTask'
    BY <2>1 DEF ResourceInv, WorkerTypes, CallersTyped, RecordsListed, DropsNoTask, TasksAreDelivered
  <2>4. TaskSide'
    BY <2>1, TasksStay DEF ResourceInv, taskVars
  <2>5. MoveSide'
    BY <2>1, <2>3, MovesStay DEF ResourceInv
  <2>6. Waiting'
    BY <2>1 DEF ResourceInv, Waiting, TasksAreDelivered, NobodyWaitsInVain, RunningTasksEnd
  <2> QED
    BY <2>2, <2>3, <2>4, <2>5, <2>6 DEF ResourceInv
<1> QED
  BY <1>4, <1>5

(* The events, the tasks with their slots and the replicas with their      *)
(* transfers agree with each other, whatever callers ask for and whatever  *)
(* deliveries faults delay, drop, copy or reorder.                         *)
THEOREM ResourceInvariant == FaultSpec => []ResourceInv
<1>1. FaultInit => ResourceInv
  BY InitiallyInvariant
<1>2. ResourceInv /\ [FaultNext]_faultVars => ResourceInv'
  BY FaultStepIsAny, StepKeepsInvariant
<1> QED
  BY <1>1, <1>2, PTL DEF FaultSpec

LEMMA SlotsAreRight ==
  ASSUME ResourceInv
  PROVE  SlotsMatchTasks
<1>1. TaskTypes /\ Slots /\ MoveTypes /\ WorkerTypes
  BY DEF ResourceInv, TaskSide, MoveSide
<1>2. ResourceTypeOK
  BY <1>1, TaskFacts, MoveFacts DEF ResourceTypeOK, WorkerTypes
<1>3. ASSUME NEW w \in Workers
      PROVE  /\ Len(active[w]) <= WorkerCapacity[w]
             /\ workers[w] = "DOWN" => active[w] = << >>
             /\ ToSet(active[w]) = {t \in DOMAIN tasks : tasks[t].worker = w /\ tasks[t].status = "RUNNING"}
             /\ ToSet(queues[w]) = {t \in DOMAIN tasks : tasks[t].worker = w /\ tasks[t].status = "QUEUED"}
             /\ Len(queues[w]) = Cardinality(ToSet(queues[w]))
  <2>1. /\ queues[w] \in Seq(DOMAIN tasks)
        /\ ToSet(active[w]) \subseteq DOMAIN tasks /\ ToSet(queues[w]) \subseteq DOMAIN tasks
    BY <1>1, TaskFacts
  <2>2. Lists(active[w], tasks, w, "RUNNING") /\ Lists(queues[w], tasks, w, "QUEUED")
    BY <1>1 DEF Slots
  <2>3. Len(queues[w]) = Cardinality(ToSet(queues[w]))
    BY <2>1, <2>2, OnceCounts DEF Lists
  <2>4. Len(active[w]) <= WorkerCapacity[w] /\ (workers[w] = "DOWN" => active[w] = << >>)
    BY <1>1 DEF Slots
  <2> QED
    BY <2>1, <2>2, <2>3, <2>4 DEF Lists
<1> QED
  BY <1>2, <1>3 DEF SlotsMatchTasks

(* No slot is overbooked, and each task is where its status says           *)
(* (_dispatch and the handlers that make room or take it away).            *)
THEOREM SlotsAlwaysMatch == FaultSpec => []SlotsMatchTasks
BY SlotsAreRight, ResourceInvariant, PTL

(* While the callers that use tasks drop no delivery, a task that can run  *)
(* will be started and a running one will end, through delays, copies,     *)
(* reorderings and failures.                                               *)
THEOREM TasksNeverForgotten ==
  ASSUME TasksAreDelivered
  PROVE  FaultSpec => []TasksAreNotForgotten
<1>1. ResourceInv => NobodyWaitsInVain /\ RunningTasksEnd
  BY DEF ResourceInv, Waiting
<1>2. SlotsMatchTasks /\ NobodyWaitsInVain /\ RunningTasksEnd => TasksAreNotForgotten
  BY DEF TasksAreNotForgotten
<1> QED
  BY <1>1, <1>2, ResourceInvariant, SlotsAlwaysMatch, PTL

(* An available replica is on a worker that is up, and a running transfer  *)
(* can go on (_on_worker_failed takes down what it must, and every handler *)
(* looks again before it acts).                                            *)
THEOREM ReachableStays == FaultSpec => []AvailableIsReachable
<1>1. ResourceInv => AvailableIsReachable
  BY DEF ResourceInv, MoveSide
<1> QED
  BY <1>1, ResourceInvariant, PTL

---------------------------------------------------------------------------
(* What the handler of e does to workers and replicas, and when it raises. *)
Told(e) ==
  /\ \A w \in Workers :
       /\ e.kind = "WORKER_FAILED" /\ e.subject = w => workers'[w] = "DOWN"
       /\ workers[w] = "DOWN" /\ workers'[w] # "DOWN" => e.kind = "WORKER_RECOVERED" /\ e.subject = w
  /\ e.kind = "STATE_LOST" => replicas'[e.subject].status = "LOST"
  /\ raised' => \/ raised
                \/ /\ e.kind = "STATE_MATERIALIZATION_STARTED"
                   /\ MaterializeComplete(e.subject) \in sim.known

Effects(e) == TasksEnded /\ ReplicasEnded /\ TransfersEnded /\ Told(e)

(* _dispatch starts tasks that are QUEUED.                                 *)
Startable(w, up, running) ==
  /\ up \in BOOLEAN /\ running \in Seq(DOMAIN tasks)
  /\ Len(running) <= WorkerCapacity[w] /\ (~up => running = << >>)

LEMMA DispatchChanges ==
  ASSUME TaskSide, NEW w \in Workers, NEW s, NEW up, NEW running, NEW known,
         Startable(w, up, running), Dispatch(w, s, up, running, known)
  PROVE  \A t \in DOMAIN tasks \cap DOMAIN known : tasks[t].status # "QUEUED" => tasks'[t] = known[t]
<1> DEFINE chosen == Started(w, up, queues[w], running)
<1>1. /\ queues[w] \in Seq(DOMAIN tasks)
      /\ Lists(queues[w], tasks, w, "QUEUED") /\ Once(queues[w])
  BY TaskFacts DEF TaskSide, Slots, Lists
<1>2. ToSet(chosen) \subseteq ToSet(queues[w])
  BY <1>1, StartedFacts DEF Startable, Fills
<1>3. tasks' = [t \in DOMAIN known |->
                  IF t \in ToSet(chosen)
                    THEN [known[t] EXCEPT !.status = "RUNNING", !.completion = TaskComplete(t)]
                    ELSE known[t]]
  BY Zenon DEF Dispatch
<1> HIDE DEF chosen
<1>4. ASSUME NEW t \in DOMAIN tasks, tasks[t].status # "QUEUED"
      PROVE  t \notin ToSet(chosen)
  BY <1>1, <1>2, <1>4 DEF Lists
<1>5. \A t \in DOMAIN known : t \notin ToSet(chosen) => tasks'[t] = known[t]
  BY <1>3, Zenon
<1> QED
  BY <1>4, <1>5

LEMMA IgnoredEffects ==
  ASSUME NEW s, Ignored(s), NEW e,
         e.kind = "WORKER_FAILED" => workers[e.subject] = "DOWN",
         e.kind = "STATE_LOST" => replicas[e.subject].status = "LOST"
  PROVE  Effects(e)
BY DEF Ignored, taskVars, Effects, TasksEnded, ReplicasEnded, TransfersEnded, Told

(* The handlers of the tasks' events and of recoveries.                    *)
LEMMA TaskEffects ==
  ASSUME Sides, NEW e, SubjectExists(e), NEW s, Handle(e, s),
         e.kind \in {"WORKER_TASK_ENQUEUED", "WORKER_TASK_COMPLETED", "WORKER_RECOVERED"}
  PROVE  Effects(e)
<1>1. /\ TaskSide /\ TaskTypes /\ Slots /\ WorkerTypes
      /\ \A w \in Workers : /\ active[w] \in Seq(DOMAIN tasks) /\ Len(active[w]) <= WorkerCapacity[w]
                            /\ Len(active[w]) \in Nat /\ WorkerCapacity[w] \in Nat
                            /\ workers[w] # "UP" => active[w] = << >>
  BY TaskFacts, TopologyAssumption DEF Sides, TaskSide, Slots, WorkerTypes
<1>2. UNCHANGED <<workers, replicas, transfers, raised>> /\ TasksEnded => Effects(e)
  BY DEF Effects, ReplicasEnded, TransfersEnded, Told
<1>3. CASE e.kind = "WORKER_TASK_ENQUEUED"
  <2> DEFINE w == e.subject
             up == workers[w] = "UP"
  <2>1. w \in Workers /\ OnTaskEnqueued(w, s)
    BY <1>3 DEF Handle, SubjectExists
  <2>2. Dispatch(w, s, up, active[w], tasks) /\ UNCHANGED <<workers, replicas, transfers, raised>>
    BY <2>1 DEF OnTaskEnqueued
  <2>3. \A t \in DOMAIN tasks : tasks[t].status # "QUEUED" => tasks'[t] = tasks[t]
    <3>1. up \in BOOLEAN /\ (~up => active[w] = << >>)
      BY <1>1, <2>1
    <3> HIDE DEF up, w
    <3> QED
      BY <1>1, <2>1, <2>2, <3>1, DispatchChanges DEF Startable
  <2> QED
    BY <1>2, <2>2, <2>3 DEF TasksEnded
<1>4. CASE e.kind = "WORKER_TASK_COMPLETED"
  <2> DEFINE t == e.subject
             w == tasks[t].worker
             up == workers[w] = "UP"
             running == RemoveFirst(active[w], t)
             known == [tasks EXCEPT ![t].status = "COMPLETED", ![t].completion = NoEvent]
  <2>1. t \in DOMAIN tasks /\ OnTaskCompleted(t, s) /\ w \in Workers
    BY <1>1, <1>4, TaskFacts DEF Handle, SubjectExists
  <2>2. CASE Ignored(s)
    BY <1>4, <2>2, IgnoredEffects
  <2>3. CASE /\ tasks[t].status = "RUNNING" /\ Dispatch(w, s, up, running, known)
             /\ UNCHANGED <<workers, replicas, transfers, raised>>
    <3>1. t \in ToSet(active[w]) /\ Once(active[w])
      BY <1>1, <2>1, <2>3 DEF Slots, Lists
    <3>2. running \in Seq(DOMAIN tasks) /\ Len(running) < Len(active[w]) /\ Len(running) \in Nat
      BY <1>1, <2>1, <3>1, OnceRemove
    <3>3. Len(running) <= WorkerCapacity[w] /\ up
      <4>1. Len(running) <= WorkerCapacity[w]
        BY <1>1, <2>1, <3>2
      <4>2. active[w] # << >>
        BY <3>1 DEF ToSet
      <4> QED
        BY <1>1, <2>1, <4>1, <4>2
    <3>4. DOMAIN known = DOMAIN tasks /\ \A u \in DOMAIN tasks : u # t => known[u] = tasks[u]
      OBVIOUS
    <3> HIDE DEF running, known, up
    <3>5. \A u \in DOMAIN tasks : tasks[u].status # "QUEUED" => tasks'[u] = known[u]
      <4>1. up \in BOOLEAN
        BY DEF up
      <4> HIDE DEF w, t
      <4>2. w \in Workers /\ Dispatch(w, s, up, running, known)
        BY <2>1, <2>3
      <4>3. Startable(w, up, running)
        BY <3>2, <3>3, <4>1 DEF Startable
      <4>4. \A u \in DOMAIN tasks \cap DOMAIN known : tasks[u].status # "QUEUED" => tasks'[u] = known[u]
        BY <1>1, <4>2, <4>3, DispatchChanges
      <4> QED
        BY <3>4, <4>4
    <3> QED
      BY <1>2, <2>3, <3>4, <3>5 DEF TasksEnded
  <2> QED
    BY <2>1, <2>2, <2>3 DEF OnTaskCompleted
<1>5. CASE e.kind = "WORKER_RECOVERED"
  <2> DEFINE w == e.subject
  <2>1. w \in Workers /\ OnWorkerRecovered(w, s)
    BY <1>5 DEF Handle, SubjectExists
  <2>2. CASE Ignored(s)
    BY <1>5, <2>2, IgnoredEffects
  <2>3. CASE /\ workers' = [workers EXCEPT ![w] = "UP"] /\ Dispatch(w, s, TRUE, active[w], tasks)
             /\ UNCHANGED <<replicas, transfers, raised>>
    <3>1. \A t \in DOMAIN tasks : tasks[t].status # "QUEUED" => tasks'[t] = tasks[t]
      <4> DEFINE up == TRUE
      <4>1. up \in BOOLEAN /\ (~up => active[w] = << >>) /\ Dispatch(w, s, up, active[w], tasks)
        BY <2>3
      <4> HIDE DEF up, w
      <4> QED
        BY <1>1, <2>1, <4>1, DispatchChanges DEF Startable
    <3>2. \A v \in Workers : v # w => workers'[v] = workers[v]
      BY <1>1, <2>3 DEF WorkerTypes
    <3> QED
      BY <1>5, <2>3, <3>1, <3>2 DEF Effects, TasksEnded, ReplicasEnded, TransfersEnded, Told
  <2> QED
    BY <2>1, <2>2, <2>3 DEF OnWorkerRecovered
<1> QED
  BY <1>3, <1>4, <1>5

(* _on_worker_failed ends what is running, present and under way, which    *)
(* has not ended.                                                          *)
LEMMA WorkerFailedEffects ==
  ASSUME Sides, NEW e, SubjectExists(e), NEW s, Handle(e, s), e.kind = "WORKER_FAILED"
  PROVE  Effects(e)
<1> DEFINE w == e.subject
<1>1. w \in Workers /\ OnWorkerFailed(w, s)
  BY DEF Handle, SubjectExists
<1>2. CASE workers[w] = "DOWN" /\ Ignored(s)
  BY <1>2, IgnoredEffects
<1>3. CASE FailsTasks(w) /\ FailsMoves(w) /\ UNCHANGED raised
  <2>1. TaskTypes /\ Slots /\ MoveTypes /\ WorkerTypes
    BY DEF Sides, TaskSide, MoveSide
  <2>2. TasksEnded
    <3>1. \A t \in DOMAIN tasks : tasks[t].status \in {"COMPLETED", "FAILED"} => t \notin ToSet(active[w])
      BY <1>1, <2>1 DEF Slots, Lists
    <3> QED
      BY <1>3, <3>1 DEF FailsTasks, TasksEnded
  <2>3. ReplicasEnded
    <3>1. \A r \in DOMAIN replicas : replicas[r].status \in {"EVICTED", "LOST"} => r \notin Present(w)
      BY DEF Present
    <3> QED
      BY <1>3, <3>1 DEF FailsMoves, ReplicasEnded
  <2>4. TransfersEnded
    <3>1. \A t \in DOMAIN transfers : transfers[t].status \in {"COMPLETED", "FAILED"} => t \notin Touching(w)
      BY DEF Touching, Unfinished
    <3>2. \A t \in DOMAIN transfers : t \notin Touching(w) => transfers'[t] = transfers[t]
      BY <1>3, <2>1, FailedTransfers DEF FailsMoves
    <3> QED
      BY <3>1, <3>2 DEF TransfersEnded
  <2>5. Told(e)
    BY <1>1, <1>3, <2>1 DEF FailsTasks, WorkerTypes, Told
  <2> QED
    BY <2>2, <2>3, <2>4, <2>5 DEF Effects
<1> QED
  BY <1>1, <1>2, <1>3 DEF OnWorkerFailed, FailsTasks, FailsMoves

(* A handler that changes one replica and leaves the rest alone.           *)
LEMMA ReplicaEffects ==
  ASSUME MoveTypes, NEW r \in DOMAIN replicas, NEW status, NEW completion,
         replicas' = [replicas EXCEPT ![r].status = status, ![r].completion = completion],
         replicas[r].status = "LOST" => UNCHANGED replicas,
         replicas[r].status = "EVICTED" => status \in {"EVICTED", "LOST"}
  PROVE  ReplicasEnded /\ replicas'[r].status = status
<1>1. \A q \in DOMAIN replicas : q # r => replicas'[q] = replicas[q]
  OBVIOUS
<1>2. replicas'[r].status = status
  BY MoveFacts DEF ReplicaRecords
<1> QED
  BY <1>1, <1>2 DEF ReplicasEnded

LEMMA MaterializingEffects ==
  ASSUME Sides, NEW e, SubjectExists(e), NEW s, s.now \in Nat, s.known = sim.known, Handle(e, s),
         e.kind \in {"STATE_MATERIALIZATION_STARTED", "STATE_MATERIALIZED"}
  PROVE  Effects(e)
<1> DEFINE r == e.subject
<1>1. r \in DOMAIN replicas /\ MoveTypes
  BY DEF SubjectExists, Sides, MoveSide
<1>2. /\ UNCHANGED <<workers, tasks, transfers>> /\ ReplicasEnded
      /\ raised' => raised \/ (e.kind = "STATE_MATERIALIZATION_STARTED" /\ MaterializeComplete(r) \in sim.known)
      => Effects(e)
  BY DEF Effects, TasksEnded, TransfersEnded, Told
<1>3. CASE Ignored(s)
  BY <1>3, IgnoredEffects
<1>4. ASSUME replicas[r].status = "MATERIALIZING", LostWithWorker(r, s) PROVE Effects(e)
  <2>1. ReplicasEnded
    BY <1>1, <1>4, ReplicaEffects DEF LostWithWorker
  <2> QED
    BY <1>2, <1>4, <2>1 DEF LostWithWorker, taskVars
<1>5. CASE e.kind = "STATE_MATERIALIZED"
  <2>1. OnStateMaterialized(r, s)
    BY <1>5 DEF Handle
  <2>2. CASE /\ replicas[r].status = "MATERIALIZING"
             /\ replicas' = [replicas EXCEPT ![r].status = "AVAILABLE", ![r].completion = NoEvent]
             /\ UNCHANGED <<workers, taskVars, transfers, raised>>
    <3>1. ReplicasEnded
      BY <1>1, <2>2, ReplicaEffects
    <3> QED
      BY <1>2, <2>2, <3>1 DEF taskVars
  <2> QED
    BY <1>3, <1>4, <2>1, <2>2 DEF OnStateMaterialized
<1>6. CASE e.kind = "STATE_MATERIALIZATION_STARTED"
  <2> DEFINE completion == Order("STATE_MATERIALIZED", s.now + replicas[r].duration, MaterializeComplete(r), r)
  <2>1. OnMaterializationStarted(r, s)
    BY <1>6 DEF Handle
  <2>2. CASE /\ replicas[r].status = "MATERIALIZING"
             /\ replicas' = [replicas EXCEPT ![r].completion = MaterializeComplete(r)]
             /\ UNCHANGED <<workers, taskVars, transfers, raised>>
    <3>1. \A q \in DOMAIN replicas : q # r => replicas'[q] = replicas[q]
      BY <2>2
    <3>2. ReplicasEnded
      BY <2>2, <3>1 DEF ReplicasEnded
    <3> QED
      BY <1>2, <2>2, <3>2 DEF taskVars
  <2>3. CASE ~Schedulable(s, completion) /\ UNCHANGED <<workers, taskVars, replicas, transfers>>
    <3>1. MaterializeComplete(r) # NoId /\ completion.id = MaterializeComplete(r)
          /\ completion.at = s.now + replicas[r].duration
      BY DEF MaterializeComplete, NoId, Order
    <3>2. completion.at >= s.now
      BY <1>1, <3>1, MoveFacts
    <3> HIDE DEF completion
    <3>3. MaterializeComplete(r) \in sim.known
      BY <2>3, <3>1, <3>2 DEF Schedulable, ActualId
    <3>4. ReplicasEnded
      BY <2>3 DEF ReplicasEnded
    <3> QED
      BY <1>2, <1>6, <2>3, <3>3, <3>4 DEF taskVars
  <2> QED
    BY <1>3, <1>4, <2>1, <2>2, <2>3 DEF OnMaterializationStarted
<1> QED
  BY <1>5, <1>6

(* A transfer that ends or starts was not over.                            *)
LEMMA TransferEffects ==
  ASSUME Sides, NEW e, SubjectExists(e), NEW s, Handle(e, s),
         e.kind \in {"STATE_TRANSFER_STARTED", "STATE_TRANSFER_COMPLETED"}
  PROVE  Effects(e)
<1> DEFINE t == e.subject
<1>1. t \in DOMAIN transfers /\ MoveTypes
  BY DEF SubjectExists, Sides, MoveSide
<1>2. UNCHANGED <<workers, tasks, raised>> /\ ReplicasEnded /\ TransfersEnded => Effects(e)
  BY DEF Effects, TasksEnded, Told
<1>3. CASE Ignored(s)
  BY <1>3, IgnoredEffects
<1>4. ASSUME Unfinished(t), FailTransfer(t, s) PROVE Effects(e)
  <2>1. \A u \in DOMAIN transfers : u # t => transfers'[u] = transfers[u]
    BY <1>4 DEF FailTransfer, Failed
  <2>2. TransfersEnded /\ ReplicasEnded
    BY <1>4, <2>1 DEF TransfersEnded, ReplicasEnded, FailTransfer, Unfinished
  <2> QED
    BY <1>2, <1>4, <2>2 DEF FailTransfer, taskVars
<1>5. CASE e.kind = "STATE_TRANSFER_STARTED"
  <2>1. OnTransferStarted(t, s)
    BY <1>5 DEF Handle
  <2>2. CASE /\ transfers[t].status = "SCHEDULED"
             /\ transfers' = [transfers EXCEPT ![t].status = "RUNNING", ![t].completion = TransferComplete(t)]
             /\ UNCHANGED <<workers, taskVars, replicas, raised>>
    <3>1. \A u \in DOMAIN transfers : u # t => transfers'[u] = transfers[u]
      BY <2>2
    <3>2. TransfersEnded /\ ReplicasEnded
      BY <2>2, <3>1 DEF TransfersEnded, ReplicasEnded
    <3> QED
      BY <1>2, <2>2, <3>2 DEF taskVars
  <2> QED
    BY <1>3, <1>4, <2>1, <2>2 DEF OnTransferStarted, Unfinished
<1>6. CASE e.kind = "STATE_TRANSFER_COMPLETED"
  <2>1. OnTransferCompleted(t, s)
    BY <1>6 DEF Handle
  <2>2. CASE /\ transfers[t].status = "RUNNING" /\ Sound(t)
             /\ replicas' = [replicas EXCEPT ![transfers[t].replica].location = Destination(t)]
             /\ transfers' = [transfers EXCEPT ![t].status = "COMPLETED", ![t].completion = NoEvent]
             /\ UNCHANGED <<workers, taskVars, raised>>
    <3>1. \A u \in DOMAIN transfers : u # t => transfers'[u] = transfers[u]
      BY <2>2
    <3>2. /\ replicas[transfers[t].replica].status = "AVAILABLE"
          /\ \A q \in DOMAIN replicas : q # transfers[t].replica => replicas'[q] = replicas[q]
      BY <2>2 DEF Sound
    <3>3. TransfersEnded /\ ReplicasEnded
      BY <2>2, <3>1, <3>2 DEF TransfersEnded, ReplicasEnded
    <3> QED
      BY <1>2, <2>2, <3>3 DEF taskVars
  <2> QED
    BY <1>3, <1>4, <2>1, <2>2 DEF OnTransferCompleted, Unfinished
<1> QED
  BY <1>5, <1>6

(* _on_state_evicted, _on_state_lost.                                      *)
LEMMA StateGoneEffects ==
  ASSUME Sides, NEW e, SubjectExists(e), NEW s, Handle(e, s), e.kind \in {"STATE_EVICTED", "STATE_LOST"}
  PROVE  Effects(e)
<1> DEFINE r == e.subject
           moving == {t \in DOMAIN transfers : transfers[t].replica = r /\ Unfinished(t)}
<1>1. r \in DOMAIN replicas /\ MoveTypes
  BY DEF SubjectExists, Sides, MoveSide
<1>2. PICK status \in {"EVICTED", "LOST"} :
        OnStateGone(r, s, status) /\ (e.kind = "STATE_LOST" => status = "LOST")
  BY DEF Handle
<1>3. CASE replicas[r].status = "LOST" /\ Ignored(s)
  BY <1>3, IgnoredEffects
<1>4. CASE /\ replicas[r].status # "LOST"
           /\ replicas' = [replicas EXCEPT ![r].status = status, ![r].completion = NoEvent]
           /\ transfers' = Failed(moving)
           /\ UNCHANGED <<workers, taskVars, raised>>
  <2>1. ReplicasEnded /\ replicas'[r].status = status
    BY <1>1, <1>4, ReplicaEffects
  <2>2. \A t \in DOMAIN transfers : t \notin moving => transfers'[t] = transfers[t]
    BY <1>1, <1>4, FailedTransfers
  <2>3. TransfersEnded
    BY <2>2 DEF TransfersEnded, Unfinished
  <2>4. TasksEnded /\ Told(e)
    BY <1>2, <1>4, <2>1 DEF TasksEnded, Told, taskVars
  <2> QED
    BY <2>1, <2>3, <2>4 DEF Effects
<1> QED
  BY <1>2, <1>3, <1>4 DEF OnStateGone

LEMMA HandleEffects ==
  ASSUME Sides, NEW e, SubjectExists(e), NEW s, s.now \in Nat, s.known = sim.known, Handle(e, s)
  PROVE  Effects(e)
<1>1. CASE e.kind \in {"WORKER_TASK_ENQUEUED", "WORKER_TASK_COMPLETED", "WORKER_RECOVERED"}
  BY <1>1, TaskEffects
<1>2. CASE e.kind = "WORKER_FAILED"
  BY <1>2, WorkerFailedEffects
<1>3. CASE e.kind \in {"STATE_MATERIALIZATION_STARTED", "STATE_MATERIALIZED"}
  BY <1>3, MaterializingEffects
<1>4. CASE e.kind \in {"STATE_TRANSFER_STARTED", "STATE_TRANSFER_COMPLETED"}
  BY <1>4, TransferEffects
<1>5. CASE e.kind \in {"STATE_EVICTED", "STATE_LOST"}
  BY <1>5, StateGoneEffects
<1>6. CASE e.kind \notin {"WORKER_TASK_ENQUEUED", "WORKER_TASK_COMPLETED", "WORKER_FAILED", "WORKER_RECOVERED",
                          "STATE_MATERIALIZATION_STARTED", "STATE_MATERIALIZED", "STATE_TRANSFER_STARTED",
                          "STATE_TRANSFER_COMPLETED", "STATE_EVICTED", "STATE_LOST"}
  <2>1. Ignored(s)
    BY <1>6 DEF Handle
  <2> QED
    BY <1>6, <2>1, IgnoredEffects
<1> QED
  BY <1>1, <1>2, <1>3, <1>4, <1>5, <1>6

(* The callers' operations append or leave alone.                          *)
LEMMA OperationEffects ==
  ASSUME Sides, Operation
  PROVE  /\ TasksEnded /\ ReplicasEnded /\ TransfersEnded
         /\ workers' = workers /\ raised' = raised
         /\ \A r \in DOMAIN replicas : replicas'[r] = replicas[r]
<1>1. TaskTypes /\ MoveTypes
  BY DEF Sides, TaskSide, MoveSide
<1>2. \A new : tasks' = Append(tasks, new) => \A t \in DOMAIN tasks : tasks'[t] = tasks[t]
  BY <1>1, TaskFacts
<1>3. \A new : replicas' = Append(replicas, new) => \A r \in DOMAIN replicas : replicas'[r] = replicas[r]
  BY <1>1, MoveFacts
<1>4. \A new : transfers' = Append(transfers, new) => \A t \in DOMAIN transfers : transfers'[t] = transfers[t]
  BY <1>1, MoveFacts
<1>5. /\ workers' = workers /\ raised' = raised
      /\ tasks' = tasks \/ \E new : tasks' = Append(tasks, new)
      /\ replicas' = replicas \/ \E new : replicas' = Append(replicas, new)
      /\ transfers' = transfers \/ \E new : transfers' = Append(transfers, new)
  BY DEF Operation, EnqueueTask, MaterializeReplica, FailWorker, RecoverWorker, FailOrRecover, StartTransfer,
         EvictReplica, LoseReplica, EvictOrLose, taskVars
<1>6. /\ \A t \in DOMAIN tasks : tasks'[t] = tasks[t]
      /\ \A r \in DOMAIN replicas : replicas'[r] = replicas[r]
      /\ \A t \in DOMAIN transfers : transfers'[t] = transfers[t]
  BY <1>2, <1>3, <1>4, <1>5
<1> QED
  BY <1>5, <1>6 DEF TasksEnded, ReplicasEnded, TransfersEnded

(* The faults change deliveries only.                                      *)
LEMMA FaultEffects ==
  ASSUME AnyFault
  PROVE  workers' = workers /\ tasks' = tasks /\ replicas' = replicas /\ transfers' = transfers /\ raised' = raised
BY DEF AnyFault, DropDelivery, DelayDelivery, DuplicateDelivery, ReorderAfter, OnlyDeliveries, InjectWorkerFailure,
       InjectReplicaLoss, InjectReplicaEviction, FailWorker, FailOrRecover, EvictReplica, LoseReplica, EvictOrLose,
       taskVars

(* What the executed event does.                                           *)
LEMMA RunEffects ==
  ASSUME Sides, UNCHANGED records, RunNext
  PROVE  \E e \in Pending(sim) : Kept({e}) /\ Effects(e)
<1>1. PICK e \in sim.queue : IsEarliest(sim, e) /\ Handle(e, Popped(sim, e))
  BY DEF RunNext
<1> DEFINE s == Popped(sim, e)
<1>2. KernelInv(sim)
  BY DEF Sides, EventsInv
<1>3. Moved(sim, s, {e}, {}, {})
  BY <1>1, <1>2, MovedPop
<1>4. e \in Pending(sim)
  BY <1>1 DEF IsEarliest
<1>5. SubjectExists(e)
  BY <1>4 DEF Sides, EventsInv, SubjectsExist, History
<1>6. Handle(e, s)
  BY <1>1
<1> HIDE DEF s
<1>7. Kept({e})
  BY <1>3, <1>5, <1>6, HandleStep
<1>8. s.now \in Nat /\ s.known = sim.known
  BY <1>3, KernelFacts DEF Moved, Ids
<1>9. Effects(e)
  BY <1>5, <1>6, <1>8, HandleEffects
<1> QED
  BY <1>4, <1>7, <1>9

(* What has ended stays as it is: no completion, copy or late arrival      *)
(* brings a replica, a task or a transfer back (the status is looked at    *)
(* first in every handler).                                                *)
LEMMA EndingsStep ==
  ASSUME ResourceInv, AnyStep
  PROVE  TasksEnded /\ ReplicasEnded /\ TransfersEnded
<1>1. Sides
  BY DEF ResourceInv, Sides
<1>2. CASE AnyFault
  BY <1>2, FaultEffects DEF TasksEnded, ReplicasEnded, TransfersEnded
<1>3. CASE Operation
  BY <1>1, <1>3, OperationEffects
<1>4. CASE RunNext /\ UNCHANGED records
  BY <1>1, <1>4, RunEffects DEF Effects
<1>5. CASE Waited
  BY <1>1, <1>5, WaitedMoves DEF Sides, TasksEnded, ReplicasEnded, TransfersEnded
<1>6. CASE UNCHANGED faultVars
  BY <1>6 DEF faultVars, vars, TasksEnded, ReplicasEnded, TransfersEnded
<1> QED
  BY <1>2, <1>3, <1>4, <1>5, <1>6 DEF AnyStep

THEOREM EndingsStay == FaultSpec => EndingsAreFinal
<1>1. ResourceInv /\ [FaultNext]_faultVars =>
        [Len(sim'.trace) < Len(sim.trace) \/ (TasksEnded /\ ReplicasEnded /\ TransfersEnded)]_vars
  BY FaultStepIsAny, EndingsStep
<1> QED
  BY <1>1, ResourceInvariant, PTL DEF FaultSpec, EndingsAreFinal

---------------------------------------------------------------------------
(* Failures, losses, starts and raises, from one state to the next.        *)
LEMMA TraceFacts ==
  ASSUME EventsInv, NEW run, NEW gone, NEW new, Moved(sim, sim', run, gone, new)
  PROVE  /\ DOMAIN sim.trace = 1..Len(sim.trace) /\ Len(sim.trace) \in Nat
         /\ DOMAIN sim'.trace = 1..Len(sim'.trace) /\ Len(sim'.trace) \in Nat
         /\ Len(sim.trace) <= Len(sim'.trace)
         /\ \A j \in DOMAIN sim.trace : j \in DOMAIN sim'.trace /\ sim'.trace[j] = sim.trace[j]
         /\ \A j \in DOMAIN sim'.trace \ DOMAIN sim.trace : run = {sim'.trace[j]}
         /\ run # {} => /\ Len(sim.trace) + 1 \in DOMAIN sim'.trace
                        /\ run = {sim'.trace[Len(sim.trace) + 1]}
         /\ \A j \in DOMAIN sim.trace : sim.trace[j] \in History(sim)
<1>1. KernelInv(sim) /\ KernelInv(sim')
  BY DEF EventsInv, Moved
<1>2. /\ DOMAIN sim.trace = 1..Len(sim.trace) /\ Len(sim.trace) \in Nat
      /\ DOMAIN sim'.trace = 1..Len(sim'.trace) /\ Len(sim'.trace) \in Nat
  BY <1>1, KernelFacts
<1>3. /\ DOMAIN sim.trace \subseteq DOMAIN sim'.trace
      /\ \A j \in DOMAIN sim.trace : sim'.trace[j] = sim.trace[j]
      /\ \A j \in DOMAIN sim'.trace \ DOMAIN sim.trace : j = Len(sim.trace) + 1 /\ run = {sim'.trace[j]}
      /\ ToSet(sim'.trace) = ToSet(sim.trace) \cup run /\ run \subseteq Pending(sim)
  BY <1>1, MovedHistory
<1>4. Len(sim.trace) <= Len(sim'.trace)
  BY <1>2, <1>3
<1>5. ASSUME NEW e \in run PROVE Len(sim.trace) + 1 \in DOMAIN sim'.trace
  <2>1. PICK j \in DOMAIN sim'.trace : sim'.trace[j] = e
    BY <1>3 DEF ToSet
  <2>2. j \notin DOMAIN sim.trace
    <3>1. \A i \in DOMAIN sim.trace : sim.trace[i] # e
      <4>1. e \in sim.queue
        BY <1>1, <1>3, KernelFacts
      <4> QED
        BY <1>1, <4>1 DEF KernelInv, TraceInv
    <3> QED
      BY <1>3, <2>1, <3>1
  <2> QED
    BY <1>3, <2>1, <2>2
<1>6. \A j \in DOMAIN sim.trace : sim.trace[j] \in History(sim)
  BY DEF History, ToSet
<1>7. Len(sim.trace) + 1 \notin DOMAIN sim.trace
  BY <1>2
<1> QED
  BY <1>2, <1>3, <1>4, <1>5, <1>6, <1>7

LEMMA LastStays ==
  ASSUME EventsInv, FailuresLast, LossesLast, sim'.trace = sim.trace, workers' = workers,
         \A r \in DOMAIN replicas : replicas'[r] = replicas[r]
  PROVE  FailuresLast' /\ LossesLast'
<1>1. FailuresLast'
  BY DEF FailuresLast
<1>2. \A j \in DOMAIN sim.trace : sim.trace[j].kind = "STATE_LOST" => sim.trace[j].subject \in DOMAIN replicas
  BY DEF EventsInv, SubjectsExist, SubjectExists, History, ToSet
<1> QED
  BY <1>1, <1>2 DEF LossesLast

LEMMA LastStep ==
  ASSUME EventsInv, WorkerTypes, FailuresLast, LossesLast,
         NEW e \in Pending(sim), NEW gone, NEW new, Moved(sim, sim', {e}, gone, new), Effects(e)
  PROVE  FailuresLast' /\ LossesLast'
<1> DEFINE n == Len(sim.trace) + 1
<1>1. /\ DOMAIN sim.trace = 1..Len(sim.trace) /\ Len(sim.trace) \in Nat
      /\ DOMAIN sim'.trace = 1..Len(sim'.trace) /\ Len(sim'.trace) \in Nat
      /\ Len(sim.trace) <= Len(sim'.trace)
      /\ \A j \in DOMAIN sim.trace : j \in DOMAIN sim'.trace /\ sim'.trace[j] = sim.trace[j]
      /\ \A j \in DOMAIN sim'.trace \ DOMAIN sim.trace : sim'.trace[j] = e
      /\ n \in DOMAIN sim'.trace /\ sim'.trace[n] = e
  <2> DEFINE run == {e}
  <2>1. Moved(sim, sim', run, gone, new) /\ run # {}
    OBVIOUS
  <2> HIDE DEF run
  <2>2. /\ DOMAIN sim.trace = 1..Len(sim.trace) /\ Len(sim.trace) \in Nat
        /\ DOMAIN sim'.trace = 1..Len(sim'.trace) /\ Len(sim'.trace) \in Nat
        /\ Len(sim.trace) <= Len(sim'.trace)
        /\ \A j \in DOMAIN sim.trace : j \in DOMAIN sim'.trace /\ sim'.trace[j] = sim.trace[j]
        /\ \A j \in DOMAIN sim'.trace \ DOMAIN sim.trace : run = {sim'.trace[j]}
        /\ n \in DOMAIN sim'.trace /\ run = {sim'.trace[n]}
    BY <2>1, TraceFacts
  <2> QED
    BY <2>2 DEF run
<1>2. /\ SubjectExists(e)
      /\ \A j \in DOMAIN sim.trace : SubjectExists(sim.trace[j])
  BY DEF EventsInv, SubjectsExist, History, ToSet
<1> HIDE DEF n
<1>3. ASSUME NEW j \in DOMAIN sim'.trace, sim'.trace[j].kind = "WORKER_FAILED",
             workers'[sim'.trace[j].subject] # "DOWN"
      PROVE  \E k \in j + 1 .. Len(sim'.trace) :
               sim'.trace[k].kind = "WORKER_RECOVERED" /\ sim'.trace[k].subject = sim'.trace[j].subject
  <2> DEFINE w == sim'.trace[j].subject
  <2>1. j \in DOMAIN sim.trace /\ w \in Workers /\ sim'.trace[j] = sim.trace[j]
    <3>1. CASE j \in DOMAIN sim.trace
      BY <1>1, <1>2, <1>3, <3>1 DEF SubjectExists
    <3>2. CASE j \notin DOMAIN sim.trace
      <4>1. sim'.trace[j] = e
        BY <1>1, <3>2
      <4> QED
        BY <1>2, <1>3, <4>1 DEF SubjectExists, Effects, Told
    <3> QED
      BY <3>1, <3>2
  <2>2. CASE workers[w] # "DOWN"
    <3>1. PICK k \in j + 1 .. Len(sim.trace) :
            sim.trace[k].kind = "WORKER_RECOVERED" /\ sim.trace[k].subject = sim.trace[j].subject
      BY <1>3, <2>1, <2>2 DEF FailuresLast
    <3>2. k \in DOMAIN sim.trace /\ k \in j + 1 .. Len(sim'.trace)
      BY <1>1, <2>1
    <3> QED
      BY <1>1, <2>1, <3>1, <3>2
  <2>3. CASE workers[w] = "DOWN"
    <3>1. e.kind = "WORKER_RECOVERED" /\ e.subject = w
      BY <1>3, <2>1, <2>3 DEF Effects, Told
    <3>2. n \in j + 1 .. Len(sim'.trace)
      BY <1>1, <2>1 DEF n
    <3> QED
      BY <1>1, <3>1, <3>2
  <2> QED
    BY <2>2, <2>3
<1>4. ASSUME NEW j \in DOMAIN sim'.trace, sim'.trace[j].kind = "STATE_LOST"
      PROVE  replicas'[sim'.trace[j].subject].status = "LOST"
  <2>1. CASE j \in DOMAIN sim.trace
    <3>1. sim.trace[j].subject \in DOMAIN replicas /\ replicas[sim.trace[j].subject].status = "LOST"
      BY <1>1, <1>2, <1>4, <2>1 DEF LossesLast, SubjectExists
    <3> QED
      BY <1>1, <2>1, <3>1 DEF Effects, ReplicasEnded
  <2>2. CASE j \notin DOMAIN sim.trace
    BY <1>1, <1>4, <2>2 DEF Effects, Told
  <2> QED
    BY <2>1, <2>2
<1> QED
  BY <1>3, <1>4 DEF FailuresLast, LossesLast

LEMMA StartsStep ==
  ASSUME EventsInv, StartedOnce, Copied => Copied', NEW run, NEW gone, NEW new,
         Moved(sim, sim', run, gone, new), StartsNew(new)
  PROVE  StartedOnce'
<1> SUFFICES ASSUME ~Copied, NEW e \in History(sim'), NEW f \in History(sim'), NEW r \in DOMAIN replicas',
                    Starts(e, r), Starts(f, r)
             PROVE  e = f
  BY DEF StartedOnce, Starts
<1>1. e \in History(sim) \cup new /\ f \in History(sim) \cup new
  BY MovedHistory DEF EventsInv
<1>2. \A g \in History(sim) : Starts(g, r) => r \in DOMAIN replicas
  BY DEF EventsInv, SubjectsExist, SubjectExists, Starts
<1>3. \A g \in new : Starts(g, r) => r \notin DOMAIN replicas /\ new = {g}
  BY DEF StartsNew, Starts
<1>4. CASE r \in DOMAIN replicas
  BY <1>1, <1>3, <1>4 DEF StartedOnce
<1>5. CASE r \notin DOMAIN replicas
  BY <1>1, <1>2, <1>3, <1>5
<1> QED
  BY <1>4, <1>5

(* The completion of a start was scheduled by an earlier one.              *)
LEMMA RaisesStep ==
  ASSUME EventsInv, StartedOnce, RaisesOnlyOnCopies, UNCHANGED records,
         NEW e \in Pending(sim), NEW gone, NEW new, Moved(sim, sim', {e}, gone, new), Effects(e)
  PROVE  RaisesOnlyOnCopies'
<1> DEFINE n == Len(sim.trace) + 1
           run == {e}
<1>1. KernelInv(sim) /\ Moved(sim, sim', run, gone, new) /\ run # {}
  BY DEF EventsInv
<1> HIDE DEF run
<1>2. /\ DOMAIN sim.trace = 1..Len(sim.trace) /\ Len(sim.trace) \in Nat
      /\ \A j \in DOMAIN sim.trace : /\ j \in DOMAIN sim'.trace /\ sim'.trace[j] = sim.trace[j]
                                     /\ sim.trace[j] \in History(sim)
      /\ n \in DOMAIN sim'.trace /\ run = {sim'.trace[n]}
  BY <1>1, TraceFacts
<1>3. sim'.trace[n] = e /\ \A j \in DOMAIN sim.trace : j < n
  BY <1>2 DEF run
<1> HIDE DEF n
<1>4. CASE raised
  BY <1>2, <1>4 DEF RaisesOnlyOnCopies
<1>5. CASE e.kind = "STATE_MATERIALIZATION_STARTED" /\ MaterializeComplete(e.subject) \in sim.known
  <2> DEFINE r == e.subject
  <2>1. MaterializationStarted(r)
    BY <1>5 DEF EventsInv, IdsUsed, IdUsed, MaterializeComplete
  <2>2. PICK j \in DOMAIN sim.trace :
          sim.trace[j].kind = "STATE_MATERIALIZATION_STARTED" /\ sim.trace[j].subject = r
    BY <2>1 DEF MaterializationStarted
  <2>3. /\ j \in DOMAIN sim'.trace /\ n \in DOMAIN sim'.trace /\ j < n
        /\ sim'.trace[j].subject = sim'.trace[n].subject
        /\ {sim'.trace[j].kind, sim'.trace[n].kind} = {"STATE_MATERIALIZATION_STARTED"}
    BY <1>2, <1>3, <1>5, <2>2
  <2>4. Copied
    <3>1. e \in History(sim) /\ r \in DOMAIN replicas
      BY <1>5 DEF History, EventsInv, SubjectsExist, SubjectExists
    <3>2. sim.trace[j] # e
      BY <1>1, KernelFacts DEF KernelInv, TraceInv
    <3> QED
      BY <1>2, <1>5, <2>2, <3>1, <3>2 DEF StartedOnce, Starts
  <2> QED
    BY <2>3, <2>4 DEF RaisesOnlyOnCopies, Copied
<1> QED
  BY <1>4, <1>5 DEF Effects, Told, RaisesOnlyOnCopies

LEMMA RaisesStay ==
  ASSUME RaisesOnlyOnCopies, Copied => Copied', sim'.trace = sim.trace, raised' = raised
  PROVE  RaisesOnlyOnCopies'
BY DEF RaisesOnlyOnCopies, Copied

---------------------------------------------------------------------------
(* The records of the faults, from one state to the next.                  *)
LEMMA HistoryIds ==
  ASSUME NEW s, KernelInv(s), NEW t, NEW run, NEW gone, NEW new, Moved(s, t, run, gone, new)
  PROVE  /\ Ids(History(s)) \subseteq s.known
         /\ \A e \in History(t) : e \in History(s) \/ (e \in new /\ e.id \notin s.known)
         /\ \A id \in Ids(History(s)) : id \in Ids(History(t)) \/ id \in gone
         /\ new \subseteq History(t)
<1>1. \A e \in History(s) : e.id \in s.known
  BY KernelFacts DEF History, ToSet
<1>2. \A e \in new : e.id \notin s.known
  BY DEF Moved, Ids
<1>3. History(t) \subseteq History(s) \cup new /\ new \subseteq Pending(t)
      /\ ToSet(t.trace) = ToSet(s.trace) \cup run
  BY MovedHistory
<1>4. \A e \in History(s) : e \in History(t) \/ e.id \in gone
  <2>1. \A e \in Pending(s) : e \in run \/ e.id \in gone \/ e \in Pending(t)
    BY DEF Moved
  <2> QED
    BY <1>3, <2>1 DEF History
<1> HIDE DEF History
<1>5. Ids(History(s)) \subseteq s.known
  BY <1>1 DEF Ids
<1>6. \A id \in Ids(History(s)) : id \in Ids(History(t)) \/ id \in gone
  BY <1>4 DEF Ids
<1> QED
  BY <1>2, <1>3, <1>5, <1>6 DEF History

LEMMA OldRecord ==
  ASSUME NEW s, KernelInv(s), \A id \in s.known : id # NoEvent,
         NEW t, NEW run, NEW gone, NEW new, Moved(s, t, run, gone, new),
         NEW before, NEW undone, before \subseteq undone, \A id \in gone : Completion(id) \/ id \in undone,
         NEW record, RecordTyped(s, record), RecordTrue(s, before, record)
  PROVE  RecordTyped(t, record) /\ RecordTrue(t, undone, record)
<1>1. s.now \in Nat /\ t.now \in Nat /\ s.now <= t.now /\ s.known \subseteq t.known
  BY KernelFacts, MovedHistory DEF Moved
<1>2. /\ Ids(History(s)) \subseteq s.known
      /\ \A e \in History(t) : e \in History(s) \/ (e \in new /\ e.id \notin s.known)
      /\ \A id \in Ids(History(s)) : id \in Ids(History(t)) \/ id \in gone
  BY HistoryIds
<1>3. RecordTyped(t, record)
  BY <1>1 DEF RecordTyped
<1>4. /\ record.produced \subseteq s.known /\ record.cancelled \subseteq s.known
      /\ \A id \in record.produced : id # NoEvent /\ id[1] \in {"event", "fault"}
      /\ record.class = "DELIVERY_REORDER" => record.anchor.id \in s.known
  BY DEF RecordTyped
<1>5. \A id \in record.cancelled : id \notin Ids(History(t))
  BY <1>2, <1>4 DEF RecordTrue, Ids
<1>6. \A id \in record.produced : id \in Ids(History(t)) \cup undone
  <2>1. \A id \in record.produced : ~Completion(id)
    BY <1>4 DEF Completion
  <2> QED
    BY <1>2, <2>1 DEF RecordTrue
<1>7. \A e \in History(t) : e.id \in record.produced => AsRecorded(record, e)
  BY <1>2, <1>4 DEF RecordTrue
<1>8. record.class = "DELIVERY_REORDER" =>
        \A e, a \in History(t) : e.id \in record.produced /\ a.id = record.anchor.id => Before(a, e)
  BY <1>2, <1>4 DEF RecordTrue
<1> QED
  BY <1>3, <1>5, <1>6, <1>7, <1>8 DEF RecordTrue

(* Steps without a fault.                                                  *)
LEMMA RecordsStay ==
  ASSUME EventsInv, RecordsInv, UNCHANGED records, NEW run, NEW gone, NEW new,
         Moved(sim, sim', run, gone, new), \A id \in gone : Completion(id)
  PROVE  RecordsInv'
<1>1. KernelInv(sim) /\ \A id \in sim.known : id # NoEvent
  BY DEF EventsInv, IdsUsed, IdUsed
<1>2. CancelledByFault' = CancelledByFault
  BY DEF CancelledByFault
<1>3. \A record : RecordTyped(sim, record) /\ RecordTrue(sim, CancelledByFault, record) =>
        RecordTyped(sim', record) /\ RecordTrue(sim', CancelledByFault, record)
  BY <1>1, OldRecord
<1>4. TransformationsAreSound'
  BY DEF RecordsInv, TransformationsAreSound
<1> QED
  BY <1>2, <1>3, <1>4 DEF RecordsInv

(* A record that a fault adds, and the deliveries it is about.             *)
RecordAdded(record, gone, new) ==
  /\ record.class \in FaultClass /\ record.injected = sim.now /\ record.duration \in Nat
  /\ record.redelivered \in Nat /\ record.anchor.time \in Nat
  /\ record.produced = Ids(new) /\ \A id \in Ids(new) : id[1] \in {"event", "fault"}
  /\ record.cancelled = gone /\ gone \subseteq Ids(Pending(sim))
  /\ \A e \in new : AsRecorded(record, e)
  /\ record.class = "DELIVERY_REORDER" =>
       /\ record.redelivered >= record.anchor.time
       /\ \E a \in Pending(sim) : a.id = record.anchor.id /\ \A e \in new : Before(a, e)

(* What is cancelled while it is pending is not executed.                  *)
LEMMA CancelledAreGone ==
  ASSUME EventsInv, NEW gone, NEW new, Moved(sim, sim', {}, gone, new), gone \subseteq Ids(Pending(sim))
  PROVE  \A e \in History(sim') : e.id \notin gone
<1> SUFFICES ASSUME NEW e \in History(sim'), e.id \in gone PROVE FALSE
  OBVIOUS
<1>1. KernelInv(sim)
  BY DEF EventsInv
<1>2. PICK f \in Pending(sim) : f.id = e.id
  BY DEF Ids
<1>3. f.id \in sim.known /\ f \in sim.queue
  BY <1>1, KernelFacts
<1>4. e \notin new
  BY <1>2, <1>3 DEF Moved, Ids
<1>5. e \notin Pending(sim')
  BY <1>4 DEF Moved
<1>6. sim'.trace = sim.trace
  BY DEF Moved
<1>7. e \notin ToSet(sim.trace)
  BY <1>1, <1>2, <1>3 DEF KernelInv, TraceInv, ToSet
<1> QED
  BY <1>5, <1>6, <1>7 DEF History

LEMMA NewRecord ==
  ASSUME NEW record, NEW gone, NEW new, EventsInv, RecordAdded(record, gone, new),
         Moved(sim, sim', {}, gone, new), NEW undone
  PROVE  RecordTyped(sim', record) /\ RecordTrue(sim', undone, record)
<1>1. /\ KernelInv(sim) /\ KernelInv(sim') /\ sim.now \in Nat /\ sim.now <= sim'.now
      /\ sim.known \subseteq sim'.known /\ sim'.known = sim.known \cup Ids(new) /\ Ids(new) \cap sim.known = {}
  BY KernelFacts, MovedHistory DEF EventsInv, Moved
<1>2. /\ Ids(History(sim)) \subseteq sim.known
      /\ \A e \in History(sim') : e \in History(sim) \/ (e \in new /\ e.id \notin sim.known)
      /\ new \subseteq History(sim')
  BY <1>1, HistoryIds
<1>3. /\ \A e \in History(sim) : e.id \in sim.known
      /\ \A e \in Pending(sim) : e \in History(sim) /\ e.id \in sim.known
      /\ \A e \in new : e.id \in Ids(new)
      /\ \A id \in Ids(new) : \E e \in new : id = e.id
      /\ Ids(new) \subseteq Ids(History(sim'))
  BY <1>2 DEF Ids, History
<1>4. \A e, f \in Pending(sim) : e.id = f.id => e = f
  BY <1>1 DEF KernelInv, HeapInv, Pending
<1>5. \A e \in Pending(sim), a \in History(sim) : a.id = e.id => a = e
  <2>1. \A e \in Pending(sim), a \in ToSet(sim.trace) : a.id # e.id
    BY <1>1, KernelFacts DEF KernelInv, TraceInv, ToSet
  <2> QED
    BY <1>4, <2>1 DEF History
<1>6. RecordTyped(sim', record)
  <2>1. record.cancelled \subseteq sim.known
    BY <1>3 DEF RecordAdded, Ids
  <2> QED
    BY <1>1, <1>3, <2>1 DEF RecordAdded, RecordTyped
<1>7. \A id \in record.cancelled : id \notin Ids(History(sim'))
  <2>1. \A e \in History(sim') : e.id \notin gone
    BY CancelledAreGone DEF RecordAdded
  <2> QED
    BY <2>1 DEF RecordAdded, Ids
<1>8. \A e \in History(sim') : e.id \in Ids(new) => e \in new
  BY <1>1, <1>2, <1>3
<1>9. record.class = "DELIVERY_REORDER" =>
        \A e, a \in History(sim') : e.id \in record.produced /\ a.id = record.anchor.id => Before(a, e)
  <2> SUFFICES ASSUME record.class = "DELIVERY_REORDER", NEW e \in History(sim'), NEW a \in History(sim'),
                      e.id \in Ids(new), a.id = record.anchor.id
               PROVE  Before(a, e)
    BY DEF RecordAdded
  <2>1. PICK b \in Pending(sim) : b.id = record.anchor.id /\ \A f \in new : Before(b, f)
    BY DEF RecordAdded
  <2>2. a = b
    BY <1>2, <1>3, <1>5, <2>1
  <2> QED
    BY <1>8, <2>1, <2>2
<1> QED
  BY <1>3, <1>6, <1>7, <1>8, <1>9 DEF RecordTrue, RecordAdded

LEMMA RecordsGrow ==
  ASSUME EventsInv, RecordsInv, RecordsListed, NEW record, NEW gone, NEW new,
         RecordAdded(record, gone, new), Recorded(record), Moved(sim, sim', {}, gone, new)
  PROVE  RecordsInv'
<1> DEFINE n == Len(records) + 1
<1>1. /\ DOMAIN records = 1..Len(records) /\ Len(records) \in Nat
      /\ DOMAIN records' = DOMAIN records \cup {n} /\ n \notin DOMAIN records
      /\ \A i \in DOMAIN records : records'[i] = records[i] /\ i < n
      /\ records'[n] = record /\ n \in Nat
  <2>1. /\ DOMAIN records = 1..Len(records) /\ Len(records) \in Nat
        /\ DOMAIN records' = DOMAIN records \cup {n} /\ n \notin DOMAIN records
        /\ \A i \in DOMAIN records : records'[i] = records[i]
        /\ records'[n] = record
    BY RecordedFacts
  <2>2. n \in Nat /\ \A i \in DOMAIN records : i < n
    BY <2>1
  <2> QED
    BY <2>1, <2>2
<1> HIDE DEF n
<1>2. /\ KernelInv(sim) /\ \A id \in sim.known : id # NoEvent
      /\ Ids(new) \cap sim.known = {} /\ Ids(History(sim)) \subseteq sim.known
  <2>1. KernelInv(sim) /\ \A id \in sim.known : id # NoEvent
    BY DEF EventsInv, IdsUsed, IdUsed
  <2>2. Ids(History(sim)) \subseteq sim.known
    BY <2>1, HistoryIds
  <2> QED
    BY <2>1, <2>2 DEF Moved
<1>3. CancelledByFault' = CancelledByFault \cup gone
  <2>1. record.cancelled = gone
    BY DEF RecordAdded
  <2> QED
    BY <1>1, <2>1 DEF CancelledByFault
<1>4. \A i \in DOMAIN records' :
        RecordTyped(sim', records'[i]) /\ RecordTrue(sim', CancelledByFault', records'[i])
  <2> DEFINE undone == CancelledByFault \cup gone
  <2>1. \A r : RecordTyped(sim, r) /\ RecordTrue(sim, CancelledByFault, r) =>
          RecordTyped(sim', r) /\ RecordTrue(sim', undone, r)
    <3> HIDE DEF undone
    <3>1. CancelledByFault \subseteq undone /\ \A id \in gone : Completion(id) \/ id \in undone
      BY DEF undone
    <3> QED
      BY <1>2, <3>1, OldRecord
  <2>2. RecordTyped(sim', record) /\ RecordTrue(sim', undone, record)
    BY NewRecord
  <2> HIDE DEF undone
  <2>3. \A i \in DOMAIN records : RecordTyped(sim', records[i]) /\ RecordTrue(sim', undone, records[i])
    BY <2>1 DEF RecordsInv
  <2>4. \A i \in DOMAIN records' : RecordTyped(sim', records'[i]) /\ RecordTrue(sim', undone, records'[i])
    BY <1>1, <2>2, <2>3
  <2> QED
    BY <1>3, <2>4 DEF undone
<1>5. ASSUME NEW i \in DOMAIN records', i > 1 PROVE records'[i - 1].injected <= records'[i].injected
  <2>1. CASE i \in DOMAIN records
    <3>1. i - 1 \in DOMAIN records
      BY <1>1, <1>5, <2>1
    <3> QED
      BY <1>1, <1>5, <2>1, <3>1 DEF RecordsInv
  <2>2. CASE i = n
    <3>1. i - 1 \in DOMAIN records /\ records'[i - 1] = records[i - 1]
      <4>1. i - 1 = Len(records) /\ Len(records) >= 1
        BY <1>1, <1>5, <2>2 DEF n
      <4> QED
        BY <1>1, <4>1
    <3>2. records[i - 1].injected <= sim.now
      BY <3>1 DEF RecordsInv, RecordTyped
    <3> QED
      BY <1>1, <2>2, <3>1, <3>2 DEF RecordAdded
  <2> QED
    BY <1>1, <2>1, <2>2
<1>6. TransformationsAreSound'
  <2>1. \A i \in DOMAIN records : /\ records[i].produced \subseteq sim.known
                                  /\ records[i].cancelled \subseteq sim.known
                                  /\ records[i].cancelled \cap Ids(History(sim)) = {}
    BY DEF RecordsInv, RecordTyped, RecordTrue
  <2>2. /\ record.produced \cap sim.known = {}
        /\ record.cancelled \subseteq sim.known /\ record.cancelled \subseteq Ids(History(sim))
    <3>1. Ids(Pending(sim)) \subseteq Ids(History(sim))
      BY DEF History, Ids
    <3> QED
      BY <1>2, <3>1 DEF RecordAdded
  <2> SUFFICES ASSUME NEW i \in DOMAIN records', NEW j \in DOMAIN records'
               PROVE  /\ i # j => records'[i].produced \cap records'[j].produced = {}
                      /\ i # j => records'[i].cancelled \cap records'[j].cancelled = {}
                      /\ records'[i].produced \cap records'[j].cancelled # {} => i < j
    BY DEF TransformationsAreSound
  <2>3. CASE i \in DOMAIN records /\ j \in DOMAIN records
    BY <1>1, <2>3 DEF RecordsInv, TransformationsAreSound
  <2>4. CASE i \in DOMAIN records /\ j = n
    BY <1>1, <2>1, <2>2, <2>4
  <2>5. CASE i = n /\ j \in DOMAIN records
    BY <1>1, <2>1, <2>2, <2>5
  <2>6. CASE i = n /\ j = n
    BY <1>1, <2>2, <2>6
  <2> QED
    BY <1>1, <2>3, <2>4, <2>5, <2>6
<1> QED
  BY <1>4, <1>5, <1>6 DEF RecordsInv

---------------------------------------------------------------------------
(* Each fault adds a record of what it does, and starts nothing.           *)
FaultStep ==
  /\ StartedOnce => StartedOnce'
  /\ \E record, gone, new : /\ Recorded(record) /\ RecordAdded(record, gone, new)
                            /\ Moved(sim, sim', {}, gone, new)

LEMMA CopiesStay ==
  ASSUME RecordsListed, NEW record, Recorded(record)
  PROVE  (Copied => Copied') /\ (record.class = "DELIVERY_DUPLICATE" => Copied')
BY RecordedFacts DEF Copied

(* The replacement starts what the original did, and the original is gone. *)
LEMMA PutOffStarts ==
  ASSUME EventsInv, StartedOnce, Copied => Copied', UNCHANGED replicas, NEW e \in Pending(sim), NEW f,
         Moved(sim, sim', {}, {e.id}, {f}), f.kind = e.kind, f.subject = e.subject
  PROVE  StartedOnce'
<1>1. \A g \in History(sim') : g \in History(sim) \/ g = f
  BY MovedHistory DEF EventsInv
<1>2. e \in History(sim) /\ e \notin History(sim')
  <2> DEFINE gone == {e.id}
             new == {f}
  <2>1. gone \subseteq Ids(Pending(sim)) /\ Moved(sim, sim', {}, gone, new) /\ e.id \in gone
    BY DEF Ids
  <2> HIDE DEF gone, new
  <2>2. \A g \in History(sim') : g.id \notin gone
    BY <2>1, CancelledAreGone
  <2> QED
    BY <2>1, <2>2 DEF History
<1> SUFFICES ASSUME ~Copied, NEW g \in History(sim'), NEW h \in History(sim'), NEW r \in DOMAIN replicas,
                    Starts(g, r), Starts(h, r)
             PROVE  g = h
  BY DEF StartedOnce, Starts
<1>3. \A x, y \in History(sim) : Starts(x, r) /\ Starts(y, r) => x = y
  BY DEF StartedOnce
<1>4. Starts(f, r) => Starts(e, r)
  BY DEF Starts
<1> QED
  BY <1>1, <1>2, <1>3, <1>4

LEMMA PutOffFault ==
  ASSUME Sides, RecordsListed, NEW e \in Pending(sim), NEW at \in Nat, at >= sim.now, at >= e.time,
         sim' = PutOff(e, at), UNCHANGED replicas,
         NEW class \in {"DELIVERY_DELAY", "DELIVERY_REORDER"}, NEW anchor,
         Recorded(FaultRecord(class, e, at, {FaultEventId(e)}, {e.id}, anchor)),
         anchor.time \in Nat,
         class = "DELIVERY_REORDER" => \E a \in Pending(sim) : a.id = anchor.id /\ a.time = anchor.time /\ at >= a.time
  PROVE  FaultStep
<1> DEFINE record == FaultRecord(class, e, at, {FaultEventId(e)}, {e.id}, anchor)
<1>1. /\ record.class = class /\ record.injected = sim.now /\ record.duration = at - e.time
      /\ record.redelivered = at /\ record.produced = {FaultEventId(e)} /\ record.cancelled = {e.id}
      /\ record.anchor = anchor /\ Recorded(record)
  BY DEF FaultRecord
<1> HIDE DEF record
<1>2. KernelInv(sim) /\ EventsInv
  BY DEF Sides, EventsInv
<1>3. /\ sim.next \in Nat
      /\ \A x \in Pending(sim) : x.time \in Nat /\ x.sequence \in Nat /\ x.sequence < sim.next
  <2>1. \A x \in Pending(sim) : x \in sim.queue /\ x.time \in Nat /\ x.sequence \in Nat
    BY <1>2, KernelFacts
  <2> QED
    BY <1>2, <2>1, KernelFacts DEF KernelInv, HeapInv
<1>4. PICK f : /\ Moved(sim, sim', {}, {e.id}, {f})
               /\ f.id = FaultEventId(e) /\ f.kind = e.kind /\ f.subject = e.subject
               /\ f.time = at /\ f.sequence = sim.next
  BY PutOffEvents
<1>5. StartedOnce => StartedOnce'
  BY <1>1, <1>2, <1>4, CopiesStay, PutOffStarts
<1>6. RecordAdded(record, {e.id}, {f})
  <2>1. Ids({f}) = {FaultEventId(e)} /\ e.id \in Ids(Pending(sim)) /\ FaultEventId(e)[1] = "fault"
    BY <1>4 DEF Ids, FaultEventId
  <2>2. AsRecorded(record, f)
    BY <1>1, <1>4 DEF AsRecorded
  <2>3. record.class = "DELIVERY_REORDER" =>
          /\ record.redelivered >= record.anchor.time
          /\ \E a \in Pending(sim) : a.id = record.anchor.id /\ Before(a, f)
    BY <1>1, <1>3, <1>4 DEF Before
  <2>4. record.duration \in Nat /\ record.class \in FaultClass
    BY <1>1, <1>3 DEF FaultClass
  <2>5. record.redelivered \in Nat /\ record.anchor.time \in Nat
    BY <1>1
  <2> QED
    BY <1>1, <2>1, <2>2, <2>3, <2>4, <2>5 DEF RecordAdded
<1> QED
  BY <1>1, <1>4, <1>5, <1>6 DEF FaultStep

LEMMA DuplicateFault ==
  ASSUME Sides, RecordsListed, NEW e \in Pending(sim), NEW at \in Nat, at >= sim.now, at >= e.time,
         sim' = Scheduled(sim, <<Redelivery(e, at)>>),
         Recorded(FaultRecord("DELIVERY_DUPLICATE", e, at, {FaultEventId(e)}, {}, NoAnchor))
  PROVE  FaultStep
<1> DEFINE record == FaultRecord("DELIVERY_DUPLICATE", e, at, {FaultEventId(e)}, {}, NoAnchor)
           new == EventsOf(sim, <<Redelivery(e, at)>>)
<1>1. /\ record.class = "DELIVERY_DUPLICATE" /\ record.injected = sim.now /\ record.duration = at - e.time
      /\ record.redelivered = at /\ record.produced = {FaultEventId(e)} /\ record.cancelled = {}
      /\ record.anchor.time = 0 /\ Recorded(record)
  BY DEF FaultRecord, NoAnchor
<1>2. sim.now \in Nat /\ e.time \in Nat /\ KernelInv(sim)
  <2>1. KernelInv(sim)
    BY DEF Sides, EventsInv
  <2> QED
    BY <2>1, KernelFacts
<1>3. /\ Moved(sim, sim', {}, {}, new) /\ new # {}
      /\ \A f \in new : /\ f.id = FaultEventId(e) /\ f.id \notin sim.known
                        /\ f.kind = e.kind /\ f.subject = e.subject
                        /\ f.time = at /\ f.sequence = sim.next /\ new = {f}
  BY RedeliveryEvents
<1> HIDE DEF record, new
<1>4. StartedOnce'
  BY <1>1, CopiesStay DEF StartedOnce
<1>5. RecordAdded(record, {}, new)
  <2>1. Ids(new) = {FaultEventId(e)} /\ FaultEventId(e)[1] = "fault"
    <3>1. \E f : new = {f} /\ f.id = FaultEventId(e)
      BY <1>3
    <3>2. Ids(new) = {FaultEventId(e)}
      BY <3>1 DEF Ids
    <3>3. FaultEventId(e)[1] = "fault"
      BY DEF FaultEventId
    <3> QED
      BY <3>2, <3>3
  <2>2. \A f \in new : AsRecorded(record, f)
    BY <1>1, <1>3 DEF AsRecorded
  <2>3. /\ record.duration \in Nat /\ record.class \in FaultClass
        /\ record.redelivered \in Nat /\ record.anchor.time \in Nat
    BY <1>1, <1>2 DEF FaultClass
  <2> QED
    BY <1>1, <2>1, <2>2, <2>3 DEF RecordAdded
<1> QED
  BY <1>1, <1>3, <1>4, <1>5 DEF FaultStep

LEMMA DropFault ==
  ASSUME Sides, RecordsListed, NEW e \in Pending(sim), DropDelivery(e)
  PROVE  FaultStep
<1> DEFINE record == FaultRecord("DELIVERY_DROP", e, e.time, {}, {e.id}, NoAnchor)
           gone == {e.id}
           new == {}
<1>1. sim' = Cancelled(sim, gone) /\ Recorded(record) /\ UNCHANGED replicas
  BY DEF DropDelivery, OnlyDeliveries
<1>2. e.time \in Nat /\ KernelInv(sim) /\ EventsInv
  <2>1. KernelInv(sim) /\ EventsInv
    BY DEF Sides, EventsInv
  <2> QED
    BY <2>1, KernelFacts
<1>3. /\ record.class = "DELIVERY_DROP" /\ record.injected = sim.now /\ record.duration = e.time - e.time
      /\ record.redelivered = e.time /\ record.produced = {} /\ record.cancelled = gone
      /\ record.anchor.time = 0
  BY DEF FaultRecord, NoAnchor
<1>4. gone \subseteq Ids(Pending(sim)) /\ new = {} /\ Ids(new) = {}
  BY DEF Ids
<1> HIDE DEF record, gone, new
<1>5. Moved(sim, sim', {}, gone, new)
  <2>1. Moved(sim, sim, {}, {}, new) /\ gone \cap Ids(new) = {}
    BY <1>2, <1>4, MovedNot
  <2>2. Moved(sim, Cancelled(sim, gone), {}, {} \cup gone, new)
    BY <2>1, MovedCancel
  <2>3. {} \cup gone = gone
    OBVIOUS
  <2> QED
    BY <1>1, <2>2, <2>3
<1>6. StartedOnce => StartedOnce'
  <2>1. StartsNew(new) /\ (Copied => Copied')
    BY <1>1, <1>4, CopiesStay DEF StartsNew
  <2> QED
    BY <1>2, <1>5, <2>1, StartsStep
<1>7. RecordAdded(record, gone, new)
  BY <1>2, <1>3, <1>4 DEF RecordAdded, FaultClass
<1> QED
  BY <1>1, <1>5, <1>6, <1>7 DEF FaultStep

LEMMA DelegatedFault ==
  ASSUME Sides, RecordsListed, NEW class, NEW kind, NEW subject \in Workers \cup Nat,
         <<class, kind>> \in {<<"WORKER_FAILURE", "WORKER_FAILED">>, <<"REPLICA_LOSS", "STATE_LOST">>,
                              <<"REPLICA_EVICTION", "STATE_EVICTED">>},
         Delegated(class, subject), sim' = Scheduled(sim, <<AtOnce(sim, kind, subject)>>)
  PROVE  FaultStep
<1> DEFINE id == <<"event", sim.next>>
           record == FaultRecord(class, [id |-> subject, time |-> sim.now], sim.now, {id}, {}, NoAnchor)
           order == AtOnce(sim, kind, subject)
           new == EventsOf(sim, <<order>>)
<1>1. sim.now \in Nat /\ sim.next \in Nat /\ KernelInv(sim) /\ EventsInv /\ id \notin sim.known
  <2>1. KernelInv(sim) /\ EventsInv
    BY DEF Sides, EventsInv
  <2>2. sim.now \in Nat /\ sim.next \in Nat
    BY <2>1, KernelFacts
  <2>3. \A x \in sim.known : x[1] = "event" => x[2] < sim.next
    BY <2>1 DEF EventsInv, IdsUsed, IdUsed
  <2> QED
    BY <2>1, <2>2, <2>3
<1>2. /\ record.class = class /\ record.injected = sim.now /\ record.duration = sim.now - sim.now
      /\ record.redelivered = sim.now /\ record.produced = {id} /\ record.cancelled = {}
      /\ record.target = subject /\ record.anchor.time = 0 /\ Recorded(record)
  BY DEF FaultRecord, Delegated, NoAnchor
<1>3. /\ order.at = sim.now /\ order.kind = kind /\ order.subject = subject /\ ActualId(order, sim.next) = id
      /\ kind \in Kinds
  BY DEF AtOnce, Order, ActualId, Kinds
<1> HIDE DEF id, record, order
<1>4. /\ Acceptable(sim, <<order>>)
      /\ new = {[time |-> sim.now, sequence |-> sim.next, id |-> id, kind |-> kind, subject |-> subject]}
  BY <1>1, <1>3, OneOrder
<1>5. \A f \in new : f.time = sim.now /\ f.id = id /\ f.kind = kind /\ f.subject = subject
  BY <1>4
<1>6. Moved(sim, sim', {}, {}, new)
  <2>1. Moved(sim, sim, {}, {}, {})
    BY <1>1, MovedNot
  <2>2. Moved(sim, Scheduled(sim, <<order>>), {}, {}, {} \cup new)
    BY <1>1, <1>4, <2>1, MovedSchedule
  <2>3. {} \cup new = new /\ sim' = Scheduled(sim, <<order>>)
    BY DEF order
  <2> QED
    BY <2>2, <2>3
<1>7. Ids(new) = {id}
  <2> DEFINE only == [time |-> sim.now, sequence |-> sim.next, id |-> id, kind |-> kind, subject |-> subject]
  <2>1. only.id = id
    OBVIOUS
  <2>2. new = {only}
    BY <1>4
  <2> HIDE DEF only
  <2> QED
    BY <2>1, <2>2 DEF Ids
<1> HIDE DEF new
<1>8. StartedOnce => StartedOnce'
  <2>1. StartsNew(new) /\ (Copied => Copied')
    BY <1>2, <1>5, CopiesStay DEF StartsNew
  <2> QED
    BY <1>1, <1>6, <2>1, StartsStep
<1>9. RecordAdded(record, {}, new)
  <2>1. \A f \in new : AsRecorded(record, f)
    BY <1>2, <1>5 DEF AsRecorded
  <2>2. record.class \in FaultClass /\ record.class # "DELIVERY_REORDER" /\ id[1] = "event"
    BY <1>2 DEF FaultClass, id
  <2> QED
    BY <1>1, <1>2, <1>7, <2>1, <2>2 DEF RecordAdded
<1> QED
  BY <1>2, <1>6, <1>8, <1>9 DEF FaultStep

LEMMA FaultIsRecorded ==
  ASSUME ResourceInv, AnyFault
  PROVE  FaultStep
<1>1. Sides /\ RecordsListed /\ DOMAIN replicas \subseteq Nat
  <2>1. Sides /\ RecordsListed
    BY DEF ResourceInv, Sides
  <2> QED
    BY <2>1, MoveFacts DEF Sides, MoveSide
<1>2. \A e \in Pending(sim) : e.time \in Nat /\ e.time >= sim.now /\ sim.now \in Nat
  <2>1. KernelInv(sim)
    BY <1>1 DEF Sides, EventsInv
  <2>2. sim.now \in Nat /\ \A e \in Pending(sim) : e.time \in Nat
    BY <2>1, KernelFacts
  <2> QED
    BY <2>1, <2>2, KernelFacts DEF KernelInv, HeapInv, Pending
<1>4. ASSUME NEW e \in Pending(sim), NEW d \in Nat, DelayDelivery(e, d)
      PROVE  FaultStep
  <2> DEFINE at == e.time + d
  <2>1. /\ Recorded(FaultRecord("DELIVERY_DELAY", e, at, {FaultEventId(e)}, {e.id}, NoAnchor))
        /\ sim' = PutOff(e, at) /\ UNCHANGED replicas
    BY <1>4 DEF DelayDelivery, OnlyDeliveries
  <2>2. at \in Nat /\ at >= sim.now /\ at >= e.time
    BY <1>2
  <2>3. NoAnchor.time \in Nat
    BY DEF NoAnchor
  <2> HIDE DEF at
  <2> QED
    BY <1>1, <2>1, <2>2, <2>3, PutOffFault
<1>5. ASSUME NEW e \in Pending(sim), NEW d \in Nat, DuplicateDelivery(e, d)
      PROVE  FaultStep
  <2> DEFINE at == e.time + d
  <2>1. /\ Recorded(FaultRecord("DELIVERY_DUPLICATE", e, at, {FaultEventId(e)}, {}, NoAnchor))
        /\ sim' = Scheduled(sim, <<Redelivery(e, at)>>)
    BY <1>5 DEF DuplicateDelivery
  <2>2. at \in Nat /\ at >= sim.now /\ at >= e.time
    BY <1>2
  <2> HIDE DEF at
  <2> QED
    BY <1>1, <2>1, <2>2, DuplicateFault
<1>6. ASSUME NEW e \in Pending(sim), NEW a \in Pending(sim), NEW d \in Nat, ReorderAfter(e, a, d)
      PROVE  FaultStep
  <2> DEFINE at == TimeAfter(e, a, d)
             anchor == [id |-> a.id, time |-> a.time]
  <2>1. /\ Recorded(FaultRecord("DELIVERY_REORDER", e, at, {FaultEventId(e)}, {e.id}, anchor))
        /\ sim' = PutOff(e, at) /\ UNCHANGED replicas
    BY <1>6 DEF ReorderAfter, OnlyDeliveries
  <2>2. at \in Nat /\ at >= sim.now /\ at >= e.time /\ at >= a.time
    BY <1>2 DEF TimeAfter
  <2>3. anchor.id = a.id /\ anchor.time = a.time /\ anchor.time \in Nat
    BY <1>2
  <2> HIDE DEF at, anchor
  <2>4. \E x \in Pending(sim) : x.id = anchor.id /\ x.time = anchor.time /\ at >= x.time
    BY <2>2, <2>3
  <2> QED
    BY <1>1, <2>1, <2>2, <2>3, <2>4, PutOffFault
<1>7. ASSUME NEW w \in Workers, InjectWorkerFailure(w)
      PROVE  FaultStep
  <2>1. Delegated("WORKER_FAILURE", w) /\ sim' = Scheduled(sim, <<AtOnce(sim, "WORKER_FAILED", w)>>)
    BY <1>7 DEF InjectWorkerFailure, FailWorker, FailOrRecover
  <2> QED
    BY <1>1, <2>1, DelegatedFault
<1>8. ASSUME NEW r \in DOMAIN replicas, InjectReplicaLoss(r)
      PROVE  FaultStep
  <2>1. Delegated("REPLICA_LOSS", r) /\ sim' = Scheduled(sim, <<AtOnce(sim, "STATE_LOST", r)>>)
    BY <1>8 DEF InjectReplicaLoss, LoseReplica, EvictOrLose
  <2> QED
    BY <1>1, <2>1, DelegatedFault
<1>9. ASSUME NEW r \in DOMAIN replicas, InjectReplicaEviction(r)
      PROVE  FaultStep
  <2>1. Delegated("REPLICA_EVICTION", r) /\ sim' = Scheduled(sim, <<AtOnce(sim, "STATE_EVICTED", r)>>)
    BY <1>9 DEF InjectReplicaEviction, EvictReplica, EvictOrLose
  <2> QED
    BY <1>1, <2>1, DelegatedFault
<1> QED
  BY <1>1, <1>4, <1>5, <1>6, <1>7, <1>8, <1>9, DropFault DEF AnyFault

---------------------------------------------------------------------------
(* The second invariant.                                                   *)
LEMMA InitiallyTrue ==
  ASSUME FaultInit
  PROVE  FaultInv
<1>1. ResourceInv
  BY InitiallyInvariant
<1>2. records = << >> /\ raised = FALSE /\ sim.trace = << >> /\ Pending(sim) = {}
  BY DEF FaultInit, ResourceInit, NewSimulator, Pending
<1>3. DOMAIN sim.trace = {} /\ DOMAIN records = {} /\ History(sim) = {}
  BY <1>2, EmptyFacts DEF History
<1> QED
  BY <1>1, <1>2, <1>3 DEF FaultInv, FailuresLast, LossesLast, StartedOnce, RaisesOnlyOnCopies, RecordsInv,
                          TransformationsAreSound

LEMMA FaultKeepsTruth ==
  ASSUME FaultInv, AnyFault
  PROVE  FailuresLast' /\ LossesLast' /\ StartedOnce' /\ RaisesOnlyOnCopies' /\ RecordsInv'
<1>1. ResourceInv /\ EventsInv /\ RecordsListed
  BY DEF FaultInv, ResourceInv
<1>2. PICK record, gone, new : /\ Recorded(record) /\ RecordAdded(record, gone, new)
                               /\ Moved(sim, sim', {}, gone, new)
  BY <1>1, FaultIsRecorded DEF FaultStep
<1>3. StartedOnce'
  BY <1>1, FaultIsRecorded DEF FaultStep, FaultInv
<1>4. sim'.trace = sim.trace
  BY <1>2 DEF Moved
<1>5. Copied => Copied'
  BY <1>1, <1>2, CopiesStay
<1>6. FailuresLast' /\ LossesLast' /\ RaisesOnlyOnCopies'
  BY <1>1, <1>4, <1>5, FaultEffects, LastStays, RaisesStay DEF FaultInv
<1>7. RecordsInv'
  BY <1>1, <1>2, RecordsGrow DEF FaultInv
<1> QED
  BY <1>3, <1>6, <1>7

LEMMA OperationKeepsTruth ==
  ASSUME FaultInv, Operation, UNCHANGED records
  PROVE  FailuresLast' /\ LossesLast' /\ StartedOnce' /\ RaisesOnlyOnCopies' /\ RecordsInv'
<1>1. Sides /\ EventsInv /\ RecordsListed /\ CallersTyped
  BY DEF FaultInv, ResourceInv, Sides
<1>2. Copied => Copied'
  BY DEF Copied
<1>3. Kept({})
  BY <1>1, OperationStep
<1>4. PICK gone, new : /\ Moved(sim, sim', {}, gone, new) /\ StartsNew(new)
                       /\ \A id \in gone : Completion(id)
  BY <1>3 DEF Kept, Result, Advance
<1>5. sim'.trace = sim.trace
  BY <1>4 DEF Moved
<1>6. FailuresLast' /\ LossesLast' /\ RaisesOnlyOnCopies'
  BY <1>1, <1>2, <1>5, OperationEffects, LastStays, RaisesStay DEF FaultInv
<1>7. StartedOnce'
  BY <1>1, <1>2, <1>4, StartsStep DEF FaultInv
<1>8. RecordsInv'
  BY <1>1, <1>4, RecordsStay DEF FaultInv
<1> QED
  BY <1>6, <1>7, <1>8

LEMMA RunKeepsTruth ==
  ASSUME FaultInv, RunNext, UNCHANGED records
  PROVE  FailuresLast' /\ LossesLast' /\ StartedOnce' /\ RaisesOnlyOnCopies' /\ RecordsInv'
<1>1. Sides /\ EventsInv /\ WorkerTypes
  BY DEF FaultInv, ResourceInv, Sides
<1>2. Copied => Copied'
  BY DEF Copied
<1>3. PICK e \in Pending(sim) : Kept({e}) /\ Effects(e)
  BY <1>1, RunEffects
<1>4. PICK gone, new : /\ Moved(sim, sim', {e}, gone, new) /\ StartsNew(new)
                       /\ \A id \in gone : Completion(id)
  BY <1>3 DEF Kept, Result, Advance
<1>5. FailuresLast' /\ LossesLast'
  BY <1>1, <1>3, <1>4, LastStep DEF FaultInv
<1>6. StartedOnce'
  BY <1>1, <1>2, <1>4, StartsStep DEF FaultInv
<1>7. RaisesOnlyOnCopies'
  BY <1>1, <1>3, <1>4, RaisesStep DEF FaultInv
<1>8. RecordsInv'
  BY <1>1, <1>4, RecordsStay DEF FaultInv
<1> QED
  BY <1>5, <1>6, <1>7, <1>8

LEMMA WaitKeepsTruth ==
  ASSUME FaultInv, Waited, UNCHANGED records
  PROVE  FailuresLast' /\ LossesLast' /\ StartedOnce' /\ RaisesOnlyOnCopies' /\ RecordsInv'
<1>1. EventsInv /\ (Copied => Copied')
  BY DEF FaultInv, ResourceInv, Copied
<1>2. /\ Moved(sim, sim', {}, {}, {})
      /\ workers' = workers /\ replicas' = replicas /\ raised' = raised
  BY <1>1, WaitedMoves
<1>3. sim'.trace = sim.trace
  BY <1>2 DEF Moved
<1>4. FailuresLast' /\ LossesLast' /\ RaisesOnlyOnCopies'
  BY <1>1, <1>2, <1>3, LastStays, RaisesStay DEF FaultInv
<1>5. StartedOnce'
  <2>1. StartsNew({})
    BY DEF StartsNew
  <2> QED
    BY <1>1, <1>2, <2>1, StartsStep DEF FaultInv
<1>6. RecordsInv'
  BY <1>1, <1>2, RecordsStay DEF FaultInv
<1> QED
  BY <1>4, <1>5, <1>6

LEMMA StepKeepsTruth ==
  ASSUME FaultInv, AnyStep
  PROVE  FaultInv'
<1>1. ResourceInv'
  BY StepKeepsInvariant DEF FaultInv
<1>2. CASE AnyFault \/ ((Operation \/ RunNext \/ Waited) /\ UNCHANGED records)
  BY <1>1, <1>2, FaultKeepsTruth, OperationKeepsTruth, RunKeepsTruth, WaitKeepsTruth DEF FaultInv
<1>3. CASE UNCHANGED faultVars
  <2>1. sim' = sim /\ workers' = workers /\ replicas' = replicas /\ raised' = raised /\ records' = records
    BY <1>3 DEF faultVars, vars
  <2>2. FailuresLast' /\ LossesLast' /\ RaisesOnlyOnCopies'
    BY <2>1, LastStays, RaisesStay DEF FaultInv, ResourceInv, Copied
  <2>3. StartedOnce'
    BY <2>1 DEF FaultInv, StartedOnce, Copied, History
  <2>4. RecordsInv'
    BY <2>1 DEF FaultInv, RecordsInv, CancelledByFault, TransformationsAreSound
  <2> QED
    BY <1>1, <2>2, <2>3, <2>4 DEF FaultInv
<1> QED
  BY <1>2, <1>3 DEF AnyStep

(* What the faults have recorded is what the simulator has done.           *)
THEOREM FaultInvariant == FaultSpec => []FaultInv
<1>1. FaultInit => FaultInv
  BY InitiallyTrue
<1>2. FaultInv /\ [FaultNext]_faultVars => FaultInv'
  BY FaultStepIsAny, StepKeepsTruth DEF FaultInv
<1> QED
  BY <1>1, <1>2, PTL DEF FaultSpec

(* What a fault has cancelled is neither executed nor pending, what it has *)
(* produced is executed, pending or cancelled by another fault, and a      *)
(* reordered delivery comes after its anchor: assert_ground_truth.         *)
LEMMA DeliveriesAreTrue ==
  ASSUME FaultInv
  PROVE  DeliveryGroundTruth
<1>1. RecordsInv /\ KernelInv(sim)
  BY DEF FaultInv, ResourceInv, EventsInv
<1>2. DOMAIN sim.trace \subseteq Nat
  BY <1>1, KernelFacts
<1>3. \A id : id \in Ids(History(sim)) <=> Executed(id) \/ Live(id)
  BY DEF History, Ids, Executed, Live, ToSet
<1>4. \A i \in DOMAIN sim.trace : ExecutedAt(sim.trace[i].id) = i
  BY <1>1 DEF KernelInv, TraceInv, ExecutedAt
<1>5. ASSUME NEW i \in DOMAIN records, records[i].class = "DELIVERY_REORDER", NEW id \in records[i].produced,
             Executed(records[i].anchor.id), Executed(id)
      PROVE  ExecutedAt(records[i].anchor.id) < ExecutedAt(id)
  <2>1. PICK j, k \in DOMAIN sim.trace : sim.trace[j].id = records[i].anchor.id /\ sim.trace[k].id = id
    BY <1>5 DEF Executed
  <2>2. Before(sim.trace[j], sim.trace[k])
    BY <1>1, <1>5, <2>1 DEF RecordsInv, RecordTrue, History, ToSet
  <2>3. \A x \in DOMAIN sim.trace : sim.trace[x].time \in Nat /\ sim.trace[x].sequence \in Nat
    BY <1>1, KernelFacts
  <2>4. k < j => Before(sim.trace[k], sim.trace[j])
    BY <1>1 DEF KernelInv, TraceInv
  <2>5. j < k
    BY <1>2, <2>2, <2>3, <2>4 DEF Before
  <2> QED
    BY <1>4, <2>1, <2>5
<1>6. ASSUME NEW i \in DOMAIN records
      PROVE  /\ \A id \in records[i].cancelled : ~Executed(id) /\ ~Live(id)
             /\ \A id \in records[i].produced : Executed(id) \/ Live(id) \/ id \in CancelledByFault
  BY <1>1, <1>3, <1>6 DEF RecordsInv, RecordTrue
<1> QED
  BY <1>5, <1>6 DEF DeliveryGroundTruth

(* The trust oracle reads the records, the heap and the trace.             *)
LEMMA RecordsAreTrusted ==
  ASSUME FaultInv
  PROVE  TrustOracle
<1>1. RecordsInv
  BY DEF FaultInv
<1>2. ASSUME NEW i \in DOMAIN records
      PROVE  ShapeIsSound(records[i]) /\ ProducedAsRecorded(records[i]) /\ records[i].injected <= sim.now
  <2>1. RecordTyped(sim, records[i]) /\ RecordTrue(sim, CancelledByFault, records[i])
    BY <1>1, <1>2 DEF RecordsInv
  <2>2. ShapeIsSound(records[i])
    BY <2>1 DEF RecordTyped, ShapeIsSound
  <2>3. ProducedAsRecorded(records[i])
    BY <2>1 DEF RecordTrue, AsRecorded, History, ProducedAsRecorded
  <2> QED
    BY <2>1, <2>2, <2>3 DEF RecordTyped
<1> QED
  BY <1>1, <1>2 DEF RecordsInv, TrustOracle

(* What the judges read: deliveries, workers and replicas.                 *)
LEMMA RecordsAreTrue ==
  ASSUME FaultInv
  PROVE  GroundTruth
<1>1. RecordsInv /\ FailuresLast /\ LossesLast
  BY DEF FaultInv
<1>2. \A i \in DOMAIN records : \A j \in DOMAIN sim.trace :
        sim.trace[j].id \in records[i].produced => AsRecorded(records[i], sim.trace[j])
  BY <1>1 DEF RecordsInv, RecordTrue, History, ToSet
<1>3. WorkerGroundTruth
  BY <1>1, <1>2 DEF FailuresLast, AsRecorded, WorkerGroundTruth
<1>4. LossGroundTruth
  BY <1>1, <1>2 DEF LossesLast, AsRecorded, LossGroundTruth, HasEnded, Executed
<1> QED
  BY <1>3, <1>4, DeliveriesAreTrue, RecordsAreTrusted DEF GroundTruth

(* What assert_ground_truth and the trust oracle judge holds, evictions    *)
(* aside, however faults hit the deliveries of earlier faults: of the      *)
(* deliveries, of failed workers and of lost replicas.                     *)
THEOREM GroundTruthHolds == FaultSpec => []GroundTruth
BY RecordsAreTrue, FaultInvariant, PTL

(* No handler raises out of run() unless a start of a materialization has  *)
(* been copied and both have arrived: every other copied, delayed or       *)
(* reordered delivery finds its handler prepared.                          *)
THEOREM OnlyCopiesRaise == FaultSpec => []RaisesOnlyOnCopies
<1>1. FaultInv => RaisesOnlyOnCopies
  BY DEF FaultInv
<1> QED
  BY <1>1, FaultInvariant, PTL
===========================================================================
