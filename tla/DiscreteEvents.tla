--------------------------- MODULE DiscreteEvents ---------------------------
(***************************************************************************)
(* The event kernel of the simulator (simulator/engine.py), as operators   *)
(* on its state s: a heap of events ordered by time and insertion,         *)
(* cancelled lazily, executed one by one.                                  *)
(*   s.now  s.queue  s.cancelled  s.known  s.next  s.trace                 *)
(* stand for now, _queue, _cancelled, _known_ids, _next_sequence, _trace;  *)
(* _pending_ids is the set of the ids in the heap.  Times are naturals.    *)
(***************************************************************************)
EXTENDS Integers, Sequences, FiniteSets

NewSimulator ==
  [now |-> 0, queue |-> {}, cancelled |-> {}, known |-> {}, next |-> 0, trace |-> << >>]

(* The order of SimEvent: time, then insertion.                            *)
Before(e, f) == e.time < f.time \/ (e.time = f.time /\ e.sequence < f.sequence)

Ids(events) == {e.id : e \in events}

(* pending_events                                                          *)
Pending(s) == {e \in s.queue : e.id \notin s.cancelled}

(* What schedule is asked for; without an event_id one is made from the    *)
(* sequence number.                                                        *)
Order(kind, at, id, subject) == [kind |-> kind, at |-> at, id |-> id, subject |-> subject]
NoId == << >>
ActualId(order, sequence) == IF order.id = NoId THEN <<"event", sequence>> ELSE order.id

(* Mutant: an event must be later than now.                                *)
StrictlyLater(s, order) == order.at > s.now /\ ActualId(order, s.next) \notin s.known

(* schedule accepts: not in the past, and no event_id twice.               *)
Schedulable(s, order) == order.at >= s.now /\ ActualId(order, s.next) \notin s.known

(* schedule, for one order after the other.                                *)
Scheduled(s, orders) ==
  LET event(i) == [time |-> orders[i].at, sequence |-> s.next + i - 1,
                   id |-> ActualId(orders[i], s.next + i - 1),
                   kind |-> orders[i].kind, subject |-> orders[i].subject]
      events == {event(i) : i \in DOMAIN orders}
  IN [s EXCEPT !.queue = @ \cup events, !.known = @ \cup Ids(events), !.next = @ + Len(orders)]

(* cancel; an event that is not pending is not cancelled.                  *)
Cancelled(s, ids) == [s EXCEPT !.cancelled = @ \cup (ids \cap Ids(s.queue))]

(* Mutant: the events are executed in the order of their insertion.        *)
IsOldest(s, e) == e \in Pending(s) /\ \A f \in Pending(s) : e.sequence <= f.sequence

(* run pops the cancelled events in front of the first live one and        *)
(* executes that.                                                          *)
IsEarliest(s, e) == e \in Pending(s) /\ \A f \in Pending(s) \ {e} : Before(e, f)

(* Mutant: a popped event keeps its mark, and executes all the same.       *)
PoppedUnmarked(s, e) ==
  [s EXCEPT !.queue = {f \in @ : Before(e, f)}, !.cancelled = {},
            !.now = e.time, !.trace = Append(@, e)]

Popped(s, e) ==
  LET rest == {f \in s.queue \ {e} : f.id \in s.cancelled => Before(e, f)}
  IN [s EXCEPT !.queue = rest, !.cancelled = @ \cap Ids(rest),
               !.now = e.time, !.trace = Append(@, e)]

(* run(until) ends: nothing live is left up to the horizon.                *)
Reaches(s, until) == until >= s.now /\ \A e \in Pending(s) : e.time > until

(* Cancelled events up to the horizon have been popped.                    *)
AtHorizon(s, until) ==
  LET rest == {e \in s.queue : e.id \in s.cancelled => e.time > until}
  IN [s EXCEPT !.queue = rest, !.cancelled = @ \cap Ids(rest), !.now = until]
===========================================================================
