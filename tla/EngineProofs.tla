---------------------------- MODULE EngineProofs ---------------------------
(***************************************************************************)
(* The two engines that run by a clock of their own.  For every set of     *)
(* identifiers, delays and horizons: the simulator executes events in the  *)
(* order of time and insertion, each at most once, and none that was       *)
(* cancelled.  For every set of States, every capacity and every length of *)
(* a Program: what a retention policy protects is not taken away by the    *)
(* engine, what is resident fits at every checkpoint, no assertion can     *)
(* fail, and the accounts of resident time balance.                        *)
(***************************************************************************)
EXTENDS EventKernel, RetentionEngine, FiniteSetTheorems, WellFoundedInduction, TLAPS

---------------------------------------------------------------------------
(* The event kernel.                                                       *)

(* The events and the simulators there can be.                             *)
AllIds == Identifiers \cup {<<"event", n>> : n \in Nat}
Events == [time : Nat, sequence : Nat, id : AllIds, kind : {"any"}, subject : {"any"}]
Simulators ==
  [now : Nat, queue : SUBSET Events, cancelled : SUBSET AllIds, known : SUBSET AllIds,
   next : Nat, trace : Seq(Events)]

(* The heap: what is in it lies ahead, is known and has its id to itself.  *)
HeapInv(s) ==
  /\ \A e \in s.queue : e.time >= s.now /\ e.sequence < s.next /\ e.id \in s.known
  /\ \A e, f \in s.queue : e.id = f.id => e = f
  /\ s.cancelled \subseteq Ids(s.queue)

(* The trace: it is in order, lies behind, and came before all that is     *)
(* still in the heap.                                                      *)
TraceInv(s) ==
  /\ \A i \in DOMAIN s.trace :
       /\ s.trace[i].time <= s.now /\ s.trace[i].sequence < s.next
       /\ s.trace[i].id \in s.known
       /\ \A e \in s.queue : Before(s.trace[i], e) /\ s.trace[i].id # e.id
  /\ \A i, j \in DOMAIN s.trace : i < j => Before(s.trace[i], s.trace[j])
  /\ \A i, j \in DOMAIN s.trace : s.trace[i].id = s.trace[j].id => i = j

(* The inductive invariant.                                                *)
KernelInv(s) == s \in Simulators /\ HeapInv(s) /\ TraceInv(s)

---------------------------------------------------------------------------
(* The executed events are events.                                         *)
LEMMA TraceHasEvents ==
  ASSUME NEW s \in Simulators
  PROVE  \A i \in DOMAIN s.trace :
           /\ s.trace[i] \in Events
           /\ s.trace[i].time \in Nat /\ s.trace[i].sequence \in Nat
<1>1. s.trace \in Seq(Events)
  BY DEF Simulators
<1>2. \A i \in DOMAIN s.trace : s.trace[i] \in Events
  BY <1>1
<1> QED
  BY <1>2 DEF Events

(* schedule of one event (simulator/engine.py, schedule).                  *)
LEMMA ScheduleKeeps ==
  ASSUME NEW s, KernelInv(s), NEW delay \in Nat, NEW id \in Identifiers \cup {NoId},
         Schedulable(s, Order("any", s.now + delay, id, "any"))
  PROVE  KernelInv(Scheduled(s, <<Order("any", s.now + delay, id, "any")>>))
<1> DEFINE order == Order("any", s.now + delay, id, "any")
           event == [time |-> order.at, sequence |-> s.next, id |-> ActualId(order, s.next),
                     kind |-> order.kind, subject |-> order.subject]
           t == Scheduled(s, <<order>>)
<1>1. /\ s.now \in Nat /\ s.next \in Nat
      /\ s.queue \subseteq Events /\ s.known \subseteq AllIds /\ s.trace \in Seq(Events)
  BY DEF KernelInv, Simulators
<1>2. order.at = s.now + delay /\ order.id = id /\ order.kind = "any" /\ order.subject = "any"
  BY DEF Order
<1>3. ActualId(order, s.next) \in AllIds
  BY <1>1, <1>2 DEF ActualId, AllIds
<1>4. event \in Events
  BY <1>1, <1>2, <1>3 DEF Events
<1>5. /\ event.time >= s.now /\ event.sequence = s.next
      /\ event.id \notin s.known
  BY <1>1, <1>2 DEF Schedulable
<1>6. t = [s EXCEPT !.queue = @ \cup {event}, !.known = @ \cup {event.id}, !.next = @ + 1]
  <2>1. /\ Len(<<order>>) = 1 /\ DOMAIN <<order>> = {1} /\ <<order>>[1] = order
    OBVIOUS
  <2>2. s.next + 1 - 1 = s.next
    BY <1>1
  <2> DEFINE new(i) == [time |-> <<order>>[i].at, sequence |-> s.next + i - 1,
                        id |-> ActualId(<<order>>[i], s.next + i - 1),
                        kind |-> <<order>>[i].kind, subject |-> <<order>>[i].subject]
  <2>3. new(1) = event
    BY <2>1, <2>2
  <2>4. {new(i) : i \in DOMAIN <<order>>} = {event}
    BY <2>1, <2>3
  <2>5. Ids({event}) = {event.id}
    BY DEF Ids
  <2>6. t = [s EXCEPT !.queue = @ \cup {new(i) : i \in DOMAIN <<order>>},
                      !.known = @ \cup Ids({new(i) : i \in DOMAIN <<order>>}),
                      !.next = @ + Len(<<order>>)]
    BY DEF Scheduled
  <2> QED
    BY <2>1, <2>4, <2>5, <2>6
<1>7. /\ t.queue = s.queue \cup {event} /\ t.known = s.known \cup {event.id}
      /\ t.next = s.next + 1 /\ t.now = s.now /\ t.cancelled = s.cancelled /\ t.trace = s.trace
  BY <1>6 DEF KernelInv, Simulators
<1> HIDE DEF event, order, t
<1>8. t \in Simulators
  <2>1. event.id \in AllIds
    BY <1>4 DEF Events
  <2>2. /\ s.queue \cup {event} \in SUBSET Events
        /\ s.known \cup {event.id} \in SUBSET AllIds
        /\ s.next + 1 \in Nat
    BY <1>1, <1>4, <2>1
  <2> QED
    BY <1>6, <2>2 DEF KernelInv, Simulators
<1>9. HeapInv(t)
  BY <1>1, <1>4, <1>5, <1>7 DEF KernelInv, HeapInv, Ids, Events
<1>10. TraceInv(t)
  <2>1. \A i \in DOMAIN s.trace : Before(s.trace[i], event)
    <3>1. event.time \in Nat /\ event.sequence \in Nat
      BY <1>4 DEF Events
    <3> QED
      BY <1>1, <1>5, <3>1, TraceHasEvents DEF KernelInv, TraceInv, Before
  <2>2. \A i \in DOMAIN s.trace : s.trace[i].sequence < s.next + 1 /\ s.trace[i].id # event.id
    BY <1>1, <1>5, TraceHasEvents DEF KernelInv, TraceInv
  <2> QED
    BY <1>7, <2>1, <2>2 DEF KernelInv, TraceInv
<1> QED
  BY <1>8, <1>9, <1>10 DEF KernelInv, t, order

(* cancel only marks.                                                      *)
LEMMA CancelKeeps ==
  ASSUME NEW s, KernelInv(s), NEW id
  PROVE  KernelInv(Cancelled(s, {id}))
<1> DEFINE t == Cancelled(s, {id})
<1>1. t = [s EXCEPT !.cancelled = @ \cup ({id} \cap Ids(s.queue))]
  BY DEF Cancelled
<1>2. Ids(s.queue) \subseteq AllIds
  BY DEF KernelInv, Simulators, Ids, Events
<1>3. /\ t.queue = s.queue /\ t.known = s.known /\ t.next = s.next /\ t.now = s.now
      /\ t.trace = s.trace /\ t.cancelled = s.cancelled \cup ({id} \cap Ids(s.queue))
  BY <1>1 DEF KernelInv, Simulators
<1>4. t \in Simulators
  BY <1>1, <1>2 DEF KernelInv, Simulators
<1> HIDE DEF t
<1>5. HeapInv(t) /\ TraceInv(t)
  BY <1>3 DEF KernelInv, HeapInv, TraceInv
<1> QED
  BY <1>4, <1>5 DEF KernelInv, t

(* run pops the earliest live event e: all that stays comes after it.      *)
LEMMA PopKeeps ==
  ASSUME NEW s, KernelInv(s), NEW e \in s.queue, IsEarliest(s, e)
  PROVE  KernelInv(Popped(s, e))
<1> DEFINE rest == {f \in s.queue \ {e} : f.id \in s.cancelled => Before(e, f)}
           t == Popped(s, e)
<1>1. t = [s EXCEPT !.queue = rest, !.cancelled = @ \cap Ids(rest),
                    !.now = e.time, !.trace = Append(@, e)]
  BY DEF Popped
<1>2. /\ s.now \in Nat /\ s.next \in Nat /\ s.queue \subseteq Events
      /\ s.trace \in Seq(Events) /\ s.cancelled \subseteq AllIds /\ s.known \subseteq AllIds
  BY DEF KernelInv, Simulators
<1>3. e \in Events /\ e.time \in Nat /\ e.sequence \in Nat
  BY <1>2 DEF Events
<1>4. \A f \in rest : f \in s.queue /\ f # e /\ Before(e, f)
  BY DEF IsEarliest, Pending
<1>5. /\ t.queue = rest /\ t.cancelled = s.cancelled \cap Ids(rest) /\ t.known = s.known
      /\ t.next = s.next /\ t.now = e.time /\ t.trace = Append(s.trace, e)
  BY <1>1 DEF KernelInv, Simulators
<1>6. t \in Simulators
  <2>1. /\ Append(s.trace, e) \in Seq(Events)
        /\ rest \subseteq Events /\ s.cancelled \cap Ids(rest) \subseteq AllIds
    BY <1>2, <1>3
  <2> QED
    BY <1>1, <1>3, <2>1 DEF KernelInv, Simulators
<1> HIDE DEF rest, t
<1>7. HeapInv(t)
  <2>1. \A f \in rest : f.time >= e.time
    BY <1>2, <1>3, <1>4 DEF Before, Events
  <2> QED
    BY <1>4, <1>5, <2>1 DEF KernelInv, HeapInv
<1>8. TraceInv(t)
  <2>1. /\ DOMAIN t.trace = 1..(Len(s.trace) + 1) /\ DOMAIN s.trace = 1..Len(s.trace)
        /\ Len(s.trace) \in Nat
        /\ t.trace[Len(s.trace) + 1] = e
        /\ \A i \in DOMAIN s.trace : t.trace[i] = s.trace[i]
    BY <1>2, <1>3, <1>5
  <2>2. /\ e.time >= s.now /\ e.sequence < s.next /\ e.id \in s.known
        /\ \A f \in rest : f.id # e.id
    BY <1>4 DEF KernelInv, HeapInv
  <2>3. \A i \in DOMAIN s.trace :
          /\ s.trace[i] \in Events
          /\ s.trace[i].time <= e.time /\ s.trace[i].sequence < s.next
          /\ s.trace[i].id \in s.known
          /\ Before(s.trace[i], e) /\ s.trace[i].id # e.id
          /\ \A f \in rest : Before(s.trace[i], f) /\ s.trace[i].id # f.id
    <3>1. \A i \in DOMAIN s.trace : s.trace[i] \in Events
      BY <1>2
    <3> QED
      BY <1>2, <1>3, <1>4, <2>2, <3>1 DEF KernelInv, TraceInv, Events
  <2>4. ASSUME NEW i \in DOMAIN t.trace
        PROVE  /\ t.trace[i].time <= t.now /\ t.trace[i].sequence < t.next
               /\ t.trace[i].id \in t.known
               /\ \A f \in t.queue : Before(t.trace[i], f) /\ t.trace[i].id # f.id
    <3>1. CASE i \in DOMAIN s.trace
      BY <1>5, <2>1, <2>3, <3>1
    <3>2. CASE i = Len(s.trace) + 1
      BY <1>3, <1>4, <1>5, <2>1, <2>2, <3>2
    <3> QED
      BY <2>1, <2>4, <3>1, <3>2
  <2>5. ASSUME NEW i \in DOMAIN t.trace, NEW j \in DOMAIN t.trace
        PROVE  /\ i < j => Before(t.trace[i], t.trace[j])
               /\ t.trace[i].id = t.trace[j].id => i = j
    <3>1. CASE i \in DOMAIN s.trace /\ j \in DOMAIN s.trace
      BY <2>1, <3>1 DEF KernelInv, TraceInv
    <3>2. CASE i \in DOMAIN s.trace /\ j = Len(s.trace) + 1
      BY <2>1, <2>3, <3>2
    <3>3. CASE i = Len(s.trace) + 1 /\ j \in DOMAIN s.trace
      BY <2>1, <2>3, <3>3
    <3>4. CASE i = Len(s.trace) + 1 /\ j = Len(s.trace) + 1
      BY <2>1, <3>4
    <3> QED
      BY <2>1, <2>5, <3>1, <3>2, <3>3, <3>4
  <2> QED
    BY <2>4, <2>5 DEF TraceInv
<1> QED
  BY <1>6, <1>7, <1>8 DEF KernelInv, t

(* run reaches its horizon: the cancelled events before it are dropped.    *)
LEMMA HorizonKeeps ==
  ASSUME NEW s, KernelInv(s), NEW until \in Nat, Reaches(s, until)
  PROVE  KernelInv(AtHorizon(s, until))
<1> DEFINE rest == {e \in s.queue : e.id \in s.cancelled => e.time > until}
           t == AtHorizon(s, until)
<1>1. t = [s EXCEPT !.queue = rest, !.cancelled = @ \cap Ids(rest), !.now = until]
  BY DEF AtHorizon
<1>2. /\ s.now \in Nat /\ s.queue \subseteq Events /\ s.trace \in Seq(Events)
      /\ s.cancelled \subseteq AllIds /\ until >= s.now
  BY DEF KernelInv, Simulators, Reaches
<1>3. \A e \in rest : e \in s.queue /\ e.time > until /\ e.time \in Nat
  BY <1>2 DEF Reaches, Pending, Events
<1>4. /\ t.queue = rest /\ t.cancelled = s.cancelled \cap Ids(rest) /\ t.known = s.known
      /\ t.next = s.next /\ t.now = until /\ t.trace = s.trace
  BY <1>1 DEF KernelInv, Simulators
<1>5. t \in Simulators
  BY <1>1, <1>2 DEF KernelInv, Simulators
<1> HIDE DEF rest, t
<1>6. HeapInv(t)
  BY <1>2, <1>3, <1>4 DEF KernelInv, HeapInv
<1>7. TraceInv(t)
  BY <1>2, <1>3, <1>4, TraceHasEvents DEF KernelInv, TraceInv
<1> QED
  BY <1>5, <1>6, <1>7 DEF KernelInv, t

---------------------------------------------------------------------------
(* The invariant holds in every reachable state of the kernel.             *)
THEOREM KernelInvariant == KernelSpec => []KernelInv(sim)
<1> USE KernelAssumption
<1>1. KernelInit => KernelInv(sim)
  BY DEF KernelInit, NewSimulator, KernelInv, Simulators, HeapInv, TraceInv, Ids
<1>2. KernelInv(sim) /\ [KernelNext]_sim => KernelInv(sim)'
  <2> SUFFICES ASSUME KernelInv(sim), [KernelNext]_sim PROVE KernelInv(sim')
    OBVIOUS
  <2>1. ASSUME NEW delay \in Delays, NEW id \in Identifiers \cup {NoId},
               Schedule(Order("any", sim.now + delay, id, "any"))
        PROVE  KernelInv(sim')
    BY <2>1, ScheduleKeeps DEF Schedule
  <2>2. ASSUME NEW e \in sim.queue, Cancel(e.id) PROVE KernelInv(sim')
    BY <2>2, CancelKeeps DEF Cancel
  <2>3. CASE RunNext
    BY <2>3, PopKeeps DEF RunNext
  <2>4. ASSUME NEW until \in Horizons, RunUntil(until) PROVE KernelInv(sim')
    BY <2>4, HorizonKeeps DEF RunUntil
  <2>5. CASE UNCHANGED sim
    BY <2>5
  <2> QED
    BY <2>1, <2>2, <2>3, <2>4, <2>5 DEF KernelNext
<1> QED
  BY <1>1, <1>2, PTL DEF KernelSpec

(* The bookkeeping of the kernel is well typed, and what it executes is in *)
(* the order of time and insertion, at most once and under an id of its    *)
(* own (simulator/engine.py, run).                                         *)
THEOREM TraceOrdered == KernelSpec => []TraceIsOrdered
<1>1. KernelInv(sim) => TraceIsOrdered
  <2> SUFFICES ASSUME KernelInv(sim) PROVE TraceIsOrdered
    OBVIOUS
  <2>1. sim.queue \subseteq Events /\ sim.now \in Nat /\ sim.next \in Nat
    BY DEF KernelInv, Simulators
  <2>2. KernelTypeOK
    BY <2>1 DEF KernelTypeOK, KernelInv, HeapInv, TraceInv, Ids, Events
  <2> QED
    BY <2>1, <2>2 DEF TraceIsOrdered, KernelInv, HeapInv, TraceInv, Ids
<1> QED
  BY <1>1, KernelInvariant, PTL

(* A cancelled event never enters the trace: it stays marked, or leaves    *)
(* the heap (simulator/engine.py, cancel and run).                         *)
THEOREM CancelledStays == KernelSpec => CancelledNeverRuns
<1> DEFINE Stays(id) ==
      \/ id \in sim'.cancelled
      \/ /\ id \notin Ids(sim'.queue)
         /\ \A i \in DOMAIN sim'.trace : sim'.trace[i].id # id
<1>1. KernelInv(sim) /\ [KernelNext]_sim => [\A id \in sim.cancelled : Stays(id)]_sim
  <2> SUFFICES ASSUME KernelInv(sim), KernelNext, NEW id \in sim.cancelled PROVE Stays(id)
    OBVIOUS
  <2>1. /\ DOMAIN sim = {"now", "queue", "cancelled", "known", "next", "trace"}
        /\ sim.trace \in Seq(Events)
        /\ \A i \in DOMAIN sim.trace : sim.trace[i].id # id
        /\ sim.queue \subseteq Events
    BY DEF KernelInv, Simulators, HeapInv, TraceInv, Ids
  <2>2. ASSUME NEW order, sim' = Scheduled(sim, <<order>>) PROVE Stays(id)
    BY <2>1, <2>2 DEF Scheduled
  <2>3. ASSUME NEW other, sim' = Cancelled(sim, {other}) PROVE Stays(id)
    BY <2>1, <2>3 DEF Cancelled
  <2>4. ASSUME NEW e \in sim.queue, IsEarliest(sim, e), sim' = Popped(sim, e) PROVE Stays(id)
    <3> DEFINE rest == {f \in sim.queue \ {e} : f.id \in sim.cancelled => Before(e, f)}
    <3>1. /\ sim'.queue = rest /\ sim'.cancelled = sim.cancelled \cap Ids(rest)
          /\ sim'.trace = Append(sim.trace, e)
      BY <2>1, <2>4 DEF Popped
    <3>2. e.id # id /\ e \in Events
      BY <2>1, <2>4 DEF IsEarliest, Pending
    <3>3. \A i \in DOMAIN sim'.trace : sim'.trace[i].id # id
      BY <2>1, <3>1, <3>2
    <3> QED
      BY <3>1, <3>3
  <2>5. ASSUME NEW until, sim' = AtHorizon(sim, until) PROVE Stays(id)
    <3> DEFINE rest == {e \in sim.queue : e.id \in sim.cancelled => e.time > until}
    <3>1. /\ sim'.queue = rest /\ sim'.cancelled = sim.cancelled \cap Ids(rest)
          /\ sim'.trace = sim.trace
      BY <2>1, <2>5 DEF AtHorizon
    <3> QED
      BY <2>1, <3>1
  <2> QED
    BY <2>2, <2>3, <2>4, <2>5 DEF KernelNext, Schedule, Cancel, RunNext, RunUntil
<1> QED
  BY <1>1, KernelInvariant, PTL DEF KernelSpec, CancelledNeverRuns

---------------------------------------------------------------------------
(* The retention engine.                                                   *)

RetentionSpec == RetentionInit /\ [][RetentionNext]_rvars

(* An interval of residency and the truth of a State.                      *)
Intervals == [since : Int, ordinal : Int, expiry : Int]
Truths == [valid : BOOLEAN, lifecycle : Lifecycles, produced : BOOLEAN]

(* Types, as far as the proofs need them.                                  *)
RetentionTypes ==
  /\ cell \in [policy : {"LRU", "FIXED_TTL", "SESSION_PINNING", "LIFECYCLE_B4"},
               capacity : Capacities, ttl : Ttls]
  /\ now \in Nat /\ ordinal \in Nat
  /\ truth \in [RStates -> Truths]
  /\ DOMAIN resident \subseteq RStates
  /\ resident \in [DOMAIN resident -> Intervals]

(* Only FIXED_TTL gives a State an expiry, so the expiries of the engine   *)
(* never take a State that another policy protects.                        *)
OnlyTtlExpires == ~Is({"FIXED_TTL"}) => \A s \in Resident : resident[s].expiry = Never

RetentionInv == RetentionTypes /\ OnlyTtlExpires

---------------------------------------------------------------------------
(* _close_intervals of States that leave: the others stay as they are.     *)
LEMMA ReleaseKeepsOthers ==
  ASSUME NEW gone, Release(gone), RetentionInv
  PROVE  /\ DOMAIN resident' = Resident \ gone
         /\ \A s \in Resident \ gone : resident'[s] = resident[s]
         /\ resident' \in [DOMAIN resident' -> Intervals]
BY DEF Release, Restrict, Resident, RetentionInv, RetentionTypes

(* The invariant after a release, when the rest of it is untouched.        *)
LEMMA ReleaseKeepsInv ==
  ASSUME NEW gone, Release(gone), RetentionInv,
         UNCHANGED <<cell, now, ordinal>>, truth' \in [RStates -> Truths]
  PROVE  RetentionInv'
BY ReleaseKeepsOthers, ZenonT(60)
DEF RetentionInv, RetentionTypes, OnlyTtlExpires, Is, Resident

(* The class of a State is one of the lifecycles (_derive_lifecycle).      *)
LEMMA DerivedIsLifecycle ==
  ASSUME NEW dependents PROVE DeriveLifecycle(dependents) \in Lifecycles
BY DEF DeriveLifecycle, Lifecycles

LEMMA AdmitKeepsInv ==
  ASSUME RetentionInv, NEW s \in RStates, Admit(s)
  PROVE  RetentionInv'
<1> USE RetentionAssumption
<1>1. truth' \in [RStates -> Truths]
  BY ZenonT(60) DEF RetentionInv, RetentionTypes, Admit, Truths
<1>2. ordinal' \in Nat /\ cell' = cell /\ now' = now
  BY DEF RetentionInv, RetentionTypes, Admit
<1>3. CASE resident' = resident
  BY <1>1, <1>2, <1>3 DEF RetentionInv, RetentionTypes, OnlyTtlExpires, Is, Resident
<1>4. CASE resident' = [x \in Resident \cup {s} |->
                          IF x # s THEN resident[x]
                          ELSE [since |-> now, ordinal |-> ordinal,
                                expiry |-> IF Is({"FIXED_TTL"}) THEN now + cell.ttl ELSE Never]]
  <2> DEFINE new == [since |-> now, ordinal |-> ordinal,
                     expiry |-> IF Is({"FIXED_TTL"}) THEN now + cell.ttl ELSE Never]
  <2>1. now \in Int /\ ordinal \in Int /\ cell.ttl \in Int
    BY DEF RetentionInv, RetentionTypes
  <2>2. new \in Intervals
    BY <2>1 DEF Intervals, Never
  <2>3. /\ DOMAIN resident' = Resident \cup {s}
        /\ resident' \in [DOMAIN resident' -> Intervals]
    BY <1>4, <2>2 DEF RetentionInv, RetentionTypes, Resident
  <2>4. OnlyTtlExpires'
    BY <1>2, <1>4, <2>3 DEF RetentionInv, OnlyTtlExpires, Is, Resident
  <2> QED
    BY <1>1, <1>2, <2>3, <2>4 DEF RetentionInv, RetentionTypes, Resident
<1>5. CASE Skipped(s) \/ Infeasible(s)
  <2>1. resident' = resident
    BY <1>5, Zenon DEF Admit
  <2> QED
    BY <1>3, <2>1
<1>6. CASE ~(Skipped(s) \/ Infeasible(s))
  <2>1. resident' = [x \in Resident \cup {s} |->
                       IF x # s THEN resident[x]
                       ELSE [since |-> now, ordinal |-> ordinal,
                             expiry |-> IF Is({"FIXED_TTL"}) THEN now + cell.ttl ELSE Never]]
    BY <1>6, Zenon DEF Admit
  <2> QED
    BY <1>4, <2>1
<1> QED
  BY <1>5, <1>6

(* No step of the engine breaks it.                                        *)
LEMMA RetentionStep ==
  ASSUME RetentionInv, [RetentionNext]_rvars PROVE RetentionInv'
<1> USE RetentionAssumption
<1>1. ASSUME NEW t \in 1..MaxTime, Advance(t) PROVE RetentionInv'
  BY <1>1 DEF Advance, RetentionInv, RetentionTypes, OnlyTtlExpires, Is, Resident
<1>2. ASSUME NEW s \in RStates, Invalidate(s) PROVE RetentionInv'
  <2>1. truth' \in [RStates -> Truths]
    BY <1>2 DEF Invalidate, RetentionInv, RetentionTypes, Truths
  <2> QED
    BY <1>2, <2>1, ReleaseKeepsInv DEF Invalidate
<1>3. ASSUME NEW s \in RStates, Reuse(s) PROVE RetentionInv'
  <2>1. [resident[s] EXCEPT !.since = now] \in Intervals
    BY <1>3 DEF Reuse, RetentionInv, RetentionTypes, Intervals, Resident
  <2>2. resident' = [resident EXCEPT ![s] = [resident[s] EXCEPT !.since = now]]
    BY <1>3 DEF Reuse
  <2>3. [resident[s] EXCEPT !.since = now].expiry = resident[s].expiry
    BY <1>3 DEF Reuse, RetentionInv, RetentionTypes, Intervals, Resident
  <2>4. DOMAIN resident' = DOMAIN resident
    BY <2>2
  <2> QED
    BY <1>3, <2>1, <2>2, <2>3, <2>4
    DEF Reuse, RetentionInv, RetentionTypes, OnlyTtlExpires, Is, Resident
<1>4. ASSUME NEW s \in RStates, Admit(s) PROVE RetentionInv'
  BY <1>4, AdmitKeepsInv
<1>5. CASE UpdateTruth
  <2>1. truth' \in [RStates -> Truths]
    BY <1>5, DerivedIsLifecycle DEF UpdateTruth, RetentionInv, RetentionTypes, Truths
  <2> QED
    BY <1>5, <2>1 DEF UpdateTruth, RetentionInv, RetentionTypes, OnlyTtlExpires, Is, Resident
<1>6. CASE ReleaseAndExpire
  BY <1>6, ReleaseKeepsInv DEF ReleaseAndExpire, RetentionInv, RetentionTypes
<1>7. CASE CapacityEnforce
  <2>1. CASE Release(Victims)
    BY <1>7, <2>1, ReleaseKeepsInv DEF CapacityEnforce, RetentionInv, RetentionTypes
  <2>2. CASE UNCHANGED resident
    BY <1>7, <2>2 DEF CapacityEnforce, RetentionInv, RetentionTypes, OnlyTtlExpires, Is, Resident
  <2> QED
    BY <1>7, <2>1, <2>2 DEF CapacityEnforce
<1>8. CASE ProgramEnd
  BY <1>8, ReleaseKeepsInv DEF ProgramEnd, RetentionInv, RetentionTypes
<1>9. CASE UNCHANGED rvars
  BY <1>9 DEF rvars, RetentionInv, RetentionTypes, OnlyTtlExpires, Is, Resident
<1> QED
  BY <1>1, <1>2, <1>3, <1>4, <1>5, <1>6, <1>7, <1>8, <1>9 DEF RetentionNext

(* The invariant holds in every reachable state of the engine.             *)
THEOREM RetentionInvariant == RetentionSpec => []RetentionInv
<1> USE RetentionAssumption
<1>1. RetentionInit => RetentionInv
  <2> SUFFICES ASSUME RetentionInit PROVE RetentionInv
    OBVIOUS
  <2>1. resident = <<>> /\ DOMAIN resident = {}
    BY DEF RetentionInit
  <2>2. resident \in [DOMAIN resident -> Intervals]
    BY <2>1
  <2>3. truth \in [RStates -> Truths]
    BY DEF RetentionInit, Truths
  <2>4. OnlyTtlExpires
    BY <2>1 DEF OnlyTtlExpires, Resident
  <2> QED
    BY <2>1, <2>2, <2>3, <2>4 DEF RetentionInit, RetentionInv, RetentionTypes
<1>2. RetentionInv /\ [RetentionNext]_rvars => RetentionInv'
  BY RetentionStep
<1> QED
  BY <1>1, <1>2, PTL DEF RetentionSpec

---------------------------------------------------------------------------
(* The enforcement of the capacity takes nothing that is protected: under  *)
(* SESSION_PINNING it takes nothing at all, under LIFECYCLE_B4 nothing     *)
(* ACTIVE (_capacity_enforce).                                             *)
LEMMA VictimsAreUnprotected ==
  ASSUME RetentionInv, NEW s \in Victims, Protects(s), ~(Is({"SESSION_PINNING"}) /\ Full(resident))
  PROVE  FALSE
<1> USE RetentionAssumption
<1>1. CASE Is({"LIFECYCLE_B4"}) /\ truth[s].lifecycle = "ACTIVE"
  BY <1>1 DEF Victims, Evictable, ActiveProtected
<1>2. CASE Is({"SESSION_PINNING"}) /\ sessions[SessionOf[s]]
  <2> DEFINE before == {t \in Evictable : EvictedBefore(t, s)}
  <2>1. Excess = 0
    BY <1>2 DEF Excess
  <2>2. IsFiniteSet(Resident)
    BY FS_Subset DEF RetentionInv, RetentionTypes, Resident
  <2>3. before \subseteq Resident
    BY DEF Evictable, ActiveProtected
  <2>4. Cardinality(before) \in Nat
    BY <2>2, <2>3, FS_Subset, FS_CardinalityType
  <2>5. Cardinality(before) < 0
    BY <2>1 DEF Victims
  <2> QED
    BY <2>4, <2>5
<1> QED
  BY <1>1, <1>2 DEF Protects

(* Neither do the releases of the policy and the expiries.                 *)
LEMMA ReleasedAreUnprotected ==
  ASSUME RetentionInv, NEW s \in Released \cup Expired, Protects(s)
  PROVE  FALSE
<1>1. ~Is({"FIXED_TTL"})
  BY DEF Protects, Is
<1>2. s \notin Expired
  BY <1>1 DEF RetentionInv, OnlyTtlExpires, Expired
<1>3. s \notin Released
  BY DEF Released, Protects, Is
<1> QED
  BY <1>2, <1>3

(* A protected State leaves only when it is invalidated or the Program     *)
(* ends (_capacity_enforce, _policy_releases, _ttl_expiries).              *)
THEOREM ProtectionHolds == RetentionSpec => ProtectedStays
<1> DEFINE Stays(s) == s \in DOMAIN resident' \/ ~truth'[s].valid \/ phase' = "ended"
<1>1. RetentionInv /\ [RetentionNext]_rvars
        => [\A s \in Resident : Protects(s) => Stays(s)]_rvars
  <2> SUFFICES ASSUME RetentionInv, RetentionNext, NEW s \in Resident, Protects(s)
               PROVE  Stays(s)
    OBVIOUS
  <2>1. ASSUME NEW t \in 1..MaxTime, Advance(t) PROVE Stays(s)
    BY <2>1 DEF Advance, Resident
  <2>2. ASSUME NEW t \in RStates, Invalidate(t) PROVE Stays(s)
    <3>1. CASE s = t
      BY <2>2, <3>1 DEF Invalidate, RetentionInv, RetentionTypes, Truths
    <3>2. CASE s # t
      <4>1. Release({t} \cap Resident)
        BY <2>2 DEF Invalidate
      <4>2. DOMAIN resident' = Resident \ ({t} \cap Resident)
        BY <4>1, ReleaseKeepsOthers
      <4> QED
        BY <3>2, <4>2
    <3> QED
      BY <3>1, <3>2
  <2>3. ASSUME NEW t \in RStates, Reuse(t) PROVE Stays(s)
    BY <2>3 DEF Reuse, Resident
  <2>4. ASSUME NEW t \in RStates, Admit(t) PROVE Stays(s)
    BY <2>4 DEF Admit, Resident
  <2>5. CASE UpdateTruth
    BY <2>5 DEF UpdateTruth, Resident
  <2>6. CASE ReleaseAndExpire
    BY <2>6, ReleasedAreUnprotected, ReleaseKeepsOthers DEF ReleaseAndExpire
  <2>7. CASE CapacityEnforce
    <3>1. CASE Release(Victims) /\ ~(Is({"SESSION_PINNING"}) /\ Full(resident))
      BY <3>1, VictimsAreUnprotected, ReleaseKeepsOthers
    <3>2. CASE UNCHANGED resident
      BY <3>2 DEF Resident
    <3> QED
      BY <2>7, <3>1, <3>2 DEF CapacityEnforce
  <2>8. CASE ProgramEnd
    BY <2>8 DEF ProgramEnd
  <2> QED
    BY <2>1, <2>2, <2>3, <2>4, <2>5, <2>6, <2>7, <2>8 DEF RetentionNext
<1> QED
  BY <1>1, RetentionInvariant, PTL DEF RetentionSpec, ProtectedStays

---------------------------------------------------------------------------
(* A strict total order on a set, and its first k elements.                *)
TotalOrder(R, S) ==
  /\ \A x \in S : <<x, x>> \notin R
  /\ \A x, y, z \in S : <<x, y>> \in R /\ <<y, z>> \in R => <<x, z>> \in R
  /\ \A x, y \in S : x # y => <<x, y>> \in R \/ <<y, x>> \in R

First(k, R, S) == {x \in S : Cardinality({y \in S : <<y, x>> \in R}) < k}

(* The first k of a set of n in a strict total order are k States: the     *)
(* rank of a State, the number of States before it, is injective, so the   *)
(* ranks are 0, 1, ..., n - 1 (the loop of _capacity_enforce).             *)
LEMMA RanksCount ==
  ASSUME NEW S, IsFiniteSet(S), NEW R,
         TotalOrder(R, S), NEW k \in Nat, k <= Cardinality(S)
  PROVE  IsFiniteSet(First(k, R, S)) /\ Cardinality(First(k, R, S)) = k
<1> DEFINE before(x) == {y \in S : <<y, x>> \in R}
           n == Cardinality(S)
           rank == [x \in S |-> Cardinality(before(x))]
           first == First(k, R, S)
<1>1. n \in Nat
  BY FS_CardinalityType
<1>2. \A x \in S : IsFiniteSet(before(x)) /\ Cardinality(before(x)) \in Nat
  BY FS_Subset, FS_CardinalityType
<1>3. \A x \in S : rank[x] = Cardinality(before(x)) /\ rank[x] \in Nat
  BY <1>2
<1>4. ASSUME NEW x \in S, NEW y \in S, <<x, y>> \in R PROVE rank[x] < rank[y]
  <2>1. before(x) \cup {x} \subseteq before(y) /\ x \notin before(x)
    BY <1>4 DEF TotalOrder
  <2>2. Cardinality(before(x) \cup {x}) = Cardinality(before(x)) + 1
    BY <1>2, <2>1, FS_AddElement
  <2>3. Cardinality(before(x) \cup {x}) <= Cardinality(before(y))
    BY <1>2, <2>1, FS_Subset
  <2>4. Cardinality(before(x)) \in Nat /\ Cardinality(before(y)) \in Nat
    BY <1>2
  <2> HIDE DEF rank, before
  <2> QED
    BY <1>3, <2>2, <2>3, <2>4
<1>5. ASSUME NEW x \in S PROVE rank[x] < n
  <2>1. before(x) \subseteq S \ {x}
    BY DEF TotalOrder
  <2>2. IsFiniteSet(S \ {x}) /\ Cardinality(S \ {x}) = n - 1
    BY FS_RemoveElement
  <2>3. Cardinality(before(x)) <= n - 1
    <3>1. Cardinality(before(x)) <= Cardinality(S \ {x})
      BY <2>1, <2>2, FS_Subset
    <3> HIDE DEF n
    <3> QED
      BY <2>2, <3>1
  <2> HIDE DEF rank, before, n
  <2> QED
    BY <1>1, <1>2, <1>3, <2>3
<1>a. \A x : x \in first <=> x \in S /\ rank[x] < k
  BY <1>3 DEF First
<1> HIDE DEF rank, before, first
<1>6. rank \in Injection(S, 0..n - 1)
  <2>1. rank \in [S -> 0..n - 1]
    BY <1>1, <1>3, <1>5 DEF rank
  <2>2. ASSUME NEW x \in S, NEW y \in S, x # y PROVE rank[x] # rank[y]
    <3>1. rank[x] < rank[y] \/ rank[y] < rank[x]
      BY <1>4, <2>2 DEF TotalOrder
    <3> QED
      BY <1>3, <3>1
  <2> QED
    BY <2>1, <2>2 DEF Injection, IsInjective
<1>7. IsFiniteSet(0..n - 1) /\ Cardinality(0..n - 1) = n
  <2>1. 0 \in Int /\ n - 1 \in Int
    BY <1>1
  <2>2. IsFiniteSet(0..n - 1) /\ Cardinality(0..n - 1) = IF 0 > n - 1 THEN 0 ELSE (n - 1) - 0 + 1
    BY <2>1, FS_Interval
  <2> HIDE DEF n
  <2> QED
    BY <1>1, <2>2
<1>8. rank \in Surjection(S, 0..n - 1)
  BY <1>6, <1>7, FS_Injection
<1> DEFINE part == [x \in first |-> rank[x]]
<1>9. part \in Injection(first, 0..k - 1) /\ part \in Surjection(first, 0..k - 1)
  <2>1. part \in [first -> 0..k - 1]
    BY <1>3, <1>a
  <2>2. \A x, y \in first : part[x] = part[y] => x = y
    BY <1>6, <1>a DEF Injection, IsInjective
  <2>3. \A m \in 0..k - 1 : \E x \in first : part[x] = m
    <3> SUFFICES ASSUME NEW m \in 0..k - 1 PROVE \E x \in first : part[x] = m
      OBVIOUS
    <3>1. m \in 0..n - 1 /\ m < k
      BY <1>1
    <3>2. PICK x \in S : rank[x] = m
      BY <1>8, <3>1 DEF Surjection
    <3>3. x \in first /\ part[x] = m
      BY <1>a, <3>1, <3>2
    <3> QED
      BY <3>3
  <2> HIDE DEF part
  <2> QED
    BY <2>1, <2>2, <2>3 DEF Injection, IsInjective, Surjection
<1>10. IsFiniteSet(0..k - 1) /\ Cardinality(0..k - 1) = k
  <2>1. 0 \in Int /\ k - 1 \in Int
    OBVIOUS
  <2>2. IsFiniteSet(0..k - 1) /\ Cardinality(0..k - 1) = IF 0 > k - 1 THEN 0 ELSE (k - 1) - 0 + 1
    BY <2>1, FS_Interval
  <2> QED
    BY <2>2
<1>11. IsFiniteSet(first) /\ Cardinality(first) = k
  <2> HIDE DEF part
  <2> QED
    BY <1>9, <1>10, FS_Injection
<1> QED
  BY <1>11 DEF first

---------------------------------------------------------------------------
(* The inductive invariant behind CheckpointsFit and OnlyTheAuditRaises.   *)
(* What a checkpoint promises is established phase by phase: an            *)
(* invalidation takes its State at once, the releases and expiries come    *)
(* before the reuses, an admission respects the policy, and the            *)
(* enforcement restores the capacity that admissions may exceed.           *)
ResidentsValid == \A s \in Resident : truth[s].valid

(* The ordinals make the order of eviction total.                          *)
OrdinalsUnique ==
  /\ \A s \in Resident : resident[s].ordinal < ordinal
  /\ \A s, t \in Resident : resident[s].ordinal = resident[t].ordinal => s = t

(* An expiry is never in the past, and ahead once the expiries are done.   *)
ExpiriesAhead ==
  \A s \in Resident : resident[s].expiry # Never =>
    /\ phase \in {"invalidate", "truth"} => resident[s].expiry >= now
    /\ phase \in {"reuse", "admit", "idle"} => resident[s].expiry > now

PolicyApplied == phase \in {"reuse", "admit", "idle"} => Released = {}

(* Between batches and until the first admission everything fits; after it *)
(* only what the policy can evict is in excess.                            *)
WithinCapacity ==
  /\ phase \in {"invalidate", "truth", "reuse", "idle"} => ~Full(resident)
  /\ phase = "admit" /\ Is({"SESSION_PINNING"}) => ~Full(resident)
  /\ phase = "admit" /\ Is({"LIFECYCLE_B4"})
       => Cardinality(ActiveProtected(Resident)) <= cell.capacity

Phases == {"invalidate", "truth", "reuse", "admit", "idle", "ended", "raised"}

EngineInv ==
  /\ RetentionInv
  /\ phase \in Phases
  /\ OnlyTheAuditRaises
  /\ ResidentsValid /\ OrdinalsUnique
  /\ ExpiriesAhead /\ PolicyApplied /\ WithinCapacity

(* The sets of States the engine counts are finite.                        *)
LEMMA Countable ==
  ASSUME RetentionInv
  PROVE  /\ IsFiniteSet(Resident) /\ Cardinality(Resident) \in Nat
         /\ cell.capacity \in Nat /\ cell.ttl \in Nat \ {0}
         /\ \A S \in SUBSET Resident : IsFiniteSet(S) /\ Cardinality(S) \in Nat
<1>1. IsFiniteSet(Resident)
  BY RetentionAssumption, FS_Subset DEF RetentionInv, RetentionTypes, Resident
<1>2. \A S \in SUBSET Resident : IsFiniteSet(S)
  BY <1>1, FS_Subset
<1>3. cell.capacity \in Nat /\ cell.ttl \in Nat \ {0}
  BY RetentionAssumption DEF RetentionInv, RetentionTypes
<1> QED
  BY <1>1, <1>2, <1>3, FS_CardinalityType

(* What fits still fits when States leave.                                 *)
LEMMA FewerFit ==
  ASSUME RetentionInv, RetentionInv', DOMAIN resident' \subseteq Resident, cell' = cell,
         ~Full(resident)
  PROVE  ~Full(resident)'
<1>1. Cardinality(DOMAIN resident') <= Cardinality(Resident)
  BY Countable, FS_Subset
<1>2. Cardinality(DOMAIN resident') \in Nat /\ Cardinality(Resident) \in Nat /\ cell.capacity \in Nat
  BY Countable
<1>3. Cardinality(Resident) <= cell.capacity
  BY <1>2 DEF Full, Resident
<1> QED
  BY <1>1, <1>2, <1>3 DEF Full

(* The States that stay keep their ordinals.                               *)
LEMMA OrdinalsKept ==
  ASSUME RetentionInv, OrdinalsUnique, DOMAIN resident' \subseteq Resident, ordinal' = ordinal,
         \A s \in DOMAIN resident' : resident'[s].ordinal = resident[s].ordinal
  PROVE  OrdinalsUnique'
BY DEF OrdinalsUnique, Resident

LEMMA AdvanceKeeps ==
  ASSUME EngineInv, RetentionInv', NEW t \in 1..MaxTime, Advance(t)
  PROVE  EngineInv'
<1>1. OrdinalsUnique' /\ ResidentsValid'
  BY DEF EngineInv, OrdinalsUnique, ResidentsValid, Advance, Resident
<1>2. ASSUME NEW s \in Resident, resident[s].expiry # Never PROVE resident[s].expiry >= t
  <2>1. resident[s].expiry > now
    BY <1>2 DEF EngineInv, ExpiriesAhead, Advance
  <2>2. t <= resident[s].expiry
    BY <2>1 DEF Advance, NextExpiry
  <2>3. t \in Int /\ resident[s].expiry \in Int
    BY DEF EngineInv, RetentionInv, RetentionTypes, Intervals, Resident
  <2> QED
    BY <2>2, <2>3
<1>3. ExpiriesAhead'
  BY <1>2 DEF ExpiriesAhead, Advance, Resident
<1>4. PolicyApplied' /\ WithinCapacity'
  BY DEF EngineInv, PolicyApplied, WithinCapacity, Advance, Full, Is
<1> QED
  BY <1>1, <1>3, <1>4 DEF EngineInv, Advance, Phases, OnlyTheAuditRaises

LEMMA InvalidateKeeps ==
  ASSUME EngineInv, RetentionInv', NEW x \in RStates, Invalidate(x)
  PROVE  EngineInv'
<1>1. /\ DOMAIN resident' = Resident \ {x}
      /\ \A s \in Resident \ {x} : resident'[s] = resident[s]
  <2>1. Release({x} \cap Resident)
    BY DEF Invalidate
  <2>2. Resident \ ({x} \cap Resident) = Resident \ {x}
    OBVIOUS
  <2> QED
    BY <2>1, <2>2, ReleaseKeepsOthers DEF EngineInv
<1>2. \A s \in RStates \ {x} : truth'[s] = truth[s]
  BY DEF Invalidate, EngineInv, RetentionInv, RetentionTypes
<1>3. Resident \subseteq RStates
  BY DEF EngineInv, RetentionInv, RetentionTypes, Resident
<1>4. OrdinalsUnique'
  BY <1>1, OrdinalsKept DEF EngineInv, Invalidate
<1>5. ResidentsValid'
  BY <1>1, <1>2, <1>3 DEF EngineInv, ResidentsValid, Resident
<1>6. ExpiriesAhead'
  BY <1>1 DEF EngineInv, ExpiriesAhead, Invalidate, Resident
<1>7. ~Full(resident)'
  BY <1>1, FewerFit DEF EngineInv, WithinCapacity, Invalidate
<1>8. PolicyApplied' /\ WithinCapacity'
  BY <1>7 DEF Invalidate, PolicyApplied, WithinCapacity
<1> QED
  BY <1>4, <1>5, <1>6, <1>8 DEF EngineInv, Invalidate, Phases, OnlyTheAuditRaises

LEMMA TruthKeeps ==
  ASSUME EngineInv, RetentionInv', UpdateTruth
  PROVE  EngineInv'
<1>1. OrdinalsUnique' /\ ExpiriesAhead'
  BY DEF EngineInv, OrdinalsUnique, ExpiriesAhead, UpdateTruth, Resident
<1>2. \A s \in RStates : truth'[s].valid = truth[s].valid
  BY DEF UpdateTruth, EngineInv, RetentionInv, RetentionTypes, Truths
<1>3. ResidentsValid'
  BY <1>2 DEF EngineInv, RetentionInv, RetentionTypes, ResidentsValid, UpdateTruth, Resident
<1>4. PolicyApplied' /\ WithinCapacity'
  BY DEF EngineInv, PolicyApplied, WithinCapacity, UpdateTruth, Full
<1> QED
  BY <1>1, <1>3, <1>4 DEF EngineInv, UpdateTruth, Phases, OnlyTheAuditRaises

(* The releases of the policy and the expiries (_policy_releases,          *)
(* _ttl_expiries): what expires does so exactly now.                       *)
LEMMA ReleaseAndExpireKeeps ==
  ASSUME EngineInv, RetentionInv', ReleaseAndExpire
  PROVE  EngineInv'
<1> DEFINE gone == Released \cup Expired
<1>1. /\ DOMAIN resident' = Resident \ gone
      /\ \A s \in Resident \ gone : resident'[s] = resident[s]
  BY ReleaseKeepsOthers DEF ReleaseAndExpire, EngineInv
<1>2. \A s \in Resident : resident[s].expiry \in Int /\ now \in Int
  BY DEF EngineInv, RetentionInv, RetentionTypes, Intervals, Resident
<1>3. \A s \in Expired : resident[s].expiry = now
  BY <1>2 DEF EngineInv, ExpiriesAhead, ReleaseAndExpire, Expired
<1>4. raised' = "none" /\ phase' = "reuse"
  BY <1>3 DEF ReleaseAndExpire
<1>5. OrdinalsUnique'
  BY <1>1, OrdinalsKept DEF EngineInv, ReleaseAndExpire
<1>6. ResidentsValid'
  BY <1>1 DEF EngineInv, ResidentsValid, ReleaseAndExpire, Resident
<1>7. ExpiriesAhead'
  <2>1. \A s \in Resident \ gone : resident[s].expiry # Never => resident[s].expiry > now
    BY <1>2 DEF Expired
  <2> HIDE DEF gone
  <2> QED
    BY <1>1, <1>4, <2>1 DEF ExpiriesAhead, ReleaseAndExpire, Resident
<1>8. PolicyApplied'
  BY <1>1 DEF PolicyApplied, ReleaseAndExpire, Released, Is, Resident
<1>9. ~Full(resident)'
  BY <1>1, FewerFit DEF EngineInv, WithinCapacity, ReleaseAndExpire
<1>10. WithinCapacity'
  BY <1>4, <1>9 DEF WithinCapacity
<1> QED
  BY <1>4, <1>5, <1>6, <1>7, <1>8, <1>10 DEF EngineInv, Phases, OnlyTheAuditRaises

LEMMA ReuseKeeps ==
  ASSUME EngineInv, RetentionInv', NEW x \in RStates, Reuse(x)
  PROVE  EngineInv'
<1>1. /\ DOMAIN resident' = Resident
      /\ \A s \in Resident : /\ resident'[s].ordinal = resident[s].ordinal
                             /\ resident'[s].expiry = resident[s].expiry
  <2> DEFINE touched == [resident[x] EXCEPT !.since = now]
  <2>1. resident[x] \in Intervals
    BY DEF Reuse, EngineInv, RetentionInv, RetentionTypes, Resident
  <2>2. touched.ordinal = resident[x].ordinal /\ touched.expiry = resident[x].expiry
    BY <2>1 DEF Intervals
  <2>3. resident' = [resident EXCEPT ![x] = touched]
    BY DEF Reuse
  <2> HIDE DEF touched
  <2>4. resident \in [Resident -> Intervals]
    BY DEF EngineInv, RetentionInv, RetentionTypes, Resident
  <2> QED
    BY <2>2, <2>3, <2>4
<1>2. OrdinalsUnique'
  BY <1>1, OrdinalsKept DEF EngineInv, Reuse
<1>3. ResidentsValid' /\ ExpiriesAhead'
  BY <1>1 DEF EngineInv, ResidentsValid, ExpiriesAhead, Reuse, Resident
<1>4. PolicyApplied'
  BY <1>1 DEF EngineInv, PolicyApplied, Reuse, Released, Is, Resident
<1>5. ~Full(resident)'
  BY <1>1, FewerFit DEF EngineInv, WithinCapacity, Reuse
<1>6. WithinCapacity'
  BY <1>5 DEF WithinCapacity, Reuse
<1> QED
  BY <1>2, <1>3, <1>4, <1>6 DEF EngineInv, Reuse, Phases, OnlyTheAuditRaises

(* Where everything fits, what is ACTIVE fits; under LIFECYCLE_B4 it still  *)
(* does after admissions.                                                  *)
LEMMA ActiveFit ==
  ASSUME RetentionInv, WithinCapacity,
         phase = "reuse" \/ (phase = "admit" /\ Is({"LIFECYCLE_B4"}))
  PROVE  Cardinality(ActiveProtected(Resident)) <= cell.capacity
<1>1. CASE phase = "reuse"
  <2>1. Cardinality(ActiveProtected(Resident)) <= Cardinality(Resident)
    BY Countable, FS_Subset DEF ActiveProtected
  <2>2. Cardinality(Resident) <= cell.capacity
    BY <1>1, Countable DEF WithinCapacity, Full, Resident
  <2>3. Cardinality(ActiveProtected(Resident)) \in Nat
    BY Countable DEF ActiveProtected
  <2> QED
    BY <2>1, <2>2, <2>3, Countable
<1>2. CASE phase = "admit" /\ Is({"LIFECYCLE_B4"})
  BY <1>2 DEF WithinCapacity
<1> QED
  BY <1>1, <1>2

(* An admission that is skipped or infeasible changes no resident State.   *)
LEMMA AdmitRefusedKeeps ==
  ASSUME EngineInv, RetentionInv', NEW x \in RStates, Admit(x), Skipped(x) \/ Infeasible(x)
  PROVE  EngineInv'
<1>1. /\ phase \in {"reuse", "admit"} /\ resident' = resident /\ ordinal' = ordinal + 1
      /\ raised' = Recorded(resident) /\ cell' = cell /\ now' = now /\ sessions' = sessions
      /\ phase' = IF raised' = "none" THEN "admit" ELSE "raised"
      /\ truth' = [truth EXCEPT ![x].produced = TRUE]
  BY Zenon DEF Admit
<1>2. raised' \in {"none", "overcommit"} /\ phase' \in {"admit", "raised"}
  BY <1>1 DEF Recorded
<1>3. \A s \in RStates : /\ truth'[s].valid = truth[s].valid
                         /\ truth'[s].lifecycle = truth[s].lifecycle
  BY <1>1 DEF EngineInv, RetentionInv, RetentionTypes, Truths
<1>4. Resident' = Resident /\ Resident \subseteq RStates
  BY <1>1 DEF EngineInv, RetentionInv, RetentionTypes, Resident
<1>5. OrdinalsUnique'
  <2>1. \A s \in Resident : resident[s].ordinal \in Int
    BY DEF EngineInv, RetentionInv, RetentionTypes, Intervals, Resident
  <2>2. ordinal \in Nat
    BY DEF EngineInv, RetentionInv, RetentionTypes
  <2> QED
    BY <1>1, <1>4, <2>1, <2>2 DEF EngineInv, OrdinalsUnique
<1>6. ResidentsValid'
  BY <1>3, <1>4 DEF EngineInv, ResidentsValid
<1>7. ExpiriesAhead'
  BY <1>1, <1>2, <1>4 DEF EngineInv, ExpiriesAhead
<1>8. PolicyApplied'
  <2>1. Released' = Released
    BY <1>1, <1>3, <1>4 DEF Released, Is
  <2> QED
    BY <1>1, <1>2, <2>1 DEF EngineInv, PolicyApplied
<1>9. WithinCapacity'
  <2>1. ActiveProtected(Resident)' = ActiveProtected(Resident)
    BY <1>3, <1>4 DEF ActiveProtected
  <2>2. Full(resident)' = Full(resident) /\ Is({"SESSION_PINNING"})' = Is({"SESSION_PINNING"})
        /\ Is({"LIFECYCLE_B4"})' = Is({"LIFECYCLE_B4"})
    BY <1>1 DEF Full, Is
  <2>3. CASE phase = "admit"
    BY <1>1, <1>2, <2>1, <2>2, <2>3 DEF EngineInv, WithinCapacity
  <2>4. CASE phase = "reuse"
    <3>1. Cardinality(ActiveProtected(Resident)) <= cell.capacity
      BY <2>4, ActiveFit DEF EngineInv
    <3> QED
      BY <1>1, <1>2, <2>1, <2>2, <2>4, <3>1 DEF EngineInv, WithinCapacity
  <2> QED
    BY <1>1, <2>3, <2>4
<1> QED
  BY <1>2, <1>5, <1>6, <1>7, <1>8, <1>9 DEF EngineInv, Phases, OnlyTheAuditRaises

(* A State admitted respects the policy: it is valid, live and not         *)
(* terminal, its expiry is ahead, and what the policy will not evict fits. *)
LEMMA AdmitTakenKeeps ==
  ASSUME EngineInv, RetentionInv', NEW x \in RStates, Admit(x), ~(Skipped(x) \/ Infeasible(x))
  PROVE  EngineInv'
<1> DEFINE new == [since |-> now, ordinal |-> ordinal,
                   expiry |-> IF Is({"FIXED_TTL"}) THEN now + cell.ttl ELSE Never]
<1>1. /\ phase \in {"reuse", "admit"} /\ ordinal' = ordinal + 1
      /\ resident' = [s \in Resident \cup {x} |-> IF s # x THEN resident[s] ELSE new]
      /\ raised' = raised /\ cell' = cell /\ now' = now /\ sessions' = sessions
      /\ phase' = IF raised' = "none" THEN "admit" ELSE "raised"
      /\ truth' = [truth EXCEPT ![x].produced = TRUE]
  BY Zenon DEF Admit
<1>2. raised' \in {"none", "overcommit"} /\ phase' \in {"admit", "raised"}
  BY <1>1 DEF EngineInv, OnlyTheAuditRaises
<1>3. \A s \in RStates : /\ truth'[s].valid = truth[s].valid
                         /\ truth'[s].lifecycle = truth[s].lifecycle
  BY <1>1 DEF EngineInv, RetentionInv, RetentionTypes, Truths
<1>4. /\ Resident' = Resident \cup {x} /\ x \notin Resident /\ Resident \subseteq RStates
      /\ \A s \in Resident : resident'[s] = resident[s]
      /\ resident'[x] = new
  BY <1>1 DEF EngineInv, RetentionInv, RetentionTypes, Resident, Skipped
<1>5. now \in Nat /\ ordinal \in Nat /\ cell.ttl \in Nat \ {0} /\ cell.capacity \in Nat
  BY Countable DEF EngineInv, RetentionInv, RetentionTypes
<1>6. new.ordinal = ordinal /\ (new.expiry # Never => new.expiry > now)
  BY <1>5
<1> HIDE DEF new
<1>7. OrdinalsUnique'
  <2>1. \A s \in Resident : resident[s].ordinal \in Int
    BY DEF EngineInv, RetentionInv, RetentionTypes, Intervals, Resident
  <2>2. \A s \in Resident : resident[s].ordinal < ordinal
    BY DEF EngineInv, OrdinalsUnique
  <2>3. \A s \in Resident \cup {x} : resident'[s].ordinal < ordinal'
    BY <1>1, <1>4, <1>5, <1>6, <2>1, <2>2
  <2>4. \A s, t \in Resident \cup {x} : resident'[s].ordinal = resident'[t].ordinal => s = t
    BY <1>4, <1>5, <1>6, <2>1, <2>2 DEF EngineInv, OrdinalsUnique
  <2> QED
    BY <1>4, <2>3, <2>4 DEF OrdinalsUnique
<1>8. ResidentsValid'
  BY <1>3, <1>4 DEF EngineInv, ResidentsValid, Skipped
<1>9. ExpiriesAhead'
  BY <1>1, <1>2, <1>4, <1>6 DEF EngineInv, ExpiriesAhead
<1>10. PolicyApplied'
  <2>1. Released' = {}
    BY <1>1, <1>3, <1>4 DEF EngineInv, PolicyApplied, Released, Is, Skipped
  <2> QED
    BY <2>1 DEF PolicyApplied
<1>11. WithinCapacity'
  <2>1. CASE Is({"SESSION_PINNING"})
    <3>1. Cardinality(Resident) + 1 <= cell.capacity
      BY <1>5, <2>1, Countable DEF Skipped, Infeasible, EngineInv
    <3>2. Cardinality(Resident \cup {x}) = Cardinality(Resident) + 1
      BY <1>4, Countable, FS_AddElement DEF EngineInv
    <3>3. ~Full(resident)'
      BY <1>1, <1>4, <1>5, <3>1, <3>2, Countable DEF EngineInv, Full, Resident
    <3> QED
      BY <1>1, <1>2, <2>1, <3>3 DEF WithinCapacity, Is
  <2>2. CASE Is({"LIFECYCLE_B4"})
    <3>1. Cardinality(ActiveProtected(Resident)) <= cell.capacity
      BY <1>1, <2>2, ActiveFit DEF EngineInv
    <3>2. CASE truth[x].lifecycle = "ACTIVE"
      <4>1. Cardinality(ActiveProtected(Resident)) + 1 <= cell.capacity
        <5>1. Cardinality(ActiveProtected(Resident)) \in Nat
          BY Countable DEF EngineInv, ActiveProtected
        <5> QED
          BY <1>5, <2>2, <3>2, <5>1 DEF Infeasible
      <4>2. ActiveProtected(Resident)' = ActiveProtected(Resident) \cup {x}
        BY <1>3, <1>4, <3>2 DEF ActiveProtected
      <4>3. IsFiniteSet(ActiveProtected(Resident)) /\ x \notin ActiveProtected(Resident)
        BY <1>4, Countable DEF EngineInv, ActiveProtected
      <4>4. Cardinality(ActiveProtected(Resident) \cup {x}) = Cardinality(ActiveProtected(Resident)) + 1
        BY <4>3, FS_AddElement
      <4> QED
        BY <1>1, <1>2, <2>2, <4>1, <4>2, <4>4 DEF WithinCapacity, Is
    <3>3. CASE truth[x].lifecycle # "ACTIVE"
      <4>1. ActiveProtected(Resident)' = ActiveProtected(Resident)
        BY <1>3, <1>4, <3>3 DEF ActiveProtected
      <4> QED
        BY <1>1, <1>2, <2>2, <3>1, <4>1 DEF WithinCapacity, Is
    <3> QED
      BY <3>2, <3>3
  <2>3. CASE ~Is({"SESSION_PINNING"}) /\ ~Is({"LIFECYCLE_B4"})
    BY <1>1, <1>2, <2>3 DEF WithinCapacity, Is
  <2> QED
    BY <2>1, <2>2, <2>3
<1> QED
  BY <1>2, <1>7, <1>8, <1>9, <1>10, <1>11 DEF EngineInv, Phases, OnlyTheAuditRaises

(* The key of _capacity_enforce orders the resident States strictly and    *)
(* totally: the ordinal of the admission breaks every tie.                 *)
LEMMA EvictionOrder ==
  ASSUME RetentionInv, OrdinalsUnique
  PROVE  /\ \A s \in Resident : ~EvictedBefore(s, s)
         /\ \A s, t, u \in Resident : EvictedBefore(s, t) /\ EvictedBefore(t, u) => EvictedBefore(s, u)
         /\ \A s, t \in Resident : s # t => EvictedBefore(s, t) \/ EvictedBefore(t, s)
<1> DEFINE cls == [s \in Resident |-> IF Is({"LIFECYCLE_B4"}) THEN Priority(truth[s].lifecycle) ELSE 0]
           since == [s \in Resident |-> resident[s].since]
           ord == [s \in Resident |-> resident[s].ordinal]
<1>1. \A s \in Resident : Priority(truth[s].lifecycle) \in Int
  BY DEF Priority
<1>2. cls \in [Resident -> Int]
  BY <1>1
<1>3. since \in [Resident -> Int] /\ ord \in [Resident -> Int]
  BY DEF RetentionInv, RetentionTypes, Intervals, Resident
<1>4. \A s, t \in Resident : ord[s] = ord[t] => s = t
  BY DEF OrdinalsUnique
<1>5. ASSUME NEW s \in Resident, NEW t \in Resident
      PROVE  EvictedBefore(s, t) <=>
               \/ cls[s] < cls[t]
               \/ /\ cls[s] = cls[t]
                  /\ since[s] < since[t] \/ (since[s] = since[t] /\ ord[s] < ord[t])
  BY DEF EvictedBefore
<1> HIDE DEF cls, since, ord
<1>6. \A s \in Resident : ~EvictedBefore(s, s)
  BY <1>2, <1>3, <1>5
<1>7. ASSUME NEW s \in Resident, NEW t \in Resident, NEW u \in Resident,
             EvictedBefore(s, t), EvictedBefore(t, u)
      PROVE  EvictedBefore(s, u)
  BY <1>2, <1>3, <1>5, <1>7
<1>8. ASSUME NEW s \in Resident, NEW t \in Resident, s # t
      PROVE  EvictedBefore(s, t) \/ EvictedBefore(t, s)
  <2>1. ord[s] # ord[t]
    BY <1>4, <1>8
  <2> QED
    BY <1>2, <1>3, <1>5, <2>1
<1> QED
  BY <1>6, <1>7, <1>8

(* What may be evicted makes up for the excess, and no pinned State is in  *)
(* excess: the two assertions of _capacity_enforce.                        *)
LEMMA ExcessIsEvictable ==
  ASSUME RetentionInv, WithinCapacity, phase \in {"reuse", "admit"}
  PROVE  /\ ~(Is({"SESSION_PINNING"}) /\ Full(resident))
         /\ Excess \in Nat /\ Excess <= Cardinality(Evictable)
         /\ Cardinality(Resident) - Excess <= cell.capacity
<1>1. /\ Cardinality(Resident) \in Nat /\ cell.capacity \in Nat /\ IsFiniteSet(Resident)
      /\ Evictable \subseteq Resident /\ Cardinality(Evictable) \in Nat
      /\ ActiveProtected(Resident) \subseteq Resident
      /\ Cardinality(ActiveProtected(Resident)) \in Nat
  BY Countable DEF Evictable, ActiveProtected
<1>2. Excess \in Nat /\ Cardinality(Resident) - Excess <= cell.capacity
  BY <1>1 DEF Excess, Full, Resident
<1>3. Excess <= Cardinality(Evictable)
  <2>1. CASE ~Full(resident)
    BY <1>1, <2>1 DEF Excess
  <2>2. CASE Full(resident) /\ ~Is({"LIFECYCLE_B4"})
    BY <1>1, <2>2 DEF Excess, Evictable
  <2>3. CASE Full(resident) /\ Is({"LIFECYCLE_B4"})
    <3>1. Evictable = Resident \ ActiveProtected(Resident)
      BY <2>3 DEF Evictable
    <3>2. Resident \cap ActiveProtected(Resident) = ActiveProtected(Resident)
      BY <1>1
    <3>3. Cardinality(Evictable) = Cardinality(Resident) - Cardinality(ActiveProtected(Resident))
      BY <1>1, <3>1, <3>2, FS_Difference, ZenonT(60)
    <3>4. Cardinality(ActiveProtected(Resident)) <= cell.capacity
      BY <2>3, ActiveFit
    <3>5. Excess = Cardinality(Resident) - cell.capacity
      BY <2>3 DEF Excess
    <3> QED
      BY <1>1, <3>3, <3>4, <3>5
  <2> QED
    BY <2>1, <2>2, <2>3
<1>4. ~(Is({"SESSION_PINNING"}) /\ Full(resident))
  BY DEF WithinCapacity
<1> QED
  BY <1>2, <1>3, <1>4

(* The victims are as many as the excess.                                  *)
LEMMA VictimsMakeUpTheExcess ==
  ASSUME RetentionInv, OrdinalsUnique, WithinCapacity, phase \in {"reuse", "admit"}
  PROVE  /\ Victims \subseteq Resident
         /\ Cardinality(Resident \ Victims) <= cell.capacity
<1> DEFINE R == {p \in Resident \X Resident : EvictedBefore(p[1], p[2])}
<1>1. Evictable \subseteq Resident /\ IsFiniteSet(Evictable) /\ IsFiniteSet(Resident)
  BY Countable DEF Evictable, ActiveProtected
<1>2. \A s, t \in Evictable : <<s, t>> \in R <=> EvictedBefore(s, t)
  BY <1>1
<1>3. Excess \in Nat /\ Excess <= Cardinality(Evictable)
  BY ExcessIsEvictable
<1> HIDE DEF R
<1>4. TotalOrder(R, Evictable)
  BY <1>1, <1>2, EvictionOrder DEF TotalOrder
<1> DEFINE first == First(Excess, R, Evictable)
<1>5. Cardinality(first) = Excess
  BY <1>1, <1>3, <1>4, RanksCount
<1>6. Victims = first
  <2>1. ASSUME NEW s \in Evictable
        PROVE  {t \in Evictable : EvictedBefore(t, s)} = {t \in Evictable : <<t, s>> \in R}
    BY <1>2
  <2> QED
    BY <2>1 DEF Victims, First
<1>7. Victims \subseteq Resident
  BY <1>1 DEF Victims
<1>8. Cardinality(Resident \ Victims) = Cardinality(Resident) - Excess
  <2>1. Resident \cap Victims = Victims
    BY <1>7
  <2>2. Cardinality(Victims) = Excess
    BY <1>5, <1>6
  <2>3. IsFiniteSet(Victims)
    BY <1>1, <1>7, FS_Subset
  <2> QED
    BY <1>1, <2>1, <2>2, <2>3, FS_Difference
<1> QED
  BY <1>7, <1>8, ExcessIsEvictable

LEMMA EnforceKeeps ==
  ASSUME EngineInv, RetentionInv', CapacityEnforce
  PROVE  EngineInv'
<1>1. RetentionInv /\ OrdinalsUnique /\ WithinCapacity /\ phase \in {"reuse", "admit"}
  BY DEF EngineInv, CapacityEnforce
<1>2. /\ ~(Is({"SESSION_PINNING"}) /\ Full(resident))
      /\ ~(Cardinality(Evictable) < Excess)
  <2>1. Excess \in Nat /\ Excess <= Cardinality(Evictable)
    BY <1>1, ExcessIsEvictable
  <2>2. Cardinality(Evictable) \in Nat
    BY <1>1, Countable DEF Evictable, ActiveProtected
  <2> QED
    BY <1>1, <2>1, <2>2, ExcessIsEvictable
<1>3. Release(Victims) /\ phase' = "idle" /\ raised' = raised
  BY <1>2 DEF CapacityEnforce
<1>4. /\ DOMAIN resident' = Resident \ Victims
      /\ \A s \in Resident \ Victims : resident'[s] = resident[s]
  BY <1>1, <1>3, ReleaseKeepsOthers
<1>5. UNCHANGED <<cell, now, sessions, truth, ordinal>>
  BY DEF CapacityEnforce
<1>6. OrdinalsUnique'
  BY <1>1, <1>4, <1>5, OrdinalsKept
<1>7. ResidentsValid'
  BY <1>4, <1>5 DEF EngineInv, ResidentsValid, Resident
<1>8. ExpiriesAhead'
  BY <1>1, <1>3, <1>4, <1>5 DEF EngineInv, ExpiriesAhead, Resident
<1>9. PolicyApplied'
  BY <1>1, <1>4, <1>5 DEF EngineInv, PolicyApplied, Released, Is, Resident
<1>10. WithinCapacity'
  <2>1. Cardinality(DOMAIN resident') <= cell.capacity
    BY <1>1, <1>4, VictimsMakeUpTheExcess
  <2>2. Cardinality(DOMAIN resident') \in Nat /\ cell.capacity \in Nat
    BY <1>1, <1>4, Countable
  <2> QED
    BY <1>3, <1>5, <2>1, <2>2 DEF WithinCapacity, Full
<1> QED
  BY <1>3, <1>6, <1>7, <1>8, <1>9, <1>10 DEF EngineInv, Phases, OnlyTheAuditRaises

LEMMA EndKeeps ==
  ASSUME EngineInv, RetentionInv', ProgramEnd
  PROVE  EngineInv'
<1>1. DOMAIN resident' = {}
  <2>1. DOMAIN resident' = Resident \ Resident
    BY ReleaseKeepsOthers DEF EngineInv, ProgramEnd
  <2> QED
    BY <2>1
<1>2. OrdinalsUnique' /\ ResidentsValid' /\ ExpiriesAhead'
  BY <1>1 DEF OrdinalsUnique, ResidentsValid, ExpiriesAhead, Resident
<1>3. PolicyApplied' /\ WithinCapacity'
  BY DEF ProgramEnd, PolicyApplied, WithinCapacity
<1> QED
  BY <1>2, <1>3 DEF EngineInv, ProgramEnd, Phases, OnlyTheAuditRaises

(* The invariant of the phases holds in every reachable state.             *)
THEOREM EngineInvariant == RetentionSpec => []EngineInv
<1>1. RetentionInit /\ RetentionInv => EngineInv
  <2> SUFFICES ASSUME RetentionInit, RetentionInv PROVE EngineInv
    OBVIOUS
  <2>1. Resident = {} /\ DOMAIN resident = {} /\ phase = "invalidate" /\ raised = "none"
    BY DEF RetentionInit, Resident
  <2>2. ~Full(resident)
    <3>1. Cardinality(DOMAIN resident) = 0
      BY <2>1, FS_EmptySet
    <3> QED
      BY <3>1, Countable DEF Full
  <2> QED
    BY <2>1, <2>2
    DEF EngineInv, Phases, OnlyTheAuditRaises, ResidentsValid, OrdinalsUnique, ExpiriesAhead,
        PolicyApplied, WithinCapacity
<1>2. EngineInv /\ RetentionInv' /\ [RetentionNext]_rvars => EngineInv'
  <2> SUFFICES ASSUME EngineInv, RetentionInv', [RetentionNext]_rvars PROVE EngineInv'
    OBVIOUS
  <2>1. ASSUME NEW t \in 1..MaxTime, Advance(t) PROVE EngineInv'
    BY <2>1, AdvanceKeeps
  <2>2. ASSUME NEW s \in RStates, Invalidate(s) PROVE EngineInv'
    BY <2>2, InvalidateKeeps
  <2>3. ASSUME NEW s \in RStates, Reuse(s) PROVE EngineInv'
    BY <2>3, ReuseKeeps
  <2>4. ASSUME NEW s \in RStates, Admit(s) PROVE EngineInv'
    BY <2>4, AdmitRefusedKeeps, AdmitTakenKeeps
  <2>5. CASE UpdateTruth
    BY <2>5, TruthKeeps
  <2>6. CASE ReleaseAndExpire
    BY <2>6, ReleaseAndExpireKeeps
  <2>7. CASE CapacityEnforce
    BY <2>7, EnforceKeeps
  <2>8. CASE ProgramEnd
    BY <2>8, EndKeeps
  <2>9. CASE UNCHANGED rvars
    BY <2>9
    DEF rvars, EngineInv, OnlyTheAuditRaises, ResidentsValid, OrdinalsUnique, ExpiriesAhead,
        PolicyApplied, WithinCapacity, Released, ActiveProtected, Full, Is, Resident
  <2> QED
    BY <2>1, <2>2, <2>3, <2>4, <2>5, <2>6, <2>7, <2>8, <2>9 DEF RetentionNext
<1> QED
  BY <1>1, <1>2, RetentionInvariant, PTL DEF RetentionSpec

(* Whatever a batch held, what a checkpoint shows is within capacity,      *)
(* valid, unexpired and allowed by the policy: eviction in the total order *)
(* of _capacity_enforce removes exactly the excess.                        *)
THEOREM CheckpointsAlwaysFit == RetentionSpec => []CheckpointsFit
<1>1. EngineInv => CheckpointsFit
  <2> SUFFICES ASSUME EngineInv, phase = "idle"
               PROVE  ~Full(resident) /\ Released = {} /\ Expired = {} /\ ResidentsValid
    BY DEF CheckpointsFit, ResidentsValid
  <2>1. \A s \in Resident : resident[s].expiry \in Int /\ now \in Int
    BY DEF EngineInv, RetentionInv, RetentionTypes, Intervals, Resident
  <2>2. Expired = {}
    BY <2>1 DEF EngineInv, ExpiriesAhead, Expired
  <2> QED
    BY <2>2 DEF EngineInv, WithinCapacity, PolicyApplied
<1> QED
  BY <1>1, EngineInvariant, PTL

(* Neither the assertion of exact expiry nor those of the enforcement can  *)
(* fail (_ttl_expiries, _capacity_enforce).                                *)
THEOREM AssertionsNeverFail == RetentionSpec => []OnlyTheAuditRaises
<1>1. EngineInv => OnlyTheAuditRaises
  BY DEF EngineInv
<1> QED
  BY <1>1, EngineInvariant, PTL

---------------------------------------------------------------------------
(* Sums over finite sets, as MapThenSumSet adds them up.  Induction goes   *)
(* by a smallest counterexample: the sets, or the numbers, a claim is true *)
(* of are themselves a set.                                                *)
LEMMA NumbersFrom ==
  ASSUME NEW good, 0 \in good, \A n \in Nat : n \in good => n + 1 \in good
  PROVE  \A n \in Nat : n \in good
<1> DEFINE bad == Nat \ good
           R == OpToRel(<, Nat)
<1>1. IsWellFoundedOn(R, Nat)
  BY NatLessThanWellFounded, Zenon
<1> SUFFICES ASSUME bad # {} PROVE FALSE
  OBVIOUS
<1>2. PICK n \in bad : \A m \in bad : <<m, n>> \notin R
  <2>1. bad \subseteq Nat
    OBVIOUS
  <2> HIDE DEF bad, R
  <2> QED
    BY <1>1, <2>1, WFMin, Zenon
<1>3. n - 1 \in Nat /\ n - 1 + 1 = n
  <2>1. n \in Nat /\ n # 0
    BY <1>2
  <2> QED
    BY <2>1
<1>4. <<n - 1, n>> \in R
  BY <1>2, <1>3 DEF OpToRel
<1>5. n - 1 \in good
  BY <1>2, <1>3, <1>4
<1> QED
  BY <1>2, <1>3, <1>5

(* Every subset of a finite set is reached by adding elements.             *)
LEMMA SubsetsFrom ==
  ASSUME NEW S, IsFiniteSet(S), NEW good, {} \in good,
         \A T \in SUBSET S : \A x \in S \ T : T \in good => T \cup {x} \in good
  PROVE  \A T \in SUBSET S : T \in good
<1> DEFINE sizes == {n \in Nat : \A T \in SUBSET S : Cardinality(T) = n => T \in good}
<1>1. \A T \in SUBSET S : IsFiniteSet(T) /\ Cardinality(T) \in Nat
  BY FS_Subset, FS_CardinalityType
<1>2. 0 \in sizes
  BY <1>1, FS_EmptySet
<1>3. ASSUME NEW n \in Nat, n \in sizes PROVE n + 1 \in sizes
  <2> SUFFICES ASSUME NEW T \in SUBSET S, Cardinality(T) = n + 1 PROVE T \in good
    OBVIOUS
  <2> HIDE DEF sizes
  <2>1. T # {}
    <3>1. n + 1 # 0
      OBVIOUS
    <3>2. Cardinality({}) = 0
      BY FS_EmptySet
    <3> QED
      BY <3>1, <3>2
  <2>2. PICK x \in T : TRUE
    BY <2>1
  <2>3. Cardinality(T \ {x}) = n
    <3>1. Cardinality(T \ {x}) = Cardinality(T) - 1
      BY <1>1, <2>2, FS_RemoveElement
    <3> QED
      BY <3>1
  <2>4. T \ {x} \in good
    BY <1>3, <2>3 DEF sizes
  <2>5. (T \ {x}) \cup {x} = T /\ x \in S \ (T \ {x})
    BY <2>2
  <2> QED
    BY <2>4, <2>5
<1> HIDE DEF sizes
<1>4. \A n \in Nat : n \in sizes
  BY <1>2, <1>3, NumbersFrom
<1> QED
  BY <1>1, <1>4 DEF sizes

(* The function a sum over S is read off: one element at a time.           *)
Picked(s) == CHOOSE x \in s : TRUE
Sums(it, f, S) ==
  it = [s \in SUBSET S |-> IF s = {} THEN 0 ELSE f[Picked(s)] + it[s \ {Picked(s)}]]

Total(f, S) == (CHOOSE it : Sums(it, f, S))[S]

(* There is one: by the size of the sets it is asked for.                  *)
LEMMA SumsExist ==
  ASSUME NEW S, IsFiniteSet(S), NEW f
  PROVE  \E it : Sums(it, f, S)
<1> DEFINE small(n) == {s \in SUBSET S : Cardinality(s) <= n}
           upto(n, it) == it = [s \in small(n) |->
                                 IF s = {} THEN 0 ELSE f[Picked(s)] + it[s \ {Picked(s)}]]
           sizes == {n \in Nat : \E it : upto(n, it)}
<1>1. \A s \in SUBSET S : IsFiniteSet(s) /\ Cardinality(s) \in Nat /\ Cardinality(s) <= Cardinality(S)
  BY FS_Subset, FS_CardinalityType
<1>2. \A s \in SUBSET S : s # {} => /\ Picked(s) \in s
                                    /\ Cardinality(s \ {Picked(s)}) = Cardinality(s) - 1
  BY <1>1, FS_RemoveElement DEF Picked
<1>3. 0 \in sizes
  <2>1. \A s \in small(0) : s = {}
    <3>1. \A s \in small(0) : Cardinality(s) = 0
      BY <1>1
    <3> QED
      BY <1>1, <3>1, FS_EmptySet
  <2>2. upto(0, [s \in small(0) |-> 0])
    BY <2>1
  <2> QED
    BY <2>2
<1>4. ASSUME NEW n \in Nat, n \in sizes PROVE n + 1 \in sizes
  <2>1. PICK it : upto(n, it)
    BY <1>4
  <2> DEFINE more == [s \in small(n + 1) |->
                        IF s = {} THEN 0 ELSE f[Picked(s)] + it[s \ {Picked(s)}]]
  <2>2. \A s \in small(n) : s \in small(n + 1) /\ more[s] = it[s]
    <3>1. ASSUME NEW s \in small(n) PROVE s \in small(n + 1)
      BY <1>1, <3>1
    <3>2. ASSUME NEW s \in small(n) 
          PROVE  it[s] = IF s = {} THEN 0 ELSE f[Picked(s)] + it[s \ {Picked(s)}]
      BY <2>1, <3>2, Zenon
    <3> HIDE DEF small, upto
    <3> QED
      BY <3>1, <3>2
  <2>3. \A s \in small(n + 1) : s # {} => s \ {Picked(s)} \in small(n)
    BY <1>1, <1>2
  <2>4. upto(n + 1, more)
    <3> HIDE DEF small
    <3> QED
      BY <2>2, <2>3
  <2>5. n + 1 \in Nat
    OBVIOUS
  <2> HIDE DEF upto, more
  <2> QED
    BY <2>4, <2>5, Zenon
<1> HIDE DEF sizes
<1>5. Cardinality(S) \in sizes
  BY <1>1, <1>3, <1>4, NumbersFrom
<1>6. small(Cardinality(S)) = SUBSET S
  BY <1>1
<1> QED
  BY <1>5, <1>6 DEF Sums, sizes

(* Whichever element is taken off first, the sum is the same.              *)
LEMMA SumsTakeAny ==
  ASSUME NEW S, IsFiniteSet(S), NEW f, \A x \in S : f[x] \in Int, NEW it, Sums(it, f, S)
  PROVE  /\ it[{}] = 0
         /\ \A T \in SUBSET S : it[T] \in Int
         /\ \A T \in SUBSET S : \A x \in T : it[T] = f[x] + it[T \ {x}]
<1> DEFINE right(T) == it[T] \in Int /\ \A x \in T : it[T] = f[x] + it[T \ {x}]
           sizes == {n \in Nat : \A T \in SUBSET S : Cardinality(T) <= n => right(T)}
<1>1. \A T \in SUBSET S : IsFiniteSet(T) /\ Cardinality(T) \in Nat
  BY FS_Subset, FS_CardinalityType
<1>2. it[{}] = 0
  BY DEF Sums
<1>3. \A T \in SUBSET S : T # {} => it[T] = f[Picked(T)] + it[T \ {Picked(T)}] /\ Picked(T) \in T
  BY DEF Sums, Picked
<1>4. 0 \in sizes
  <2>1. \A T \in SUBSET S : Cardinality(T) <= 0 => T = {}
    <3>1. \A T \in SUBSET S : Cardinality(T) <= 0 => Cardinality(T) = 0
      BY <1>1
    <3> QED
      BY <1>1, <3>1, FS_EmptySet
  <2>2. right({})
    BY <1>2
  <2> HIDE DEF right
  <2> QED
    BY <2>1, <2>2
<1>5. ASSUME NEW n \in Nat, n \in sizes PROVE n + 1 \in sizes
  <2> SUFFICES ASSUME NEW T \in SUBSET S, Cardinality(T) <= n + 1 PROVE right(T)
    BY n + 1 \in Nat
  <2>1. ASSUME NEW U \in SUBSET S, Cardinality(U) <= n PROVE right(U)
    BY <1>5, <2>1
  <2> HIDE DEF sizes, right
  <2>2. ASSUME NEW x \in T PROVE right(T \ {x})
    <3>1. Cardinality(T \ {x}) = Cardinality(T) - 1
      BY <1>1, FS_RemoveElement
    <3>2. Cardinality(T \ {x}) <= n
      BY <1>1, <3>1
    <3> QED
      BY <2>1, <3>2
  <2>3. CASE T = {}
    BY <1>2, <2>3 DEF right
  <2>4. CASE T # {}
    <3> DEFINE p == Picked(T)
    <3>1. p \in T /\ it[T] = f[p] + it[T \ {p}]
      BY <1>3, <2>4
    <3> HIDE DEF p
    <3>2. it[T \ {p}] \in Int /\ f[p] \in Int
      BY <2>2, <3>1 DEF right
    <3>3. ASSUME NEW x \in T, x # p PROVE it[T] = f[x] + it[T \ {x}]
      <4>1. it[T \ {p}] = f[x] + it[(T \ {p}) \ {x}]
        BY <2>2, <3>1, <3>3 DEF right
      <4>2. it[T \ {x}] = f[p] + it[(T \ {x}) \ {p}]
        BY <2>2, <3>1, <3>3 DEF right
      <4>3. (T \ {p}) \ {x} = (T \ {x}) \ {p}
        OBVIOUS
      <4> DEFINE rest == it[(T \ {x}) \ {p}]
      <4>4. it[T] = f[p] + (f[x] + rest) /\ it[T \ {x}] = f[p] + rest
        BY <3>1, <4>1, <4>2, <4>3
      <4>5. f[x] \in Int /\ it[T \ {x}] \in Int
        BY <2>2, <3>3 DEF right
      <4>6. rest \in Int
        <5>1. T \ {x} \in SUBSET S /\ right(T \ {x}) /\ p \in T \ {x}
          BY <2>2, <3>1, <3>3
        <5>2. Cardinality(T \ {x}) = Cardinality(T) - 1
          BY <1>1, <3>3, FS_RemoveElement
        <5>3. Cardinality((T \ {x}) \ {p}) = Cardinality(T) - 2
          <6>1. Cardinality((T \ {x}) \ {p}) = Cardinality(T \ {x}) - 1
            BY <1>1, <5>1, FS_RemoveElement
          <6> QED
            BY <1>1, <5>2, <6>1
        <5>4. Cardinality((T \ {x}) \ {p}) <= n
          BY <1>1, <5>3
        <5> QED
          BY <2>1, <5>4 DEF right
      <4> HIDE DEF rest
      <4> QED
        BY <3>2, <4>4, <4>5, <4>6
    <3>4. it[T] \in Int
      BY <3>1, <3>2
    <3>5. \A x \in T : it[T] = f[x] + it[T \ {x}]
      BY <3>1, <3>3
    <3> QED
      BY <3>4, <3>5 DEF right
  <2> QED
    BY <2>3, <2>4
<1> HIDE DEF sizes
<1>6. ASSUME NEW T \in SUBSET S PROVE right(T)
  <2>1. Cardinality(T) \in sizes
    BY <1>1, <1>4, <1>5, NumbersFrom
  <2> HIDE DEF right
  <2> QED
    BY <1>1, <2>1 DEF sizes
<1> QED
  BY <1>2, <1>6

(* What is added up over a part does not depend on what else there is.     *)
LEMMA SumsAgree ==
  ASSUME NEW S, IsFiniteSet(S), NEW U \in SUBSET S,
         NEW f, \A x \in S : f[x] \in Int,
         NEW it, Sums(it, f, S), NEW part, Sums(part, f, U)
  PROVE  part[U] = it[U]
<1> DEFINE good == {T \in SUBSET U : part[T] = it[T]}
<1>1. IsFiniteSet(U) /\ \A x \in U : f[x] \in Int
  BY FS_Subset
<1>2. /\ part[{}] = 0
      /\ \A T \in SUBSET U : \A x \in T : part[T] = f[x] + part[T \ {x}]
  BY <1>1, SumsTakeAny
<1>3. /\ it[{}] = 0
      /\ \A T \in SUBSET S : \A x \in T : it[T] = f[x] + it[T \ {x}]
  BY SumsTakeAny
<1>4. {} \in good
  BY <1>2, <1>3
<1>5. ASSUME NEW T \in SUBSET U, NEW x \in U \ T, T \in good PROVE T \cup {x} \in good
  <2>1. (T \cup {x}) \ {x} = T /\ T \cup {x} \in SUBSET U /\ T \cup {x} \in SUBSET S
    OBVIOUS
  <2>2. part[T \cup {x}] = f[x] + part[T]
    BY <1>2, <2>1
  <2>3. it[T \cup {x}] = f[x] + it[T]
    BY <1>3, <2>1
  <2> QED
    BY <1>5, <2>1, <2>2, <2>3
<1> HIDE DEF good
<1>6. U \in good
  BY <1>1, <1>4, <1>5, SubsetsFrom
<1> QED
  BY <1>6 DEF good

(* The sum over a finite set: nothing over the empty one, and one element  *)
(* more than without it.                                                   *)
LEMMA TotalFacts ==
  ASSUME NEW S, IsFiniteSet(S), NEW f, \A x \in S : f[x] \in Int
  PROVE  /\ Total(f, {}) = 0
         /\ Total(f, S) \in Int
         /\ \A x \in S : Total(f, S) = f[x] + Total(f, S \ {x})
<1> DEFINE sums(T) == CHOOSE it : Sums(it, f, T)
<1>1. \A T \in SUBSET S : IsFiniteSet(T)
  BY FS_Subset
<1>2. ASSUME NEW T \in SUBSET S PROVE Sums(sums(T), f, T) /\ Total(f, T) = sums(T)[T]
  BY <1>1, SumsExist, Zenon DEF Total
<1> HIDE DEF sums
<1>3. ASSUME NEW T \in SUBSET S PROVE Total(f, T) = sums(S)[T]
  <2>1. Sums(sums(S), f, S) /\ Sums(sums(T), f, T)
    BY <1>2
  <2>2. sums(T)[T] = sums(S)[T]
    BY <2>1, SumsAgree
  <2> QED
    BY <1>2, <2>2
<1>4. /\ sums(S)[{}] = 0
      /\ sums(S)[S] \in Int
      /\ \A x \in S : sums(S)[S] = f[x] + sums(S)[S \ {x}]
  BY <1>2, SumsTakeAny
<1> QED
  BY <1>3, <1>4

LEMMA OneMore == ASSUME NEW n \in Int, NEW c \in Int PROVE (n + 1) * c = n * c + c
OBVIOUS

(* Shifting every term by the same amount.                                 *)
LEMMA TotalShift ==
  ASSUME NEW S, IsFiniteSet(S), NEW f, NEW g, NEW c \in Int,
         \A x \in S : f[x] \in Int /\ g[x] = f[x] + c
  PROVE  Total(g, S) = Total(f, S) + Cardinality(S) * c
<1> DEFINE good == {T \in SUBSET S : Total(g, T) = Total(f, T) + Cardinality(T) * c}
<1>1. \A T \in SUBSET S : IsFiniteSet(T) /\ Cardinality(T) \in Nat
  BY FS_Subset, FS_CardinalityType
<1>2. \A x \in S : f[x] \in Int /\ g[x] \in Int
  OBVIOUS
<1>3. {} \in good
  <2>1. Total(f, {}) = 0 /\ Total(g, {}) = 0 /\ Cardinality({}) = 0
    BY <1>2, TotalFacts, FS_EmptySet
  <2> QED
    BY <2>1
<1>4. ASSUME NEW T \in SUBSET S, NEW x \in S \ T, T \in good PROVE T \cup {x} \in good
  <2> DEFINE U == T \cup {x}
  <2>1. U \in SUBSET S /\ x \in U /\ U \ {x} = T
    OBVIOUS
  <2>2. IsFiniteSet(U) /\ (\A y \in U : f[y] \in Int) /\ (\A y \in U : g[y] \in Int)
    BY <1>1, <1>2, <2>1
  <2> HIDE DEF U
  <2>3. Total(f, U) = f[x] + Total(f, T) /\ Total(g, U) = g[x] + Total(g, T)
    BY <2>1, <2>2, TotalFacts
  <2>4. Total(f, T) \in Int
    BY <1>1, <1>2, TotalFacts
  <2>5. Cardinality(U) = Cardinality(T) + 1
    BY <1>1, FS_AddElement DEF U
  <2>6. (Cardinality(T) + 1) * c = Cardinality(T) * c + c
    <3>1. Cardinality(T) \in Int
      BY <1>1
    <3> QED
      BY <3>1, OneMore
  <2>7. Cardinality(T) * c \in Int
    BY <1>1
  <2>8. Total(g, T) = Total(f, T) + Cardinality(T) * c
    BY <1>4
  <2>9. Total(g, U) = Total(f, U) + Cardinality(U) * c
    <3> DEFINE a == Total(f, T)
               b == Cardinality(T) * c
    <3>1. /\ Total(g, U) = (f[x] + c) + (a + b) /\ Total(f, U) = f[x] + a
          /\ Cardinality(U) * c = b + c
      BY <2>3, <2>5, <2>6, <2>8
    <3>2. a \in Int /\ b \in Int /\ f[x] \in Int
      BY <1>2, <2>4, <2>7
    <3> HIDE DEF a, b
    <3> QED
      BY <3>1, <3>2
  <2> QED
    BY <2>1, <2>9 DEF U
<1> HIDE DEF good
<1>5. S \in good
  BY <1>3, <1>4, SubsetsFrom
<1> QED
  BY <1>5 DEF good

(* The sum over two parts.                                                 *)
LEMMA TotalSplits ==
  ASSUME NEW S, IsFiniteSet(S), NEW f, \A x \in S : f[x] \in Int, NEW A \in SUBSET S
  PROVE  Total(f, S) = Total(f, A) + Total(f, S \ A)
<1> DEFINE good == {T \in SUBSET A : Total(f, T \cup (S \ A)) = Total(f, T) + Total(f, S \ A)}
<1>1. \A T \in SUBSET S : IsFiniteSet(T) /\ Total(f, T) \in Int
  BY FS_Subset, TotalFacts
<1>2. {} \in good
  <2>1. Total(f, {}) = 0 /\ {} \cup (S \ A) = S \ A
    BY TotalFacts
  <2>2. Total(f, S \ A) = 0 + Total(f, S \ A)
    BY <1>1
  <2> QED
    BY <2>1, <2>2
<1>3. ASSUME NEW T \in SUBSET A, NEW x \in A \ T, T \in good PROVE T \cup {x} \in good
  <2> DEFINE U == T \cup {x}
             V == S \ A
  <2>1. /\ U \in SUBSET S /\ x \in U /\ U \ {x} = T
        /\ U \cup V \in SUBSET S /\ x \in U \cup V /\ (U \cup V) \ {x} = T \cup V
    OBVIOUS
  <2>2. V \in SUBSET S
    OBVIOUS
  <2> HIDE DEF U, V
  <2>3. Total(f, U) = f[x] + Total(f, T) /\ Total(f, U \cup V) = f[x] + Total(f, T \cup V)
    BY <1>1, <2>1, TotalFacts
  <2>4. Total(f, T \cup V) = Total(f, T) + Total(f, V)
    BY <1>3 DEF V
  <2>5. f[x] \in Int /\ Total(f, T) \in Int /\ Total(f, V) \in Int
    BY <1>1, <2>2
  <2>6. Total(f, U \cup V) = Total(f, U) + Total(f, V)
    BY <2>3, <2>4, <2>5
  <2> QED
    BY <2>6 DEF U, V
<1> HIDE DEF good
<1>4. IsFiniteSet(A)
  BY <1>1
<1>5. A \in good
  BY <1>2, <1>3, <1>4, SubsetsFrom
<1>6. A \cup (S \ A) = S
  OBVIOUS
<1> QED
  BY <1>5, <1>6 DEF good

---------------------------------------------------------------------------
(* The time each resident State has been held since its interval started.  *)
Held(n, res) == [s \in DOMAIN res |-> n - res[s].since]

(* What IntervalTime adds up.                                              *)
LEMMA HeldIsTotal ==
  ASSUME NEW n \in Int, NEW res, res \in [DOMAIN res -> Intervals],
         NEW gone \in SUBSET DOMAIN res, IsFiniteSet(DOMAIN res)
  PROVE  MapThenSumSet(LAMBDA s : n - res[s].since, gone) = Total(Held(n, res), gone)
<1> DEFINE f == Held(n, res)
           adds(it) == it = [s \in SUBSET gone |->
                              IF s = {} THEN 0
                              ELSE (n - res[Picked(s)].since) + it[s \ {Picked(s)}]]
<1>1. MapThenSumSet(LAMBDA s : n - res[s].since, gone) = (CHOOSE it : adds(it))[gone]
  BY Zenon DEF MapThenSumSet, MapThenFoldSet, Picked
<1>2. IsFiniteSet(gone) /\ \A x \in gone : f[x] \in Int /\ f[x] = n - res[x].since
  BY FS_Subset DEF Held, Intervals
<1> HIDE DEF f
<1>3. \A s \in SUBSET gone : s # {} => f[Picked(s)] = n - res[Picked(s)].since
  BY <1>2 DEF Picked
<1>4. ASSUME NEW it PROVE adds(it) <=> Sums(it, f, gone)
  BY <1>3 DEF Sums
<1>5. \E it : adds(it)
  <2>1. \E it : Sums(it, f, gone)
    BY <1>2, SumsExist
  <2> HIDE DEF adds
  <2> QED
    BY <1>4, <2>1
<1> HIDE DEF adds
<1>6. adds(CHOOSE it : adds(it))
  BY <1>5, Zenon
<1> DEFINE it == CHOOSE it : adds(it)
           sum == CHOOSE sum : Sums(sum, f, gone)
<1>7. Sums(it, f, gone) /\ Sums(sum, f, gone)
  BY <1>2, <1>4, <1>6, SumsExist, Zenon
<1>8. Total(f, gone) = sum[gone]
  BY Zenon DEF Total
<1> HIDE DEF it, sum
<1>9. sum[gone] = it[gone]
  BY <1>2, <1>7, SumsAgree
<1> QED
  BY <1>1, <1>8, <1>9 DEF it, f

LEMMA IntervalsAddUp ==
  ASSUME RetentionInv, NEW gone \in SUBSET Resident
  PROVE  /\ IntervalTime(gone) = Total(Held(now, resident), gone)
         /\ Total(Held(now, resident), gone) \in Int
         /\ IsFiniteSet(Resident)
         /\ \A s \in Resident : /\ Held(now, resident)[s] = now - resident[s].since
                                /\ Held(now, resident)[s] \in Int
<1>1. IsFiniteSet(Resident) /\ IsFiniteSet(gone)
  BY Countable
<1>2. now \in Int /\ resident \in [DOMAIN resident -> Intervals]
  BY DEF RetentionInv, RetentionTypes
<1>3. \A s \in Resident : /\ Held(now, resident)[s] = now - resident[s].since
                          /\ Held(now, resident)[s] \in Int
  BY <1>2 DEF Held, Resident, Intervals
<1>4. IntervalTime(gone) = Total(Held(now, resident), gone)
  BY <1>1, <1>2, HeldIsTotal, Zenon DEF IntervalTime, Resident
<1>5. Total(Held(now, resident), gone) \in Int
  BY <1>1, <1>3, TotalFacts
<1> QED
  BY <1>1, <1>3, <1>4, <1>5

(* The same of the next state.                                             *)
LEMMA OpenTime ==
  RetentionInv => IntervalTime(Resident) = Total(Held(now, resident), Resident)
BY IntervalsAddUp

LEMMA OpenTimeNext ==
  RetentionInv' => (IntervalTime(Resident) = Total(Held(now, resident), Resident))'
BY OpenTime, PTL

LEMMA IntervalsAddUpNext ==
  ASSUME RetentionInv'
  PROVE  /\ IntervalTime(Resident)' = Total(Held(now', resident'), DOMAIN resident')
         /\ Total(Held(now', resident'), DOMAIN resident') \in Int
         /\ IsFiniteSet(DOMAIN resident')
         /\ \A s \in DOMAIN resident' : /\ Held(now', resident')[s] = now' - resident'[s].since
                                        /\ Held(now', resident')[s] \in Int
<1>1. IsFiniteSet(DOMAIN resident')
  BY RetentionAssumption, FS_Subset DEF RetentionInv, RetentionTypes
<1>2. now' \in Int /\ resident' \in [DOMAIN resident' -> Intervals]
  BY DEF RetentionInv, RetentionTypes
<1>3. \A s \in DOMAIN resident' : /\ Held(now', resident')[s] = now' - resident'[s].since
                                  /\ Held(now', resident')[s] \in Int
  BY <1>2 DEF Held, Intervals
<1>4. IntervalTime(Resident)' = Total(Held(now', resident'), DOMAIN resident')
  BY OpenTimeNext, Zenon DEF Resident
<1>5. Total(Held(now', resident'), DOMAIN resident') \in Int
  BY <1>1, <1>3, TotalFacts
<1> QED
  BY <1>1, <1>3, <1>4, <1>5

---------------------------------------------------------------------------
(* The accounts balance: closed and open intervals together are the        *)
(* integral of the resident set.  What a step closes it adds to useful or  *)
(* wasted time; what it opens has lasted no time yet.                      *)
AccountsInv == useful \in Int /\ wasted \in Int /\ occupied \in Int /\ AccountsBalance

(* States whose intervals go on have been held as long as before.          *)
LEMMA SameTime ==
  ASSUME RetentionInv, RetentionInv', NEW T \in SUBSET Resident, T \subseteq DOMAIN resident',
         \A s \in T : now' - resident'[s].since = now - resident[s].since
  PROVE  Total(Held(now', resident'), T) = Total(Held(now, resident), T)
<1> DEFINE f == Held(now, resident)
           g == Held(now', resident')
<1>1. IsFiniteSet(T) /\ Cardinality(T) \in Nat
  BY Countable
<1>2. \A s \in T : f[s] \in Int /\ g[s] = f[s] + 0
  <2>1. \A s \in Resident : f[s] = now - resident[s].since /\ f[s] \in Int
    BY IntervalsAddUp
  <2>2. \A s \in DOMAIN resident' : g[s] = now' - resident'[s].since
    BY IntervalsAddUpNext
  <2>3. \A s \in T : g[s] = f[s]
    BY <2>1, <2>2
  <2> HIDE DEF f, g
  <2> QED
    BY <2>1, <2>3
<1> HIDE DEF f, g
<1>3. Total(g, T) = Total(f, T) + Cardinality(T) * 0
  BY <1>1, <1>2, TotalShift
<1>4. Total(f, T) \in Int
  BY <1>1, <1>2, TotalFacts
<1> QED
  BY <1>1, <1>3, <1>4 DEF f, g

(* A release moves the open intervals of what leaves to wasted time.       *)
LEMMA ReleaseBalances ==
  ASSUME AccountsInv, RetentionInv, RetentionInv', NEW gone \in SUBSET Resident, Release(gone),
         UNCHANGED <<now, useful, occupied>>
  PROVE  AccountsInv'
<1> DEFINE f == Held(now, resident)
<1>1. /\ DOMAIN resident' = Resident \ gone
      /\ \A s \in Resident \ gone : resident'[s] = resident[s]
  BY ReleaseKeepsOthers
<1>2. /\ IntervalTime(Resident) = Total(f, Resident) /\ IntervalTime(gone) = Total(f, gone)
      /\ Total(f, gone) \in Int /\ Total(f, Resident \ gone) \in Int
      /\ IsFiniteSet(Resident) /\ \A s \in Resident : f[s] \in Int
  BY IntervalsAddUp
<1>3. IntervalTime(Resident)' = Total(f, Resident \ gone)
  <2>1. Total(Held(now', resident'), Resident \ gone) = Total(f, Resident \ gone)
    BY <1>1, SameTime
  <2> QED
    BY <1>1, <2>1, IntervalsAddUpNext
<1> HIDE DEF f
<1>4. Total(f, Resident) = Total(f, gone) + Total(f, Resident \ gone)
  BY <1>2, TotalSplits
<1>5. wasted' = wasted + Total(f, gone)
  BY <1>2 DEF Release
<1>6. useful + wasted + Total(f, Resident) = occupied
  BY <1>2 DEF AccountsInv, AccountsBalance
<1>7. useful' + wasted' + IntervalTime(Resident)' = occupied' /\ wasted' \in Int
  BY <1>2, <1>3, <1>4, <1>5, <1>6 DEF AccountsInv
<1> QED
  BY <1>7, Zenon DEF AccountsInv, AccountsBalance

(* Time passes for every resident State alike.                             *)
LEMMA AdvanceBalances ==
  ASSUME AccountsInv, RetentionInv, RetentionInv', NEW t \in 1..MaxTime, Advance(t)
  PROVE  AccountsInv'
<1> DEFINE f == Held(now, resident)
           g == Held(now', resident')
           n == Cardinality(Resident)
<1>1. /\ now' = t /\ resident' = resident /\ useful' = useful /\ wasted' = wasted
      /\ occupied' = occupied + Cardinality(Resident) * (t - now)
  BY DEF Advance
<1>2. t - now \in Int /\ now \in Int /\ t \in Int
  BY RetentionAssumption DEF RetentionInv, RetentionTypes
<1>3. /\ IntervalTime(Resident) = Total(f, Resident) /\ Total(f, Resident) \in Int
      /\ IsFiniteSet(Resident) /\ n \in Nat
      /\ \A s \in Resident : f[s] = now - resident[s].since /\ f[s] \in Int
  BY IntervalsAddUp, Countable
<1>4. IntervalTime(Resident)' = Total(g, Resident)
  BY <1>1, IntervalsAddUpNext DEF Resident
<1>5. \A s \in Resident : g[s] = f[s] + (t - now)
  <2>1. \A s \in Resident : g[s] = t - resident[s].since
    BY <1>1, IntervalsAddUpNext DEF Resident
  <2>2. \A s \in Resident : resident[s].since \in Int
    BY DEF RetentionInv, RetentionTypes, Intervals, Resident
  <2> HIDE DEF f, g
  <2> QED
    BY <1>2, <1>3, <2>1, <2>2
<1> HIDE DEF f, g
<1>6. Total(g, Resident) = Total(f, Resident) + n * (t - now)
  BY <1>2, <1>3, <1>5, TotalShift
<1>7. useful + wasted + Total(f, Resident) = occupied
  BY <1>3 DEF AccountsInv, AccountsBalance
<1>8. n * (t - now) \in Int
  BY <1>2, <1>3
<1> DEFINE passed == n * (t - now)
<1>9. /\ occupied' = occupied + passed /\ Total(g, Resident) = Total(f, Resident) + passed
      /\ passed \in Int
  BY <1>1, <1>6, <1>8
<1> HIDE DEF passed
<1>10. useful' + wasted' + IntervalTime(Resident)' = occupied' /\ occupied' \in Int
  BY <1>1, <1>3, <1>4, <1>7, <1>9 DEF AccountsInv
<1> QED
  BY <1>1, <1>10, Zenon DEF AccountsInv, AccountsBalance

(* A reuse moves the open interval of its State to useful time.            *)
LEMMA ReuseBalances ==
  ASSUME AccountsInv, RetentionInv, RetentionInv', NEW x \in RStates, Reuse(x)
  PROVE  AccountsInv'
<1> DEFINE f == Held(now, resident)
           g == Held(now', resident')
           others == Resident \ {x}
<1>1. /\ x \in Resident /\ DOMAIN resident' = Resident /\ now' = now
      /\ \A s \in others : resident'[s].since = resident[s].since
      /\ resident'[x].since = now
  BY DEF Reuse, RetentionInv, RetentionTypes, Resident, Intervals
<1>2. /\ useful' = useful + IntervalTime({x}) /\ wasted' = wasted /\ occupied' = occupied
  BY DEF Reuse
<1>3. /\ IntervalTime(Resident) = Total(f, Resident) /\ IntervalTime({x}) = Total(f, {x})
      /\ Total(f, Resident) \in Int /\ Total(f, {x}) \in Int /\ Total(f, others) \in Int
      /\ IsFiniteSet(Resident) /\ \A s \in Resident : f[s] \in Int
  BY <1>1, IntervalsAddUp
<1>4. IntervalTime(Resident)' = Total(g, Resident) /\ g[x] = 0 /\ \A s \in Resident : g[s] \in Int
  <2>1. now - now = 0
    BY DEF RetentionInv, RetentionTypes
  <2> QED
    BY <1>1, <2>1, IntervalsAddUpNext
<1>5. Total(g, others) = Total(f, others)
  BY <1>1, SameTime
<1> HIDE DEF f, g
<1>6. Total(f, Resident) = Total(f, {x}) + Total(f, others)
  BY <1>1, <1>3, TotalSplits
<1>7. Total(g, Resident) = 0 + Total(g, others)
  <2>1. \A s \in Resident : Total(g, Resident) = g[s] + Total(g, Resident \ {s})
    BY <1>3, <1>4, TotalFacts
  <2> QED
    BY <1>1, <1>4, <2>1
<1>8. useful + wasted + Total(f, Resident) = occupied
  BY <1>3 DEF AccountsInv, AccountsBalance
<1> HIDE DEF others
<1>9. useful' + wasted' + IntervalTime(Resident)' = occupied' /\ useful' \in Int
  BY <1>2, <1>3, <1>4, <1>5, <1>6, <1>7, <1>8 DEF AccountsInv
<1> QED
  BY <1>2, <1>9, Zenon DEF AccountsInv, AccountsBalance

(* An admission opens an interval of no length, or changes nothing.        *)
LEMMA AdmitBalances ==
  ASSUME AccountsInv, RetentionInv, RetentionInv', NEW x \in RStates, Admit(x)
  PROVE  AccountsInv'
<1> DEFINE f == Held(now, resident)
           g == Held(now', resident')
<1>1. now' = now /\ useful' = useful /\ wasted' = wasted /\ occupied' = occupied
  BY DEF Admit
<1>2. /\ IntervalTime(Resident) = Total(f, Resident) /\ Total(f, Resident) \in Int
      /\ IsFiniteSet(Resident)
  BY IntervalsAddUp
<1>3. useful + wasted + Total(f, Resident) = occupied
  BY <1>2 DEF AccountsInv, AccountsBalance
<1>4. CASE Skipped(x) \/ Infeasible(x)
  <2>1. resident' = resident
    BY <1>4, Zenon DEF Admit
  <2>2. IntervalTime(Resident)' = Total(f, Resident)
    BY <1>1, <2>1, IntervalsAddUpNext DEF Resident
  <2>3. useful' + wasted' + IntervalTime(Resident)' = occupied'
    BY <1>1, <1>3, <2>2
  <2> QED
    BY <1>1, <2>3, Zenon DEF AccountsInv, AccountsBalance
<1>5. CASE ~(Skipped(x) \/ Infeasible(x))
  <2> DEFINE new == [since |-> now, ordinal |-> ordinal,
                     expiry |-> IF Is({"FIXED_TTL"}) THEN now + cell.ttl ELSE Never]
  <2>1. resident' = [s \in Resident \cup {x} |-> IF s # x THEN resident[s] ELSE new]
    BY <1>5, Zenon DEF Admit
  <2>2. x \notin Resident
    BY <1>5 DEF Skipped
  <2>3. new.since = now
    OBVIOUS
  <2> HIDE DEF new
  <2>4. /\ DOMAIN resident' = Resident \cup {x} /\ resident'[x].since = now
        /\ \A s \in Resident : resident'[s].since = resident[s].since
    BY <2>1, <2>2, <2>3
  <2>5. Total(g, Resident) = Total(f, Resident)
    BY <1>1, <2>4, SameTime
  <2>6. /\ IntervalTime(Resident)' = Total(g, DOMAIN resident') /\ g[x] = 0
        /\ IsFiniteSet(DOMAIN resident') /\ \A s \in DOMAIN resident' : g[s] \in Int
    <3>1. now - now = 0
      BY DEF RetentionInv, RetentionTypes
    <3> QED
      BY <1>1, <2>4, <3>1, IntervalsAddUpNext
  <2> HIDE DEF f, g
  <2>7. Total(g, DOMAIN resident') = 0 + Total(g, Resident)
    <3>1. (DOMAIN resident') \ {x} = Resident /\ x \in DOMAIN resident'
      BY <2>2, <2>4
    <3> QED
      BY <2>6, <3>1, TotalFacts
  <2>8. useful' + wasted' + IntervalTime(Resident)' = occupied'
    BY <1>1, <1>2, <1>3, <2>5, <2>6, <2>7
  <2> QED
    BY <1>1, <2>8, Zenon DEF AccountsInv, AccountsBalance
<1> QED
  BY <1>4, <1>5

(* Nothing opened, closed or lasted.                                       *)
LEMMA UntouchedBalances ==
  ASSUME AccountsInv, RetentionInv, RetentionInv',
         UNCHANGED <<now, resident, useful, wasted, occupied>>
  PROVE  AccountsInv'
<1>1. IntervalTime(Resident)' = IntervalTime(Resident)
  BY IntervalsAddUp, IntervalsAddUpNext DEF Resident
<1> QED
  BY <1>1 DEF AccountsInv, AccountsBalance

(* Useful and wasted time partition the residency of every State, through  *)
(* reuses, evictions, expiries and readmissions (AccountsBalance), for all *)
(* Programs, policies and capacities.                                      *)
THEOREM AccountsAlwaysBalance == RetentionSpec => []AccountsBalance
<1>1. RetentionInit /\ RetentionInv => AccountsInv
  <2> SUFFICES ASSUME RetentionInit, RetentionInv PROVE AccountsInv
    OBVIOUS
  <2>1. Resident = {} /\ useful = 0 /\ wasted = 0 /\ occupied = 0
    BY DEF RetentionInit, Resident
  <2>2. IntervalTime(Resident) = 0
    BY <2>1, IntervalsAddUp, TotalFacts
  <2> QED
    BY <2>1, <2>2 DEF AccountsInv, AccountsBalance
<1>2. AccountsInv /\ RetentionInv /\ RetentionInv' /\ [RetentionNext]_rvars => AccountsInv'
  <2> SUFFICES ASSUME AccountsInv, RetentionInv, RetentionInv', [RetentionNext]_rvars
               PROVE  AccountsInv'
    OBVIOUS
  <2>1. ASSUME NEW t \in 1..MaxTime, Advance(t) PROVE AccountsInv'
    BY <2>1, AdvanceBalances
  <2>2. ASSUME NEW s \in RStates, Invalidate(s) PROVE AccountsInv'
    BY <2>2, ReleaseBalances DEF Invalidate
  <2>3. ASSUME NEW s \in RStates, Reuse(s) PROVE AccountsInv'
    BY <2>3, ReuseBalances
  <2>4. ASSUME NEW s \in RStates, Admit(s) PROVE AccountsInv'
    BY <2>4, AdmitBalances
  <2>5. CASE UpdateTruth
    BY <2>5, UntouchedBalances DEF UpdateTruth
  <2>6. CASE ReleaseAndExpire
    <3>1. Released \cup Expired \in SUBSET Resident
      BY DEF Released, Expired
    <3> QED
      BY <2>6, <3>1, ReleaseBalances DEF ReleaseAndExpire
  <2>7. CASE CapacityEnforce
    <3>1. Victims \in SUBSET Resident
      BY DEF Victims, Evictable, ActiveProtected
    <3>2. CASE Release(Victims)
      BY <2>7, <3>1, <3>2, ReleaseBalances DEF CapacityEnforce
    <3>3. CASE UNCHANGED <<resident, wasted>>
      BY <2>7, <3>3, UntouchedBalances DEF CapacityEnforce
    <3> QED
      BY <2>7, <3>2, <3>3 DEF CapacityEnforce
  <2>8. CASE ProgramEnd
    BY <2>8, ReleaseBalances DEF ProgramEnd
  <2>9. CASE UNCHANGED rvars
    BY <2>9, UntouchedBalances DEF rvars
  <2> QED
    BY <2>1, <2>2, <2>3, <2>4, <2>5, <2>6, <2>7, <2>8, <2>9 DEF RetentionNext
<1>3. AccountsInv => AccountsBalance
  BY DEF AccountsInv
<1> QED
  BY <1>1, <1>2, <1>3, RetentionInvariant, PTL DEF RetentionSpec
=============================================================================
