---------------------------- MODULE EventKernel ----------------------------
(***************************************************************************)
(* DiscreteEventSimulator as its callers may use it, in any order.  The    *)
(* handlers that run() calls schedule and cancel in turn: what a handler   *)
(* does after its event is popped is a sequence of the steps below.        *)
(***************************************************************************)
EXTENDS DiscreteEvents

CONSTANTS
  Identifiers, \* the event_ids a caller may choose
  Delays,      \* the delays an event may be scheduled with
  Horizons,    \* the values of until
  MaxEvents    \* bound: events scheduled

ASSUME KernelAssumption == Delays \subseteq Nat /\ Horizons \subseteq Nat /\ MaxEvents \in Nat

VARIABLE sim   \* the simulator

---------------------------------------------------------------------------
KernelInit == sim = NewSimulator

Schedule(order) ==
  /\ sim.next < MaxEvents
  /\ Schedulable(sim, order)
  /\ sim' = Scheduled(sim, <<order>>)

Cancel(id) ==
  /\ id \in Ids(Pending(sim))
  /\ sim' = Cancelled(sim, {id})

RunNext == \E e \in sim.queue : IsEarliest(sim, e) /\ sim' = Popped(sim, e)

RunUntil(until) == Reaches(sim, until) /\ sim' = AtHorizon(sim, until)

KernelNext ==
  \/ \E delay \in Delays, id \in Identifiers \cup {NoId} :
       Schedule(Order("any", sim.now + delay, id, "any"))
  \/ \E e \in sim.queue : Cancel(e.id)
  \/ RunNext
  \/ \E until \in Horizons : RunUntil(until)

KernelSpec == KernelInit /\ [][KernelNext]_sim

---------------------------------------------------------------------------
(* Type correctness of the kernel's bookkeeping: cancelled events are in   *)
(* the heap, what is in the heap or the trace is known.                    *)
KernelTypeOK ==
  /\ sim.now \in Nat /\ sim.next \in Nat
  /\ \A e \in sim.queue : e.time \in Nat /\ e.sequence < sim.next
  /\ sim.cancelled \subseteq Ids(sim.queue)
  /\ Ids(sim.queue) \subseteq sim.known
  /\ \A i \in DOMAIN sim.trace : sim.trace[i].id \in sim.known

(* Simulated time never has to run backward: "event queue violated         *)
(* monotonic simulated time" (simulator/engine.py:130) is never raised,    *)
(* and what has been executed is in the order of time and insertion, at    *)
(* most once and under an id of its own, and never still in the heap.      *)
TraceIsOrdered ==
  /\ KernelTypeOK
  /\ \A e \in sim.queue : e.time >= sim.now
  /\ \A i, j \in DOMAIN sim.trace : i < j => Before(sim.trace[i], sim.trace[j])
  /\ \A i, j \in DOMAIN sim.trace : sim.trace[i].id = sim.trace[j].id => i = j
  /\ \A e, f \in sim.queue : e.id = f.id => e = f
  /\ \A i \in DOMAIN sim.trace : sim.trace[i].id \notin Ids(sim.queue)

(* An event that has been cancelled stays so, and leaves the heap without  *)
(* ever entering the trace.                                                *)
CancelledNeverRuns ==
  [][\A id \in sim.cancelled :
       \/ id \in sim'.cancelled
       \/ /\ id \notin Ids(sim'.queue)
          /\ \A i \in DOMAIN sim'.trace : sim'.trace[i].id # id]_sim
===========================================================================
