-------------------------- MODULE RetentionEngine --------------------------
(***************************************************************************)
(* The C7.3 retention engine: one Program case under one of four retention *)
(* policies.  The case is a sequence of batches, one per logical time; run *)
(* takes each batch through fixed phases:                                  *)
(*   invalidations, truth updates, policy releases and TTL expiries,       *)
(*   reuses, admissions, capacity enforcement, checkpoint.                 *)
(* The events of a batch are chosen as the phases reach them.  Every State *)
(* has the same frozen size, so bytes are counted in States.               *)
(***************************************************************************)
EXTENDS Integers, FiniteSets, FiniteSetsExt, Functions

CONSTANTS
  RStates,      \* the declared States
  RSessions,    \* the declared Sessions
  SessionOf,    \* the Session of each State
  Capacities,   \* the values of capacity_bytes, in States
  Ttls,         \* the values of ttl_seconds
  MaxTime,      \* bound: the end of the Program
  MaxAdmits     \* bound: ADMIT events

ASSUME RetentionAssumption ==
  /\ IsFiniteSet(RStates)
  /\ SessionOf \in [RStates -> RSessions]
  /\ Capacities \subseteq Nat /\ Ttls \subseteq Nat \ {0}
  /\ MaxTime \in Nat /\ MaxAdmits \in Nat

VARIABLES
  cell,       \* the manifest: policy, capacity and ttl
  now,        \* the logical time of the batch
  phase,      \* the phase reached, "idle" between batches
  sessions,   \* whether each Session is live
  truth,      \* validity, lifecycle and production of each State
  resident,   \* the resident States: start of interval, ordinal, expiry
  ordinal,    \* ADMIT events so far
  batch,      \* the States admitted in this batch
  outcome,    \* capacity_outcome
  raised,     \* the assertion that stopped the run, or "none"
  useful, wasted, \* classified State-time
  reference,  \* the largest working set so far: valid, produced, not terminal
  occupied    \* history: the integral of the resident set over time

rvars == <<cell, now, phase, sessions, truth, resident, ordinal, batch, outcome,
           raised, useful, wasted, reference, occupied>>

---------------------------------------------------------------------------
Lifecycles == {"ACTIVE", "WAITING", "SPECULATIVE", "TERMINAL"}
Never == -1   \* expiry_seconds None

Priority(lifecycle) ==
  CASE lifecycle = "ACTIVE" -> 3 [] lifecycle = "WAITING" -> 2
    [] lifecycle = "SPECULATIVE" -> 1 [] OTHER -> 0

Is(policies) == cell.policy \in policies
Resident == DOMAIN resident
Full(res) == Cardinality(DOMAIN res) > cell.capacity

(* Every audit record is followed by the check of the capacity.            *)
Recorded(res) == IF Full(res) THEN "overcommit" ELSE "none"

(* The lifecycle of a State is the first class among its live dependents.  *)
DeriveLifecycle(dependents) ==
  IF "ACTIVE" \in dependents THEN "ACTIVE"
  ELSE IF "WAITING" \in dependents THEN "WAITING"
  ELSE IF "SPECULATIVE" \in dependents THEN "SPECULATIVE"
  ELSE "TERMINAL"

IntervalTime(gone) == MapThenSumSet(LAMBDA s : now - resident[s].since, gone)

(* Closing the intervals of the States that leave: wasted State-time.      *)
Release(gone) ==
  /\ resident' = Restrict(resident, Resident \ gone)
  /\ wasted' = wasted + IntervalTime(gone)

---------------------------------------------------------------------------
RetentionInit ==
  /\ cell \in [policy : {"LRU", "FIXED_TTL", "SESSION_PINNING", "LIFECYCLE_B4"},
               capacity : Capacities, ttl : Ttls]
  /\ cell.policy # "FIXED_TTL" => cell.ttl = CHOOSE t \in Ttls : TRUE
  /\ now = 0 /\ phase = "invalidate"
  /\ sessions \in [RSessions -> BOOLEAN]
  /\ truth \in [RStates -> [valid : {TRUE}, lifecycle : Lifecycles, produced : {FALSE}]]
  /\ resident = <<>> /\ ordinal = 0 /\ batch = {}
  /\ outcome = "ELIGIBLE" /\ raised = "none"
  /\ useful = 0 /\ wasted = 0 /\ reference = 0 /\ occupied = 0

(* Mutant: the engine visits the times of external events only.            *)
NoExpiry == {}

NextExpiry == {resident[s].expiry : s \in {s \in Resident : resident[s].expiry > now}}

(* The next time is that of the next batch or of the next expiry.          *)
Advance(t) ==
  /\ phase = "idle" /\ t > now
  /\ \A e \in NextExpiry : t <= e
  /\ now' = t /\ phase' = "invalidate"
  /\ occupied' = occupied + Cardinality(Resident) * (t - now)
  /\ UNCHANGED <<cell, sessions, truth, resident, ordinal, batch, outcome, raised, useful, wasted, reference>>

Invalidate(s) ==
  /\ phase = "invalidate" /\ truth[s].produced
  /\ truth' = [truth EXCEPT ![s].valid = FALSE]
  /\ Release({s} \cap Resident)
  /\ UNCHANGED <<cell, now, phase, sessions, ordinal, batch, outcome, raised, useful, reference, occupied>>

UpdateTruth ==
  /\ phase \in {"invalidate", "truth"} /\ phase' = "truth"
  /\ \/ \E s \in RStates, dependents \in {{c} : c \in Lifecycles} \cup {{"WAITING", "ACTIVE"}} :
          /\ truth' = [truth EXCEPT ![s].lifecycle = DeriveLifecycle(dependents)]
          /\ UNCHANGED sessions
     \/ \E x \in RSessions, live \in BOOLEAN :
          /\ sessions' = [sessions EXCEPT ![x] = live]
          /\ UNCHANGED truth
  /\ UNCHANGED <<cell, now, resident, ordinal, batch, outcome, raised, useful, wasted, reference, occupied>>

Released ==
  {s \in Resident : \/ Is({"SESSION_PINNING"}) /\ ~sessions[SessionOf[s]]
                    \/ Is({"LIFECYCLE_B4"}) /\ truth[s].lifecycle = "TERMINAL"}

Expired == {s \in Resident : resident[s].expiry # Never /\ resident[s].expiry <= now}

(* _policy_releases and _ttl_expiries, which asserts that nothing is late. *)
ReleaseAndExpire ==
  /\ phase \in {"invalidate", "truth"}
  /\ Release(Released \cup Expired)
  /\ raised' = IF \E s \in Expired \ Released : resident[s].expiry # now THEN "ttl" ELSE "none"
  /\ phase' = IF raised' = "none" THEN "reuse" ELSE "raised"
  /\ UNCHANGED <<cell, now, sessions, truth, ordinal, batch, outcome, useful, reference, occupied>>

(* Mutant: a reuse leaves the interval open.                               *)
ReuseOpen(s) ==
  /\ phase = "reuse" /\ s \in Resident /\ truth[s].valid
  /\ useful' = useful + IntervalTime({s})
  /\ UNCHANGED <<cell, now, phase, sessions, truth, resident, ordinal, batch, outcome, raised, wasted, reference, occupied>>

(* A semantically valid reuse of a resident State closes its interval as   *)
(* useful and touches it; a reject or a miss only counts.                  *)
Reuse(s) ==
  /\ phase = "reuse" /\ truth[s].produced
  /\ s \in Resident /\ truth[s].valid
  /\ useful' = useful + IntervalTime({s})
  /\ resident' = [resident EXCEPT ![s].since = now]
  /\ UNCHANGED <<cell, now, phase, sessions, truth, ordinal, batch, outcome, raised, wasted, reference, occupied>>

(* Mutant: a State that waits is protected in place of an active one.      *)
WaitingProtected(S) == {s \in S : truth[s].lifecycle = "WAITING"}

ActiveProtected(S) == {s \in S : truth[s].lifecycle = "ACTIVE"}

Infeasible(s) ==
  \/ /\ Is({"SESSION_PINNING"}) /\ sessions[SessionOf[s]]
     /\ Cardinality(Resident) + 1 > cell.capacity
  \/ /\ Is({"LIFECYCLE_B4"}) /\ truth[s].lifecycle = "ACTIVE"
     /\ Cardinality(ActiveProtected(Resident)) + 1 > cell.capacity

Skipped(s) ==
  \/ ~truth[s].valid
  \/ s \in Resident
  \/ Is({"LRU", "FIXED_TTL"}) /\ cell.capacity < 1
  \/ Is({"SESSION_PINNING"}) /\ ~sessions[SessionOf[s]]
  \/ Is({"LIFECYCLE_B4"}) /\ truth[s].lifecycle = "TERMINAL"

(* An admission that is skipped or infeasible is audited at once, before   *)
(* the batch's earlier admissions have been cut to the capacity; one that  *)
(* succeeds is audited by the enforcement.                                 *)
Admit(s) ==
  /\ phase \in {"reuse", "admit"} /\ ordinal < MaxAdmits
  /\ truth' = [truth EXCEPT ![s].produced = TRUE]
  /\ ordinal' = ordinal + 1
  /\ IF Skipped(s) \/ Infeasible(s)
     THEN /\ raised' = Recorded(resident)
          /\ outcome' = IF Skipped(s) THEN outcome ELSE "CAPACITY_INFEASIBLE"
          /\ UNCHANGED <<resident, batch>>
     ELSE /\ resident' = [x \in Resident \cup {s} |->
                            IF x # s THEN resident[x]
                            ELSE [since |-> now, ordinal |-> ordinal,
                                  expiry |-> IF Is({"FIXED_TTL"}) THEN now + cell.ttl ELSE Never]]
          /\ batch' = batch \cup {s}
          /\ UNCHANGED <<outcome, raised>>
  /\ phase' = IF raised' = "none" THEN "admit" ELSE "raised"
  /\ UNCHANGED <<cell, now, sessions, useful, wasted, reference, occupied>>

(* The order of eviction: class first under LIFECYCLE_B4, then the least   *)
(* recently touched, then the order of admission.                          *)
EvictedBefore(s, t) ==
  LET class(x) == IF Is({"LIFECYCLE_B4"}) THEN Priority(truth[x].lifecycle) ELSE 0
  IN \/ class(s) < class(t)
     \/ /\ class(s) = class(t)
        /\ \/ resident[s].since < resident[t].since
           \/ resident[s].since = resident[t].since /\ resident[s].ordinal < resident[t].ordinal

Evictable == IF Is({"LIFECYCLE_B4"}) THEN Resident \ ActiveProtected(Resident) ELSE Resident

Excess == IF Full(resident) THEN Cardinality(Resident) - cell.capacity ELSE 0

(* Mutant: one victim per batch.                                           *)
OneVictim ==
  {s \in Evictable : Excess > 0 /\ \A t \in Evictable \ {s} : EvictedBefore(s, t)}

(* Eviction takes the first in order until the rest fits.                  *)
Victims ==
  {s \in Evictable : Cardinality({t \in Evictable : EvictedBefore(t, s)}) < Excess}

WorkingSet ==
  {s \in RStates : truth[s].produced /\ truth[s].valid /\ truth[s].lifecycle # "TERMINAL"}

CapacityEnforce ==
  /\ phase \in {"reuse", "admit"}
  /\ IF \/ Is({"SESSION_PINNING"}) /\ Full(resident)
        \/ Cardinality(Evictable) < Excess
     THEN /\ raised' = "enforce" /\ phase' = "raised"
          /\ UNCHANGED <<resident, wasted, batch>>
     ELSE /\ Release(Victims)
          /\ phase' = "idle" /\ batch' = {}
          /\ UNCHANGED raised
  /\ reference' = Max({reference, Cardinality(WorkingSet)})
  /\ UNCHANGED <<cell, now, sessions, truth, ordinal, outcome, useful, occupied>>

(* The capacities a reference working set gives: a ratio of the frozen     *)
(* axis, rounded down to whole States.                                     *)
CapacityBytes(ref) == {ref \div 4, ref \div 2, ref, 2 * ref}

(* The end of the Program, once every declared State has been admitted.    *)
ProgramEnd ==
  /\ phase = "idle" /\ \A s \in RStates : truth[s].produced
  /\ reference > 0 /\ cell.capacity \in CapacityBytes(reference)
  /\ Release(Resident)
  /\ phase' = "ended"
  /\ UNCHANGED <<cell, now, sessions, truth, ordinal, batch, outcome, raised, useful, reference, occupied>>

RetentionNext ==
  \/ \E t \in 1..MaxTime : Advance(t)
  \/ \E s \in RStates : Invalidate(s) \/ Reuse(s) \/ Admit(s)
  \/ UpdateTruth \/ ReleaseAndExpire \/ CapacityEnforce \/ ProgramEnd

---------------------------------------------------------------------------
(* What a checkpoint shows is within capacity, valid, unexpired, of live   *)
(* sessions under SESSION_PINNING and not terminal under LIFECYCLE_B4,     *)
(* whatever the batch held ("Capacity is never overcommitted",             *)
(* spec/51-c7.3a-retention-protocol.md:83).                                *)
CheckpointsFit ==
  phase = "idle" =>
    /\ ~Full(resident)
    /\ Released = {} /\ Expired = {}
    /\ \A s \in Resident : truth[s].valid

(* A State that was resident and protected, ACTIVE under LIFECYCLE_B4 or of *)
(* a live session under SESSION_PINNING, leaves only when it is            *)
(* invalidated, no longer protected, or the Program ends.                  *)
Protects(s) ==
  \/ Is({"LIFECYCLE_B4"}) /\ truth[s].lifecycle = "ACTIVE"
  \/ Is({"SESSION_PINNING"}) /\ sessions[SessionOf[s]]

ProtectedStays ==
  [][\A s \in Resident : Protects(s) =>
       s \in DOMAIN resident' \/ ~truth'[s].valid \/ phase' = "ended"]_rvars

(* Useful and wasted time partition the residency: closed and open         *)
(* intervals together are the integral of the resident set, through        *)
(* reuses, evictions, expiries and readmissions.                           *)
AccountsBalance ==
  useful + wasted + IntervalTime(Resident) = occupied

(* Of the engine's assertions, exact expiry (engine:720), pinning without  *)
(* overcommit (:816) and repairable protection (:841) never raise; what    *)
(* can is the check of the audit records (:649).                           *)
OnlyTheAuditRaises == raised \in {"none", "overcommit"}

(* The audit never shows more than the capacity: "No externally observable *)
(* audit snapshot therefore represents capacity overcommit."               *)
(* (experiments/c73_retention_engine.py:866).                              *)
NoAuditOvercommit == raised # "overcommit"
============================================================================
