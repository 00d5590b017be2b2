------------------------- MODULE SemanticCoreProofs -------------------------
(***************************************************************************)
(* Proofs about the whole semantic core, for any sets of identifiers, any  *)
(* callers and any semantic_validity callback: the core implements the     *)
(* fencing of attempts, provenance never dangles, cached lifecycles are    *)
(* never stale, what may be consumed is safe however deep it is wrapped,   *)
(* every snapshot is accepted by the oracle, and epochs fence migrations   *)
(* for any number of subjects, candidates and commits.                     *)
(***************************************************************************)
EXTENDS InvariantOracle, AttemptFencingProofs, FiniteSetTheorems

(* The continuation graph.  is_ancestor is stated over the parent-closed   *)
(* sets, so these facts need no induction over paths: each names the set.  *)
LEMMA AncestorReflexive ==
  ASSUME NEW c, NEW conts
  PROVE  IsAncestor(c, c, conts)
BY DEF IsAncestor

LEMMA AncestorTransitive ==
  ASSUME NEW a, NEW b, NEW c, NEW conts, IsAncestor(a, b, conts), IsAncestor(b, c, conts)
  PROVE  IsAncestor(a, c, conts)
BY DEF IsAncestor

(* Every parent is a node of the graph.                                    *)
ParentsResolve(conts) == \A c \in DOMAIN conts : conts[c].parents \subseteq DOMAIN conts

LEMMA AncestorInGraph ==
  ASSUME NEW conts, ParentsResolve(conts), NEW c \in DOMAIN conts, NEW a,
         IsAncestor(a, c, conts)
  PROVE  a \in DOMAIN conts
BY DEF IsAncestor, ParentClosed, ParentsResolve

(* later is the graph before with, maybe, more nodes; the lifecycles are   *)
(* free.                                                                   *)
GraphGrows(before, later) ==
  /\ DOMAIN before \subseteq DOMAIN later
  /\ \A c \in DOMAIN before : later[c].parents = before[c].parents

(* A node keeps its ancestors when the graph grows: a closed set of either *)
(* graph gives one of the other.                                           *)
LEMMA AncestorsKept ==
  ASSUME NEW before, NEW later, ParentsResolve(before), GraphGrows(before, later),
         NEW a, NEW d \in DOMAIN before
  PROVE  IsAncestor(a, d, later) = IsAncestor(a, d, before)
<1>1. ASSUME IsAncestor(a, d, later), NEW S \in SUBSET DOMAIN before, d \in S,
             ParentClosed(S, before)
      PROVE  a \in S
  <2>1. S \in SUBSET DOMAIN later /\ ParentClosed(S, later)
    BY <1>1 DEF ParentClosed, GraphGrows
  <2> QED
    BY <1>1, <2>1 DEF IsAncestor
<1>2. ASSUME IsAncestor(a, d, before), NEW S \in SUBSET DOMAIN later, d \in S,
             ParentClosed(S, later)
      PROVE  a \in S
  <2> DEFINE T == S \cap DOMAIN before
  <2>1. T \in SUBSET DOMAIN before /\ d \in T /\ ParentClosed(T, before)
    BY <1>2 DEF ParentClosed, GraphGrows, ParentsResolve
  <2>2. a \in T
    BY <1>2, <2>1 DEF IsAncestor
  <2> QED
    BY <2>2
<1>3. IsAncestor(a, d, later) => IsAncestor(a, d, before)
  BY <1>1 DEF IsAncestor
<1>4. IsAncestor(a, d, before) => IsAncestor(a, d, later)
  BY <1>2 DEF IsAncestor
<1> QED
  BY <1>3, <1>4 DEF IsAncestor

(* Ancestors are in the session of the node, if parents are.               *)
LEMMA AncestorsShareSession ==
  ASSUME NEW conts, ParentsResolve(conts),
         \A c \in DOMAIN conts : \A p \in conts[c].parents : conts[p].session = conts[c].session,
         NEW d \in DOMAIN conts, NEW a, IsAncestor(a, d, conts)
  PROVE  a \in DOMAIN conts /\ conts[a].session = conts[d].session
<1> DEFINE S == {c \in DOMAIN conts : conts[c].session = conts[d].session}
<1>1. S \in SUBSET DOMAIN conts /\ d \in S /\ ParentClosed(S, conts)
  BY DEF ParentClosed, ParentsResolve
<1>2. a \in S
  BY <1>1 DEF IsAncestor
<1> QED
  BY <1>2

---------------------------------------------------------------------------
(* Derivation, in the same way.                                            *)
DerivedResolve == \A s \in DOMAIN states : states[s].derived \subseteq DOMAIN states

LEMMA LineageReflexive ==
  ASSUME NEW s \in DOMAIN states
  PROVE  s \in Lineage(s)
BY DEF Lineage

LEMMA LineageTransitive ==
  ASSUME NEW d, NEW x, NEW s, x \in Lineage(s), d \in Lineage(x)
  PROVE  d \in Lineage(s)
BY DEF Lineage

(* Every derivation-closed set around s holds all that s rests on.         *)
LEMMA LineageLeast ==
  ASSUME NEW s, NEW S \in SUBSET DOMAIN states, s \in S, DerivationClosed(S)
  PROVE  Lineage(s) \subseteq S
BY DEF Lineage

(* A State rests on itself and on what its dependencies rest on.           *)
LEMMA LineageUnfolds ==
  ASSUME DerivedResolve, NEW s \in DOMAIN states
  PROVE  Lineage(s) = {s} \cup UNION {Lineage(d) : d \in states[s].derived}
<1> DEFINE S == {s} \cup UNION {Lineage(d) : d \in states[s].derived}
<1>1. \A d \in states[s].derived : d \in DOMAIN states /\ d \in Lineage(s)
  BY DEF DerivedResolve, Lineage, DerivationClosed
<1>2. S \subseteq Lineage(s)
  BY <1>1, LineageReflexive, LineageTransitive
<1>3. \A x : Lineage(x) \subseteq DOMAIN states
  BY DEF Lineage
<1>4. ASSUME NEW x \in S PROVE states[x].derived \subseteq S
  <2>1. CASE x = s
    BY <1>1, <2>1, LineageReflexive
  <2>2. ASSUME NEW d \in states[s].derived, x \in Lineage(d)
        PROVE  states[x].derived \subseteq S
    <3>1. \A y \in states[x].derived : y \in Lineage(x)
      BY <1>3, <2>2 DEF DerivedResolve, Lineage, DerivationClosed
    <3> QED
      BY <2>2, <3>1, LineageTransitive
  <2> QED
    BY <1>4, <2>1, <2>2
<1>5. Lineage(s) \subseteq S
  <2>1. S \in SUBSET DOMAIN states /\ s \in S
    BY <1>3
  <2>2. DerivationClosed(S)
    BY <1>4 DEF DerivationClosed
  <2> HIDE DEF S
  <2> QED
    BY <2>1, <2>2, LineageLeast
<1> QED
  BY <1>2, <1>5

(* New States and new lifecycles leave the lineage of a State alone.       *)
LEMMA LineageKept ==
  ASSUME DerivedResolve, DOMAIN states \subseteq DOMAIN states',
         \A x \in DOMAIN states : states'[x].derived = states[x].derived,
         NEW s \in DOMAIN states
  PROVE  Lineage(s)' = Lineage(s)
<1>1. ASSUME NEW d \in Lineage(s)' PROVE d \in Lineage(s)
  <2>1. \A x \in DOMAIN states : states'[x].derived \subseteq DOMAIN states
    BY DEF DerivedResolve
  <2>2. d \in DOMAIN states
    BY <1>1, <2>1 DEF Lineage, DerivationClosed
  <2>3. ASSUME NEW S \in SUBSET DOMAIN states, s \in S, DerivationClosed(S)
        PROVE  d \in S
    <3>1. S \in SUBSET DOMAIN states' /\ DerivationClosed(S)'
      BY <2>3 DEF DerivationClosed
    <3> QED
      BY <1>1, <2>3, <3>1 DEF Lineage
  <2> QED
    BY <2>2, <2>3 DEF Lineage
<1>2. ASSUME NEW d \in Lineage(s) PROVE d \in Lineage(s)'
  <2>1. d \in DOMAIN states'
    BY <1>2 DEF Lineage
  <2>2. ASSUME NEW S \in SUBSET DOMAIN states', s \in S, DerivationClosed(S)'
        PROVE  d \in S
    <3> DEFINE T == S \cap DOMAIN states
    <3>1. T \in SUBSET DOMAIN states /\ s \in T /\ DerivationClosed(T)
      BY <2>2 DEF DerivationClosed, DerivedResolve
    <3>2. d \in T
      BY <1>2, <3>1 DEF Lineage
    <3> QED
      BY <3>2
  <2> QED
    BY <2>1, <2>2 DEF Lineage
<1> QED
  BY <1>1, <1>2

---------------------------------------------------------------------------
(* state_compatible is a recursion over derived_from; what it computes is  *)
(* that every State of the lineage passes the local tests.  compatible is  *)
(* some solution of its recursive equation; the equation has one because   *)
(* lineages unfold, and any solution is closed under derivation.           *)
LEMMA CompatibleThroughout ==
  ASSUME DerivedResolve, NEW s, NEW ctx, StateCompatible(s, ctx)
  PROVE  /\ ContextConsistent(ctx)
         /\ s \in DOMAIN states
         /\ \A d \in Lineage(s) : LocallyCompatible(d, ctx)
<1> DEFINE Solves(f) ==
             f = [x \in DOMAIN states |->
                    LocallyCompatible(x, ctx) /\ \A d \in states[x].derived : f[d]]
           compatible == CHOOSE f : Solves(f)
           throughout ==
             [x \in DOMAIN states |-> \A d \in Lineage(x) : LocallyCompatible(d, ctx)]
<1>1. ContextConsistent(ctx) /\ s \in DOMAIN states /\ compatible[s]
  BY Zenon DEF StateCompatible
<1>2. Solves(throughout)
  <2>1. ASSUME NEW x \in DOMAIN states
        PROVE  throughout[x]
                 = (LocallyCompatible(x, ctx) /\ \A d \in states[x].derived : throughout[d])
    <3>1. Lineage(x) = {x} \cup UNION {Lineage(d) : d \in states[x].derived}
      BY LineageUnfolds
    <3>2. \A d \in states[x].derived : d \in DOMAIN states
      BY DEF DerivedResolve
    <3>3. \A d \in states[x].derived :
            throughout[d] = \A e \in Lineage(d) : LocallyCompatible(e, ctx)
      BY <3>2
    <3>4. throughout[x] = \A e \in Lineage(x) : LocallyCompatible(e, ctx)
      OBVIOUS
    <3> HIDE DEF throughout
    <3> QED
      BY <3>1, <3>3, <3>4
  <2> QED
    BY <2>1
<1>3. Solves(compatible)
  <2> HIDE DEF Solves, throughout
  <2> QED
    BY <1>2
<1>4. \A x \in DOMAIN states :
        compatible[x] => LocallyCompatible(x, ctx) /\ \A d \in states[x].derived : compatible[d]
  <2> HIDE DEF compatible
  <2> QED
    BY <1>3
<1> HIDE DEF compatible, Solves
<1> DEFINE S == {x \in DOMAIN states : compatible[x]}
<1>5. S \in SUBSET DOMAIN states /\ s \in S /\ DerivationClosed(S)
  BY <1>1, <1>4 DEF DerivationClosed, DerivedResolve
<1>6. Lineage(s) \subseteq S
  BY <1>5, LineageLeast
<1> QED
  BY <1>1, <1>4, <1>6

---------------------------------------------------------------------------
(* Every reference of the graph, the phases and the replicas resolves, and *)
(* parents are in the session of their children.                           *)
GraphResolves ==
  /\ \A s \in DOMAIN sessions : sessions[s] \in DOMAIN programs
  /\ \A c \in DOMAIN continuations :
       /\ continuations[c].session \in DOMAIN sessions
       /\ ParentsInSession(continuations[c].parents, continuations[c].session)
  /\ \A r \in DOMAIN requests : requests[r].continuation \in DOMAIN continuations
  /\ \A p \in DOMAIN phases : phases[p].attempt \in DOMAIN attempts
  /\ \A i \in DOMAIN replicas : replicas[i].state \in DOMAIN states

(* No continuation and no State comes back to itself.                      *)
GraphAcyclic ==
  \A c \in DOMAIN continuations : \A p \in continuations[c].parents :
    ~IsAncestor(c, p, continuations)
DerivationAcyclic == \A s \in DOMAIN states : \A d \in states[s].derived : s \notin Lineage(d)

(* The phases of an attempt are numbered 1..n, each number used once.      *)
PhasesNumbered ==
  \A a \in DOMAIN attempts :
    /\ \A p, q \in PhasesOf(a) : phases[p].ordinal = phases[q].ordinal => p = q
    /\ \E n \in {0} \cup Ordinals(a) : Ordinals(a) = 1..n

(* What the fields of a State say of the place it was made in.             *)
OriginResolves(x) ==
  /\ x.continuation \in DOMAIN continuations
  /\ (x.origin = "continuation") = (x.attempt = NULL)
  /\ (x.attempt = NULL) = (x.request = NULL)
  /\ (x.origin = "phase") = (x.phase # NULL)
  /\ x.attempt # NULL =>
       /\ x.attempt \in DOMAIN attempts
       /\ x.request = attempts[x.attempt].request
       /\ x.continuation = requests[x.request].continuation
  /\ x.origin = "request" => CommittedProducer(x)
  /\ x.phase # NULL => /\ x.phase \in DOMAIN phases
                       /\ phases[x.phase].status = "COMPLETED"
                       /\ phases[x.phase].attempt = x.attempt

OriginsResolve == \A s \in DOMAIN states : OriginResolves(states[s])

(* A State still may depend on what it was derived from.                   *)
DependenciesAllowed ==
  /\ DerivedResolve
  /\ \A s \in DOMAIN states : \A d \in states[s].derived : MayDependOn(d, states[s])

(* The inductive invariant of the core.  The origin of a State resolves    *)
(* for ever because commits and completed phases are final (IInv), its     *)
(* causality because the graph only grows, and both need every reference   *)
(* to resolve.                                                             *)
CoreInv ==
  /\ IInv
  /\ LineageTypeOK
  /\ callers \in Callers
  /\ GraphResolves
  /\ GraphAcyclic
  /\ PhasesNumbered
  /\ OriginsResolve
  /\ DependenciesAllowed
  /\ DerivationAcyclic
  /\ LifecycleIsFresh

---------------------------------------------------------------------------
(* A callers' profile only names statuses there are.                       *)
LEMMA ProfileTyped ==
  ASSUME callers \in Callers
  PROVE  /\ callers.executions \subseteq ExecutionStatus
         /\ callers.lifecycles \subseteq ContinuationLifecycle
         /\ callers.programStatus \subseteq ProgramStatus
         /\ callers.phaseStatus \subseteq PhaseStatus
         /\ callers.validity \subseteq StateValidity
         /\ callers.replicaStatus \subseteq ReplicaStatus
BY LineageAssumption DEF CallerProfile

(* Taking the identifiers of other collections into account only narrows   *)
(* an operation of AttemptFencing, so every step of the core is one of its *)
(* steps or leaves its variables alone.                                    *)
LEMMA CoreStepIsFencingStep ==
  ASSUME callers \in Callers, DOMAIN continuations \subseteq ContinuationIds, [CoreNext]_coreVars
  PROVE  [Next]_vars
<1>1. ASSUME RequestStep PROVE [Next]_vars
  <2>1. ASSUME NEW r \in RequestIds, NEW c \in DOMAIN continuations,
               CreateRequest(r, c, LineageIds)
        PROVE  Next
    <3>1. CreateRequest(r, c, {}) /\ c \in ContinuationIds
      BY <2>1 DEF CreateRequest, Unique
    <3> QED
      BY <3>1 DEF Next
  <2>2. ASSUME NEW a \in AttemptIds, NEW r \in RequestIds, StartAttempt(a, r, LineageIds)
        PROVE  Next
    <3>1. StartAttempt(a, r, {})
      BY <2>2 DEF StartAttempt, MayStart, Unique
    <3> QED
      BY <3>1 DEF Next, AttemptStep
  <2>3. ASSUME NEW a \in AttemptIds, NEW status \in callers.executions,
               SetAttemptExecution(a, status)
        PROVE  Next
    <3>1. status \in ExecutionStatus
      BY <2>3, ProfileTyped
    <3> QED
      BY <2>3, <3>1 DEF Next, AttemptStep
  <2>4. ASSUME NEW o \in OutputIds, NEW a \in AttemptIds, NEW terminal \in BOOLEAN,
               NEW ids \in SUBSET EvidenceIds, CreateOutput(o, a, terminal, ids, LineageIds)
        PROVE  Next
    <3>1. CreateOutput(o, a, terminal, ids, {})
      BY <2>4 DEF CreateOutput, MayCreateOutput, Unique
    <3> QED
      BY <3>1 DEF Next, AttemptStep
  <2>5. ASSUME NEW r \in RequestIds, NEW o \in OutputIds, NEW now \in Times,
               FinalizeRequest(r, o, now)
        PROVE  Next
    BY <2>5 DEF Next, AttemptStep
  <2>6. ASSUME NEW i \in EvidenceIds, NEW e \in EvidenceRecords,
               RecordEvidence(i, e, FencingIds \cup LineageIds), UNCHANGED fencingVars
        PROVE  Next
    <3>1. RecordEvidence(i, e, FencingIds \cup {})
      BY <2>6 DEF RecordEvidence, MayRecord
    <3> QED
      BY <2>6, <3>1 DEF Next, AttemptStep
  <2> QED
    BY <1>1, <2>1, <2>2, <2>3, <2>4, <2>5, <2>6 DEF RequestStep
<1>2. ASSUME GraphStep PROVE UNCHANGED vars
  BY <1>2
     DEF GraphStep, CreateProgram, SetProgramStatus, CreateSession, CreateContinuation,
         ResumeAfterWait, SetContinuationLifecycle
<1>3. ASSUME StateStep PROVE UNCHANGED vars
  BY <1>3
     DEF StateStep, CreatePhase, SetPhaseStatus, CreateState, SetStateValidity, AddReplica,
         SetReplicaStatus
<1>4. UNCHANGED coreVars => UNCHANGED vars
  BY DEF coreVars, vars
<1> QED
  BY <1>1, <1>2, <1>3, <1>4 DEF CoreNext

---------------------------------------------------------------------------
(* Two values of a State that differ in lifecycle and validity at most.    *)
SameProvenance(x, y) ==
  /\ y.origin = x.origin /\ y.continuation = x.continuation
  /\ y.request = x.request /\ y.attempt = x.attempt /\ y.phase = x.phase
  /\ y.derived = x.derived

LEMMA DerivedLifecycleTyped ==
  ASSUME NEW origin, NEW conts
  PROVE  DerivedLifecycle(origin, conts) \in StateLifecycle
BY DEF DerivedLifecycle, StateLifecycle

(* _refresh_state_lifecycles rewrites the lifecycles and nothing else.     *)
LEMMA RefreshEffect ==
  ASSUME NEW T, NEW sts \in [T -> ReusableState], NEW conts
  PROVE  /\ Refreshed(sts, conts) \in [T -> ReusableState]
         /\ \A s \in T :
              /\ SameProvenance(sts[s], Refreshed(sts, conts)[s])
              /\ Refreshed(sts, conts)[s].validity = sts[s].validity
              /\ Refreshed(sts, conts)[s].lifecycle
                   = DerivedLifecycle(sts[s].continuation, conts)
<1>1. /\ DOMAIN sts = T
      /\ DOMAIN Refreshed(sts, conts) = T
      /\ Refreshed(sts, conts) = [s \in T |-> Refreshed(sts, conts)[s]]
  BY DEF Refreshed
<1>2. ASSUME NEW s \in T
      PROVE  Refreshed(sts, conts)[s]
               = [sts[s] EXCEPT !.lifecycle = DerivedLifecycle(sts[s].continuation, conts)]
  BY DEF Refreshed
<1>3. ASSUME NEW s \in T
      PROVE  /\ Refreshed(sts, conts)[s] \in ReusableState
             /\ SameProvenance(sts[s], Refreshed(sts, conts)[s])
             /\ Refreshed(sts, conts)[s].validity = sts[s].validity
             /\ Refreshed(sts, conts)[s].lifecycle
                  = DerivedLifecycle(sts[s].continuation, conts)
  <2>1. sts[s] \in ReusableState
    OBVIOUS
  <2>2. DerivedLifecycle(sts[s].continuation, conts) \in StateLifecycle
    BY DerivedLifecycleTyped
  <2> QED
    BY <1>2, <2>1, <2>2 DEF ReusableState, SameProvenance
<1> QED
  BY <1>1, <1>3

(* What the operations on the graph do: the fencing of attempts, the       *)
(* phases and the replicas are left alone, no program, session or          *)
(* continuation is lost, and every continuation keeps its place.           *)
ContinuationsKept ==
  \A c \in DOMAIN continuations :
    /\ c \in DOMAIN continuations'
    /\ continuations'[c].session = continuations[c].session
    /\ continuations'[c].parents = continuations[c].parents
SessionsKept ==
  /\ DOMAIN programs \subseteq DOMAIN programs'
  /\ \A s \in DOMAIN sessions : s \in DOMAIN sessions' /\ sessions'[s] = sessions[s]

(* A continuation that was not there before hangs off old ones.            *)
NewContinuationsResolve ==
  \A c \in DOMAIN continuations' \ DOMAIN continuations :
    /\ continuations'[c].session \in DOMAIN sessions
    /\ ParentsInSession(continuations'[c].parents, continuations'[c].session)

GraphTyped ==
  /\ DOMAIN programs \subseteq ProgramIds
  /\ programs \in [DOMAIN programs -> ProgramStatus]
  /\ DOMAIN sessions \subseteq SessionIds
  /\ sessions \in [DOMAIN sessions -> ProgramIds]
  /\ DOMAIN continuations \subseteq ContinuationIds
  /\ continuations \in [DOMAIN continuations -> Continuation]

LEMMA GraphStepEffect ==
  ASSUME GraphTyped, GraphResolves, callers \in Callers, GraphStep
  PROVE  /\ UNCHANGED <<vars, phases, replicas>>
         /\ SessionsKept /\ ContinuationsKept /\ NewContinuationsResolve
         /\ \A s \in DOMAIN sessions' \ DOMAIN sessions : sessions'[s] \in DOMAIN programs
         /\ GraphTyped'
         /\ \/ UNCHANGED <<continuations, states>>
            \/ states' = Refreshed(states, continuations')
<1> USE DEF GraphTyped, SessionsKept, ContinuationsKept, NewContinuationsResolve
<1> DEFINE Goal ==
         /\ UNCHANGED <<vars, phases, replicas>>
         /\ SessionsKept /\ ContinuationsKept /\ NewContinuationsResolve
         /\ \A s \in DOMAIN sessions' \ DOMAIN sessions : sessions'[s] \in DOMAIN programs
         /\ GraphTyped'
         /\ \/ UNCHANGED <<continuations, states>>
            \/ states' = Refreshed(states, continuations')
<1>1. ASSUME NEW p \in ProgramIds, CreateProgram(p) PROVE Goal
  BY <1>1 DEF CreateProgram, Put, ProgramStatus
<1>2. ASSUME NEW p \in ProgramIds, NEW status \in callers.programStatus,
             SetProgramStatus(p, status)
      PROVE  Goal
  BY <1>2, ProfileTyped DEF SetProgramStatus
<1>3. ASSUME NEW s \in SessionIds, NEW p \in ProgramIds, CreateSession(s, p) PROVE Goal
  BY <1>3 DEF CreateSession, Put, Free, Unique, LineageIds
<1>4. ASSUME NEW c \in ContinuationIds, NEW s \in SessionIds,
             NEW parents \in SUBSET ContinuationIds, NEW lifecycle \in callers.lifecycles,
             CreateContinuation(c, s, parents, lifecycle)
      PROVE  Goal
  BY <1>4, ProfileTyped DEF CreateContinuation, Put, Continuation, Free, Unique, LineageIds
<1>5. ASSUME NEW waiting \in ContinuationIds, NEW child \in ContinuationIds,
             ResumeAfterWait(waiting, child)
      PROVE  Goal
  <2> DEFINE waited == [continuations EXCEPT ![waiting].lifecycle = "TERMINAL"]
             next == [session |-> continuations[waiting].session, parents |-> {waiting},
                      lifecycle |-> "ACTIVE"]
  <2>1. waiting \in DOMAIN continuations /\ child \notin DOMAIN continuations
    BY <1>5 DEF ResumeAfterWait, Free, Unique, LineageIds
  <2>2. waited \in [DOMAIN continuations -> Continuation] /\ next \in Continuation
    BY <2>1 DEF Continuation, ContinuationLifecycle
  <2>3. \A c \in DOMAIN continuations : /\ waited[c].session = continuations[c].session
                                       /\ waited[c].parents = continuations[c].parents
    BY <2>1 DEF Continuation
  <2>4. continuations' = Put(waited, child, next)
    BY <1>5 DEF ResumeAfterWait
  <2>5. DOMAIN waited = DOMAIN continuations
    OBVIOUS
  <2>6. next.session \in DOMAIN sessions /\ ParentsInSession(next.parents, next.session)
    BY <2>1 DEF GraphResolves, ParentsInSession
  <2> HIDE DEF waited, next
  <2>7. /\ DOMAIN continuations' = DOMAIN continuations \cup {child}
        /\ continuations'[child] = next
        /\ \A c \in DOMAIN continuations : continuations'[c] = waited[c]
    BY <2>1, <2>4, <2>5 DEF Put
  <2>8. continuations' = [c \in DOMAIN continuations' |-> continuations'[c]]
    BY <2>4 DEF Put
  <2>9. continuations' \in [DOMAIN continuations' -> Continuation]
    BY <2>2, <2>7, <2>8
  <2>10. ContinuationsKept /\ NewContinuationsResolve
    BY <2>3, <2>6, <2>7
  <2> QED
    BY <1>5, <2>7, <2>9, <2>10 DEF ResumeAfterWait
<1>6. ASSUME NEW c \in ContinuationIds, NEW lifecycle \in callers.lifecycles,
             SetContinuationLifecycle(c, lifecycle)
      PROVE  Goal
  BY <1>6, ProfileTyped DEF SetContinuationLifecycle, Continuation
<1> QED
  BY <1>1, <1>2, <1>3, <1>4, <1>5, <1>6 DEF GraphStep

---------------------------------------------------------------------------
(* What _resolve_origin accepts resolves: the attempt a State is charged   *)
(* to belongs to the request, and the request to the continuation.         *)
LEMMA AcceptedOriginResolves ==
  ASSUME CoreInv, NEW o \in ResolvedOrigins
  PROVE  /\ OriginResolves(o)
         /\ o.origin \in {"continuation", "request", "attempt", "phase"}
         /\ o.continuation \in ContinuationIds /\ o.request \in RequestIds \cup {NULL}
         /\ o.attempt \in AttemptIds \cup {NULL} /\ o.phase \in PhaseIds \cup {NULL}
<1> DEFINE Goal(x) ==
         /\ OriginResolves(x)
         /\ x.origin \in {"continuation", "request", "attempt", "phase"}
         /\ x.continuation \in ContinuationIds /\ x.request \in RequestIds \cup {NULL}
         /\ x.attempt \in AttemptIds \cup {NULL} /\ x.phase \in PhaseIds \cup {NULL}
<1>0. /\ DOMAIN continuations \subseteq ContinuationIds /\ DOMAIN requests \subseteq RequestIds
      /\ DOMAIN attempts \subseteq AttemptIds /\ DOMAIN phases \subseteq PhaseIds
      /\ NULL \notin AttemptIds /\ NULL \notin RequestIds /\ NULL \notin PhaseIds
  BY IdAssumption, LineageAssumption DEF CoreInv, LineageTypeOK, TypeOK
<1>1. ASSUME NEW c \in DOMAIN continuations PROVE Goal(ContinuationOrigin(c))
  BY <1>0, <1>1 DEF ContinuationOrigin, OriginResolves
<1>2. ASSUME NEW r \in DOMAIN requests, requests[r].status = "COMPLETED",
             requests[r].committed # NULL
      PROVE  Goal(RequestOrigin(r))
  <2>1. /\ requests[r].committed \in DOMAIN attempts
        /\ attempts[requests[r].committed].request = r
        /\ requests[r].continuation \in DOMAIN continuations
    BY <1>2 DEF CoreInv, IInv, StoreWellFormed, AuthorityMatchesPointers, GraphResolves
  <2> QED
    BY <1>0, <1>2, <2>1 DEF RequestOrigin, OriginResolves, CommittedProducer
<1>3. ASSUME NEW a \in DOMAIN attempts PROVE Goal(AttemptOrigin(a))
  <2>1. /\ attempts[a].request \in DOMAIN requests
        /\ requests[attempts[a].request].continuation \in DOMAIN continuations
    BY DEF CoreInv, IInv, StoreWellFormed, GraphResolves
  <2> QED
    BY <1>0, <2>1 DEF AttemptOrigin, OriginResolves
<1>4. ASSUME NEW p \in DOMAIN phases, phases[p].status = "COMPLETED" PROVE Goal(PhaseOrigin(p))
  <2> DEFINE a == phases[p].attempt
  <2>1. /\ a \in DOMAIN attempts /\ attempts[a].request \in DOMAIN requests
        /\ requests[attempts[a].request].continuation \in DOMAIN continuations
    BY DEF CoreInv, IInv, StoreWellFormed, GraphResolves
  <2>2. PhaseOrigin(p) = [origin |-> "phase",
                          continuation |-> requests[attempts[a].request].continuation,
                          request |-> attempts[a].request, attempt |-> a, phase |-> p]
    <3> DEFINE x == AttemptOrigin(a)
               y == PhaseOrigin(p)
    <3>1. x = [origin |-> "attempt",
               continuation |-> requests[attempts[a].request].continuation,
               request |-> attempts[a].request, attempt |-> a, phase |-> NULL]
      BY DEF AttemptOrigin
    <3>2. y = [x EXCEPT !.origin = "phase", !.phase = p]
      BY DEF PhaseOrigin
    <3> HIDE DEF a, x, y
    <3>3. y = [origin |-> "phase",
               continuation |-> requests[attempts[a].request].continuation,
               request |-> attempts[a].request, attempt |-> a, phase |-> p]
      BY <3>1, <3>2
    <3> QED
      BY <3>3 DEF y
  <2> HIDE DEF a
  <2>3. phases[p].attempt = a
    BY DEF a
  <2> QED
    BY <1>0, <1>4, <2>1, <2>2, <2>3 DEF OriginResolves
<1> HIDE DEF Goal
<1>5. Goal(o)
  BY <1>1, <1>2, <1>3, <1>4 DEF ResolvedOrigins
<1> QED
  BY <1>5 DEF Goal

(* max([p.ordinal ...], default=0) + 1 is n + 1 when they are 1..n.        *)
LEMMA NextOrdinalIsNat ==
  ASSUME CoreInv, NEW a \in DOMAIN attempts
  PROVE  \E n \in Nat : Ordinals(a) = 1..n /\ NextOrdinal(a) = n + 1
<1>1. PICK n \in {0} \cup Ordinals(a) : Ordinals(a) = 1..n
  BY DEF CoreInv, PhasesNumbered
<1>2. n \in Nat
  BY DEF Ordinals, PhasesOf, CoreInv, LineageTypeOK, Phase
<1>3. {0} \cup Ordinals(a) = 0..n
  BY <1>1, <1>2
<1>4. n \in 0..n /\ \A m \in 0..n : m <= n
  BY <1>2
<1>5. \A k \in 0..n : (\A m \in 0..n : m <= k) => k = n
  BY <1>2
<1>6. Highest(0..n) = n
  BY <1>4, <1>5 DEF Highest
<1>7. Highest({0} \cup Ordinals(a)) = n
  BY <1>3, <1>6
<1>8. NextOrdinal(a) = 1 + n
  BY <1>7 DEF NextOrdinal
<1> QED
  BY <1>1, <1>2, <1>8

---------------------------------------------------------------------------
(* No phase, State or replica is lost or moved; INVALID and COMPLETED are  *)
(* final.                                                                  *)
PhasesKept ==
  \A p \in DOMAIN phases :
    /\ p \in DOMAIN phases'
    /\ phases'[p].attempt = phases[p].attempt
    /\ phases'[p].ordinal = phases[p].ordinal
    /\ phases[p].status = "COMPLETED" => phases'[p].status = "COMPLETED"
StatesKept ==
  \A s \in DOMAIN states :
    /\ s \in DOMAIN states'
    /\ SameProvenance(states[s], states'[s])
    /\ states[s].validity = "INVALID" => states'[s].validity = "INVALID"
ReplicasKept ==
  \A i \in DOMAIN replicas : i \in DOMAIN replicas' /\ replicas'[i].state = replicas[i].state

PhasesTyped == DOMAIN phases \subseteq PhaseIds /\ phases \in [DOMAIN phases -> Phase]
StatesTyped == DOMAIN states \subseteq StateIds /\ states \in [DOMAIN states -> ReusableState]
ReplicasTyped ==
  DOMAIN replicas \subseteq ReplicaIds /\ replicas \in [DOMAIN replicas -> StateReplica]

(* A State that was not there before comes from an accepted origin and     *)
(* rests on old States it may depend on.                                   *)
NewStatesResolve ==
  \A s \in DOMAIN states' \ DOMAIN states :
    /\ OriginResolves(states'[s])
    /\ states'[s].derived \subseteq DOMAIN states
    /\ \A d \in states'[s].derived : MayDependOn(d, states'[s])

LEMMA CreatePhaseEffect ==
  ASSUME CoreInv, NEW p \in PhaseIds, NEW a \in AttemptIds, CreatePhase(p, a)
  PROVE  /\ UNCHANGED <<programs, sessions, continuations, states, replicas, vars>>
         /\ PhasesKept /\ PhasesTyped' /\ PhasesNumbered'
         /\ \A q \in DOMAIN phases' : phases'[q].attempt \in DOMAIN attempts
<1>1. a \in DOMAIN attempts /\ p \notin DOMAIN phases
  BY DEF CreatePhase, Free, Unique, LineageIds
<1>2. PICK n \in Nat : Ordinals(a) = 1..n /\ NextOrdinal(a) = n + 1
  BY <1>1, NextOrdinalIsNat
<1>3. /\ UNCHANGED <<programs, sessions, continuations, states, replicas, vars>>
      /\ phases' = Put(phases, p, [attempt |-> a, ordinal |-> n + 1, status |-> "CREATED"])
  BY <1>2 DEF CreatePhase
<1>4. /\ DOMAIN phases' = DOMAIN phases \cup {p}
      /\ phases'[p].attempt = a /\ phases'[p].ordinal = n + 1
      /\ \A q \in DOMAIN phases : q # p /\ phases'[q] = phases[q]
  BY <1>1, <1>3 DEF Put
<1>5. PhasesTyped'
  BY <1>1, <1>3
     DEF PhasesTyped, Put, Phase, PhaseStatus, CoreInv, LineageTypeOK, TypeOK
<1>6. \A q \in DOMAIN phases' : phases'[q].attempt \in DOMAIN attempts
  BY <1>1, <1>4 DEF CoreInv, GraphResolves
<1>7. ASSUME NEW b \in DOMAIN attempts, b # a
      PROVE  PhasesOf(b)' = PhasesOf(b) /\ Ordinals(b)' = Ordinals(b)
  <2>1. PhasesOf(b)' = PhasesOf(b)
    BY <1>4, <1>7 DEF PhasesOf
  <2> QED
    BY <1>4, <2>1 DEF Ordinals, PhasesOf
<1>8. PhasesOf(a)' = PhasesOf(a) \cup {p}
  BY <1>4 DEF PhasesOf
<1>9. Ordinals(a)' = Ordinals(a) \cup {n + 1}
  BY <1>4, <1>8 DEF Ordinals, PhasesOf
<1>10. \A q \in PhasesOf(a) : q \in DOMAIN phases /\ phases[q].ordinal \in 1..n
  BY <1>2 DEF Ordinals, PhasesOf
<1>11. Ordinals(a)' = 1..(n + 1)
  BY <1>2, <1>9
<1>12. /\ \A q, x \in PhasesOf(a)' : phases'[q].ordinal = phases'[x].ordinal => q = x
       /\ \E m \in {0} \cup Ordinals(a)' : Ordinals(a)' = 1..m
  <2>1. \A q, x \in PhasesOf(a)' : phases'[q].ordinal = phases'[x].ordinal => q = x
    BY <1>1, <1>4, <1>8, <1>10 DEF CoreInv, PhasesNumbered
  <2> QED
    BY <1>11, <2>1
<1>13. ASSUME NEW b \in DOMAIN attempts, b # a
       PROVE  /\ \A q, x \in PhasesOf(b)' : phases'[q].ordinal = phases'[x].ordinal => q = x
              /\ \E m \in {0} \cup Ordinals(b)' : Ordinals(b)' = 1..m
  <2>1. \A q \in PhasesOf(b) : q \in DOMAIN phases
    BY DEF PhasesOf
  <2> QED
    BY <1>4, <1>7, <1>13, <2>1 DEF CoreInv, PhasesNumbered
<1>14. PhasesNumbered'
  BY <1>3, <1>12, <1>13 DEF PhasesNumbered, vars
<1> QED
  BY <1>3, <1>4, <1>5, <1>6, <1>14 DEF PhasesKept

(* A step that keeps the attempt and the ordinal of every phase, and adds  *)
(* none, keeps the numbering.                                              *)
LEMMA NumberingKept ==
  ASSUME PhasesNumbered, DOMAIN attempts' = DOMAIN attempts, DOMAIN phases' = DOMAIN phases,
         \A p \in DOMAIN phases : /\ phases'[p].attempt = phases[p].attempt
                                 /\ phases'[p].ordinal = phases[p].ordinal
  PROVE  PhasesNumbered'
<1>1. \A a : PhasesOf(a)' = PhasesOf(a)
  BY DEF PhasesOf
<1>2. \A a : \A p \in PhasesOf(a) : p \in DOMAIN phases
  BY DEF PhasesOf
<1>3. \A a : Ordinals(a)' = Ordinals(a)
  BY <1>1, <1>2 DEF Ordinals
<1> QED
  BY <1>1, <1>2, <1>3 DEF PhasesNumbered

(* Where a State was made, and what it may depend on, is told by the       *)
(* fields that never change.                                               *)
LEMMA ProvenanceDecides ==
  ASSUME NEW x, NEW y, SameProvenance(x, y)
  PROVE  /\ OriginResolves(x) => OriginResolves(y)
         /\ \A d : MayDependOn(d, x) => MayDependOn(d, y)
BY DEF SameProvenance, OriginResolves, CommittedProducer, MayDependOn

(* create_state enters a State of the accepted origin o and refreshes all. *)
LEMMA CreateStateEffect ==
  ASSUME CoreInv, NEW s \in StateIds, NEW o \in ResolvedOrigins,
         NEW derived \in SUBSET StateIds, CreateState(s, o, derived)
  PROVE  /\ UNCHANGED <<programs, sessions, continuations, phases, replicas, vars>>
         /\ StatesKept /\ StatesTyped' /\ NewStatesResolve /\ LifecycleIsFresh'
<1> DEFINE new == [origin |-> o.origin, continuation |-> o.continuation,
                   request |-> o.request, attempt |-> o.attempt, phase |-> o.phase,
                   lifecycle |-> "TERMINAL", validity |-> "VALID", derived |-> derived]
           added == Put(states, s, new)
           T == DOMAIN states \cup {s}
<1>1. /\ s \notin DOMAIN states /\ derived \subseteq DOMAIN states
      /\ \A d \in derived : MayDependOn(d, o)
      /\ states' = Refreshed(added, continuations)
      /\ UNCHANGED <<programs, sessions, continuations, phases, replicas, vars>>
  BY DEF CreateState, Free, Unique, LineageIds
<1>2. StatesTyped
  BY DEF StatesTyped, CoreInv, LineageTypeOK
<1>3. OriginResolves(o) /\ new \in ReusableState
  BY <1>1, AcceptedOriginResolves DEF ReusableState, StateLifecycle, StateValidity
<1>4. /\ new.derived = derived
      /\ OriginResolves(new)
      /\ \A d \in derived : MayDependOn(d, new)
  BY <1>1, <1>3 DEF OriginResolves, CommittedProducer, MayDependOn
<1> HIDE DEF new
<1>5. /\ added \in [T -> ReusableState] /\ added[s] = new
      /\ \A x \in DOMAIN states : x # s /\ added[x] = states[x]
  BY <1>1, <1>2, <1>3 DEF Put, StatesTyped
<1> HIDE DEF added
<1>6. /\ states' \in [T -> ReusableState]
      /\ \A x \in T : /\ SameProvenance(added[x], states'[x])
                      /\ states'[x].validity = added[x].validity
                      /\ states'[x].lifecycle
                           = DerivedLifecycle(added[x].continuation, continuations)
  BY <1>1, <1>5, RefreshEffect
<1>7. DOMAIN states' = T
  BY <1>6
<1>8. StatesTyped'
  BY <1>2, <1>6, <1>7 DEF StatesTyped
<1>9. StatesKept
  BY <1>5, <1>6, <1>7 DEF StatesKept
<1>10. /\ OriginResolves(states'[s]) /\ states'[s].derived = derived
       /\ \A d \in derived : MayDependOn(d, states'[s])
  <2>1. SameProvenance(new, states'[s])
    BY <1>5, <1>6
  <2> QED
    BY <1>4, <2>1, ProvenanceDecides DEF SameProvenance
<1>11. NewStatesResolve
  BY <1>1, <1>7, <1>10 DEF NewStatesResolve
<1>12. LifecycleIsFresh'
  <2>1. \A x \in T : states'[x].lifecycle
                       = DerivedLifecycle(states'[x].continuation, continuations)
    BY <1>6 DEF SameProvenance
  <2> QED
    BY <1>1, <1>7, <2>1 DEF LifecycleIsFresh
<1> QED
  BY <1>1, <1>8, <1>9, <1>11, <1>12

(* What the operations on phases, States and replicas do.                  *)
LEMMA StateStepEffect ==
  ASSUME CoreInv, StateStep
  PROVE  /\ UNCHANGED <<programs, sessions, continuations, vars>>
         /\ PhasesKept /\ StatesKept /\ ReplicasKept
         /\ PhasesTyped' /\ StatesTyped' /\ ReplicasTyped'
         /\ PhasesNumbered' /\ NewStatesResolve /\ LifecycleIsFresh'
         /\ \A p \in DOMAIN phases' : phases'[p].attempt \in DOMAIN attempts
         /\ \A i \in DOMAIN replicas' : replicas'[i].state \in DOMAIN states
<1> DEFINE Goal ==
         /\ UNCHANGED <<programs, sessions, continuations, vars>>
         /\ PhasesKept /\ StatesKept /\ ReplicasKept
         /\ PhasesTyped' /\ StatesTyped' /\ ReplicasTyped'
         /\ PhasesNumbered' /\ NewStatesResolve /\ LifecycleIsFresh'
         /\ \A p \in DOMAIN phases' : phases'[p].attempt \in DOMAIN attempts
         /\ \A i \in DOMAIN replicas' : replicas'[i].state \in DOMAIN states
<1>1. /\ callers \in Callers /\ PhasesTyped /\ StatesTyped /\ ReplicasTyped
      /\ PhasesNumbered /\ LifecycleIsFresh
      /\ \A p \in DOMAIN phases : phases[p].attempt \in DOMAIN attempts
      /\ \A i \in DOMAIN replicas : replicas[i].state \in DOMAIN states
  BY DEF CoreInv, LineageTypeOK, PhasesTyped, StatesTyped, ReplicasTyped, GraphResolves
<1>2. UNCHANGED <<vars, phases>> => PhasesKept /\ PhasesTyped' /\ PhasesNumbered'
  BY <1>1, NumberingKept DEF PhasesKept, PhasesTyped, vars
<1>3. UNCHANGED <<continuations, states>> =>
        StatesKept /\ StatesTyped' /\ NewStatesResolve /\ LifecycleIsFresh'
  BY <1>1
     DEF StatesKept, StatesTyped, NewStatesResolve, LifecycleIsFresh, SameProvenance
<1>4. UNCHANGED replicas => ReplicasKept /\ ReplicasTyped'
  BY <1>1 DEF ReplicasKept, ReplicasTyped
<1>5. ASSUME NEW p \in PhaseIds, NEW a \in AttemptIds, CreatePhase(p, a) PROVE Goal
  BY <1>1, <1>3, <1>4, <1>5, CreatePhaseEffect
<1>6. ASSUME NEW p \in PhaseIds, NEW status \in callers.phaseStatus, SetPhaseStatus(p, status)
      PROVE  Goal
  <2>1. /\ p \in DOMAIN phases
        /\ phases[p].status \in TerminalPhase => status = phases[p].status
        /\ phases' = [phases EXCEPT ![p].status = status]
        /\ UNCHANGED <<programs, sessions, continuations, states, replicas, vars>>
    BY <1>6 DEF SetPhaseStatus
  <2>2. status \in PhaseStatus
    BY <1>1, <1>6, ProfileTyped
  <2>3. PhasesKept /\ PhasesTyped' /\ DOMAIN phases' = DOMAIN phases
    BY <1>1, <2>1, <2>2 DEF PhasesKept, PhasesTyped, Phase, TerminalPhase
  <2>4. PhasesNumbered'
    BY <1>1, <2>1, <2>3, NumberingKept DEF PhasesKept, vars
  <2> QED
    BY <1>1, <1>3, <1>4, <2>1, <2>3, <2>4 DEF PhasesKept, vars
<1>7. ASSUME NEW s \in StateIds, NEW o \in ResolvedOrigins, NEW derived \in SUBSET StateIds,
             CreateState(s, o, derived)
      PROVE  Goal
  BY <1>1, <1>2, <1>4, <1>7, CreateStateEffect
<1>8. ASSUME NEW s \in StateIds, NEW validity \in callers.validity,
             SetStateValidity(s, validity)
      PROVE  Goal
  <2>1. /\ s \in DOMAIN states
        /\ states[s].validity = "INVALID" => validity = "INVALID"
        /\ states' = [states EXCEPT ![s].validity = validity]
        /\ UNCHANGED <<programs, sessions, continuations, phases, replicas, vars>>
    BY <1>8 DEF SetStateValidity, MayBeDeclared
  <2>2. validity \in StateValidity
    BY <1>1, <1>8, ProfileTyped
  <2>3. /\ DOMAIN states' = DOMAIN states /\ StatesTyped' /\ StatesKept
        /\ \A x \in DOMAIN states : states'[x].lifecycle = states[x].lifecycle
    BY <1>1, <2>1, <2>2 DEF StatesTyped, StatesKept, ReusableState, SameProvenance
  <2>4. NewStatesResolve /\ LifecycleIsFresh'
    BY <1>1, <2>1, <2>3 DEF NewStatesResolve, LifecycleIsFresh, StatesKept, SameProvenance
  <2> QED
    BY <1>1, <1>2, <1>4, <2>1, <2>3, <2>4
<1>9. ASSUME NEW i \in ReplicaIds, NEW s \in StateIds, NEW status \in callers.replicaStatus,
             AddReplica(i, s, status)
      PROVE  Goal
  <2>1. /\ i \notin DOMAIN replicas /\ s \in DOMAIN states
        /\ replicas' = Put(replicas, i, [state |-> s, status |-> status])
        /\ UNCHANGED <<programs, sessions, continuations, phases, states, vars>>
    BY <1>9 DEF AddReplica, Free, Unique, LineageIds
  <2>2. status \in ReplicaStatus
    BY <1>1, <1>9, ProfileTyped
  <2>3. /\ ReplicasKept /\ ReplicasTyped'
        /\ \A x \in DOMAIN replicas' : replicas'[x].state \in DOMAIN states
    BY <1>1, <2>1, <2>2 DEF ReplicasKept, ReplicasTyped, StateReplica, Put
  <2> QED
    BY <1>1, <1>2, <1>3, <2>1, <2>3
<1>10. ASSUME NEW i \in ReplicaIds, NEW status \in callers.replicaStatus,
              SetReplicaStatus(i, status)
       PROVE  Goal
  <2>1. /\ i \in DOMAIN replicas
        /\ replicas' = [replicas EXCEPT ![i].status = status]
        /\ UNCHANGED <<programs, sessions, continuations, phases, states, vars>>
    BY <1>10 DEF SetReplicaStatus
  <2>2. status \in ReplicaStatus
    BY <1>1, <1>10, ProfileTyped
  <2>3. /\ ReplicasKept /\ ReplicasTyped'
        /\ \A x \in DOMAIN replicas' : replicas'[x].state \in DOMAIN states
    BY <1>1, <2>1, <2>2 DEF ReplicasKept, ReplicasTyped, StateReplica
  <2> QED
    BY <1>1, <1>2, <1>3, <2>1, <2>3
<1> HIDE DEF Goal
<1>11. Goal
  BY <1>5, <1>6, <1>7, <1>8, <1>9, <1>10 DEF StateStep
<1> QED
  BY <1>11 DEF Goal

---------------------------------------------------------------------------
(* No request is lost or moved to another continuation.                    *)
RequestsKept ==
  \A r \in DOMAIN requests :
    r \in DOMAIN requests' /\ requests'[r].continuation = requests[r].continuation

LEMMA FencingStepKeepsRequests == IInv /\ [Next]_vars => RequestsKept
<1> SUFFICES ASSUME IInv, [Next]_vars PROVE RequestsKept
  OBVIOUS
<1> USE DEF RequestsKept
<1>0. requests \in [DOMAIN requests -> LogicalRequest]
  BY DEF IInv, TypeOK
<1>1. ASSUME NEW r \in RequestIds, NEW c \in ContinuationIds, CreateRequest(r, c, {})
      PROVE  RequestsKept
  BY <1>1 DEF CreateRequest, Put, Unique, FencingIds
<1>2. ASSUME NEW a \in AttemptIds, NEW r \in RequestIds, StartAttempt(a, r, {})
      PROVE  RequestsKept
  <2>1. requests' = [requests EXCEPT ![r].status = "RUNNING", ![r].current = a]
    BY <1>2 DEF StartAttempt, MayStart
  <2> QED
    BY <1>0, <2>1 DEF LogicalRequest
<1>3. ASSUME NEW r \in RequestIds, NEW o \in OutputIds, NEW now \in Times,
             FinalizeRequest(r, o, now)
      PROVE  RequestsKept
  <2>1. requests' = [requests EXCEPT ![r].status = "COMPLETED", ![r].current = NULL,
                                     ![r].committed = outputs[o].attempt, ![r].output = o]
    BY <1>3 DEF FinalizeRequest, MayFinalize
  <2> QED
    BY <1>0, <2>1 DEF LogicalRequest
<1>4. UNCHANGED requests => RequestsKept
  OBVIOUS
<1> QED
  BY <1>1, <1>2, <1>3, <1>4
     DEF Next, AttemptStep, SetAttemptExecution, MayReport, CompleteAttempt, CreateOutput,
         MayCreateOutput, fencingVars, vars

(* A new request is placed on a continuation there is.                     *)
LEMMA RequestStepPlaces ==
  ASSUME RequestStep
  PROVE  \A r \in DOMAIN requests' \ DOMAIN requests :
           requests'[r].continuation \in DOMAIN continuations
<1>1. ASSUME NEW r \in RequestIds, NEW c \in DOMAIN continuations,
             CreateRequest(r, c, LineageIds)
      PROVE  \A q \in DOMAIN requests' \ DOMAIN requests : requests'[q].continuation = c
  BY <1>1 DEF CreateRequest, NewRequest, Put
<1>2. ASSUME NEW a \in AttemptIds, NEW r \in RequestIds, StartAttempt(a, r, LineageIds)
      PROVE  DOMAIN requests' = DOMAIN requests
  BY <1>2 DEF StartAttempt, MayStart
<1>3. ASSUME NEW r \in RequestIds, NEW o \in OutputIds, NEW now \in Times,
             FinalizeRequest(r, o, now)
      PROVE  DOMAIN requests' = DOMAIN requests
  BY <1>3 DEF FinalizeRequest, MayFinalize
<1> QED
  BY <1>1, <1>2, <1>3
     DEF RequestStep, SetAttemptExecution, MayReport, CreateOutput, MayCreateOutput,
         fencingVars

---------------------------------------------------------------------------
(* What no step of the core changes about what is recorded already.        *)
RecordsKept ==
  /\ Final /\ RequestsKept
  /\ SessionsKept /\ ContinuationsKept /\ PhasesKept /\ StatesKept /\ ReplicasKept

(* What a step records refers to what was there before.                    *)
NewRecordsResolve ==
  /\ \A s \in DOMAIN sessions' \ DOMAIN sessions : sessions'[s] \in DOMAIN programs
  /\ NewContinuationsResolve
  /\ \A r \in DOMAIN requests' \ DOMAIN requests :
       requests'[r].continuation \in DOMAIN continuations
  /\ \A p \in DOMAIN phases' : phases'[p].attempt \in DOMAIN attempts
  /\ \A i \in DOMAIN replicas' : replicas'[i].state \in DOMAIN states
  /\ NewStatesResolve

(* Each kind of step keeps its own records and leaves the others alone;    *)
(* the numbering of the phases and the cached lifecycles are settled here. *)
LEMMA CoreStepEffect ==
  ASSUME CoreInv, [CoreNext]_coreVars
  PROVE  /\ RecordsKept /\ NewRecordsResolve
         /\ GraphTyped' /\ PhasesTyped' /\ StatesTyped' /\ ReplicasTyped' /\ callers' \in Callers
         /\ PhasesNumbered' /\ LifecycleIsFresh'
<1> DEFINE Goal ==
         /\ SessionsKept /\ ContinuationsKept /\ PhasesKept /\ StatesKept /\ ReplicasKept
         /\ NewRecordsResolve
         /\ GraphTyped' /\ PhasesTyped' /\ StatesTyped' /\ ReplicasTyped'
         /\ PhasesNumbered' /\ LifecycleIsFresh'
<1>1. /\ GraphTyped /\ PhasesTyped /\ StatesTyped /\ ReplicasTyped /\ callers \in Callers
      /\ GraphResolves /\ IInv
  BY DEF CoreInv, LineageTypeOK, GraphTyped, PhasesTyped, StatesTyped, ReplicasTyped
<1>2. Final /\ RequestsKept
  BY <1>1, CoreStepIsFencingStep, FinalStep, FencingStepKeepsRequests DEF GraphTyped
<1>3. UNCHANGED graphVars => SessionsKept /\ ContinuationsKept /\ GraphTyped'
                             /\ NewContinuationsResolve /\ DOMAIN sessions' = DOMAIN sessions
  BY <1>1
     DEF graphVars, SessionsKept, ContinuationsKept, GraphTyped, NewContinuationsResolve
<1>4. UNCHANGED phases =>
        /\ PhasesKept /\ PhasesTyped'
        /\ \A p \in DOMAIN phases' : phases'[p].attempt \in DOMAIN attempts
  BY <1>1 DEF PhasesKept, PhasesTyped, GraphResolves
<1>5. UNCHANGED <<continuations, states>> =>
        StatesKept /\ StatesTyped' /\ NewStatesResolve /\ LifecycleIsFresh'
  BY <1>1
     DEF StatesKept, StatesTyped, NewStatesResolve, LifecycleIsFresh, SameProvenance, CoreInv
<1>6. UNCHANGED replicas =>
        /\ ReplicasKept /\ ReplicasTyped'
        /\ StatesKept => \A i \in DOMAIN replicas' : replicas'[i].state \in DOMAIN states
  BY <1>1 DEF ReplicasKept, ReplicasTyped, GraphResolves
<1>7. ASSUME RequestStep PROVE Goal
  <2>1. UNCHANGED lineageVars
    BY <1>7 DEF RequestStep
  <2>2. PhasesNumbered'
    <3>1. \A a : PhasesOf(a)' = PhasesOf(a) /\ Ordinals(a)' = Ordinals(a)
      BY <2>1 DEF lineageVars, PhasesOf, Ordinals
    <3>2. ASSUME NEW a \in DOMAIN attempts', a \notin DOMAIN attempts
          PROVE  PhasesOf(a)' = {} /\ Ordinals(a)' = 1..0
      BY <1>1, <2>1, <3>2 DEF lineageVars, PhasesOf, Ordinals, GraphResolves
    <3>3. ASSUME NEW a \in DOMAIN attempts', a \notin DOMAIN attempts
          PROVE  /\ \A p, q \in PhasesOf(a)' : phases'[p].ordinal = phases'[q].ordinal => p = q
                 /\ \E n \in {0} \cup Ordinals(a)' : Ordinals(a)' = 1..n
      BY <3>2, <3>3
    <3>4. ASSUME NEW a \in DOMAIN attempts
          PROVE  /\ \A p, q \in PhasesOf(a)' : phases'[p].ordinal = phases'[q].ordinal => p = q
                 /\ \E n \in {0} \cup Ordinals(a)' : Ordinals(a)' = 1..n
      BY <2>1, <3>1 DEF lineageVars, CoreInv, PhasesNumbered
    <3> QED
      BY <3>3, <3>4 DEF PhasesNumbered
  <2>3. \A r \in DOMAIN requests' \ DOMAIN requests :
          requests'[r].continuation \in DOMAIN continuations
    BY <1>7, RequestStepPlaces
  <2> QED
    BY <2>1, <2>2, <2>3, <1>3, <1>4, <1>5, <1>6 DEF lineageVars, graphVars, NewRecordsResolve
<1>8. ASSUME GraphStep PROVE Goal
  <2>1. /\ UNCHANGED <<vars, phases, replicas>>
        /\ SessionsKept /\ ContinuationsKept /\ NewContinuationsResolve
        /\ \A s \in DOMAIN sessions' \ DOMAIN sessions : sessions'[s] \in DOMAIN programs
        /\ GraphTyped'
        /\ \/ UNCHANGED <<continuations, states>>
           \/ states' = Refreshed(states, continuations')
    BY <1>1, <1>8, GraphStepEffect
  <2>2. states' = Refreshed(states, continuations') =>
          StatesKept /\ StatesTyped' /\ NewStatesResolve /\ LifecycleIsFresh'
    <3> SUFFICES ASSUME states' = Refreshed(states, continuations')
                 PROVE  StatesKept /\ StatesTyped' /\ NewStatesResolve /\ LifecycleIsFresh'
      OBVIOUS
    <3>1. /\ states' \in [DOMAIN states -> ReusableState]
          /\ \A s \in DOMAIN states :
               /\ SameProvenance(states[s], states'[s])
               /\ states'[s].validity = states[s].validity
               /\ states'[s].lifecycle = DerivedLifecycle(states[s].continuation, continuations')
      BY <1>1, RefreshEffect DEF StatesTyped
    <3>2. DOMAIN states' = DOMAIN states
      BY <3>1
    <3>3. LifecycleIsFresh'
      BY <3>1, <3>2 DEF LifecycleIsFresh, SameProvenance
    <3> QED
      BY <1>1, <3>1, <3>2, <3>3 DEF StatesKept, StatesTyped, NewStatesResolve
  <2>3. PhasesNumbered'
    BY <2>1, NumberingKept DEF vars, CoreInv
  <2>4. StatesKept /\ StatesTyped' /\ NewStatesResolve /\ LifecycleIsFresh'
    BY <2>1, <2>2, <1>5
  <2> QED
    BY <2>1, <2>3, <2>4, <1>4, <1>6 DEF NewRecordsResolve, vars
<1>9. ASSUME StateStep PROVE Goal
  <2>1. /\ UNCHANGED <<programs, sessions, continuations, vars>>
        /\ PhasesKept /\ StatesKept /\ ReplicasKept
        /\ PhasesTyped' /\ StatesTyped' /\ ReplicasTyped'
        /\ PhasesNumbered' /\ NewStatesResolve /\ LifecycleIsFresh'
        /\ \A p \in DOMAIN phases' : phases'[p].attempt \in DOMAIN attempts
        /\ \A i \in DOMAIN replicas' : replicas'[i].state \in DOMAIN states
    BY <1>9, StateStepEffect
  <2> QED
    BY <2>1, <1>3 DEF graphVars, NewRecordsResolve, vars
<1>10. ASSUME UNCHANGED coreVars PROVE Goal
  <2>1. UNCHANGED <<lineageVars, vars>>
    BY <1>10 DEF coreVars, vars
  <2>2. PhasesNumbered'
    BY <2>1, NumberingKept DEF vars, lineageVars, CoreInv
  <2> QED
    BY <2>1, <2>2, <1>3, <1>4, <1>5, <1>6 DEF lineageVars, graphVars, NewRecordsResolve, vars
<1>11. callers' \in Callers
  BY <1>1 DEF CoreNext, coreVars
<1> HIDE DEF Goal
<1>12. Goal
  BY <1>7, <1>8, <1>9, <1>10 DEF CoreNext
<1> QED
  BY <1>2, <1>11, <1>12 DEF Goal, RecordsKept

---------------------------------------------------------------------------
(* References resolve after a step because nothing they name is lost.      *)
LEMMA GraphResolvesStep ==
  ASSUME CoreInv, [CoreNext]_coreVars
  PROVE  GraphResolves'
<1>1. /\ RecordsKept /\ NewRecordsResolve /\ GraphResolves
  BY CoreStepEffect DEF CoreInv
<1>2. \A s \in DOMAIN sessions' : sessions'[s] \in DOMAIN programs'
  BY <1>1 DEF RecordsKept, NewRecordsResolve, GraphResolves, SessionsKept
<1>3. ASSUME NEW c \in DOMAIN continuations'
      PROVE  /\ continuations'[c].session \in DOMAIN sessions
             /\ ParentsInSession(continuations'[c].parents, continuations'[c].session)
  <2>1. CASE c \in DOMAIN continuations
    BY <1>1, <2>1 DEF RecordsKept, GraphResolves, ContinuationsKept
  <2>2. CASE c \notin DOMAIN continuations
    BY <1>1, <1>3, <2>2 DEF NewRecordsResolve, NewContinuationsResolve
  <2> QED
    BY <2>1, <2>2
<1>4. \A c \in DOMAIN continuations' :
        /\ continuations'[c].session \in DOMAIN sessions'
        /\ continuations'[c].parents \subseteq DOMAIN continuations'
        /\ \A p \in continuations'[c].parents :
             continuations'[p].session = continuations'[c].session
  BY <1>1, <1>3 DEF ParentsInSession, RecordsKept, SessionsKept, ContinuationsKept
<1>5. \A r \in DOMAIN requests' : requests'[r].continuation \in DOMAIN continuations'
  BY <1>1
     DEF RecordsKept, NewRecordsResolve, RequestsKept, ContinuationsKept, GraphResolves
<1>6. \A p \in DOMAIN phases' : phases'[p].attempt \in DOMAIN attempts'
  BY <1>1 DEF RecordsKept, NewRecordsResolve, Final
<1>7. \A i \in DOMAIN replicas' : replicas'[i].state \in DOMAIN states'
  BY <1>1 DEF RecordsKept, NewRecordsResolve, StatesKept
<1> QED
  BY <1>2, <1>4, <1>5, <1>6, <1>7 DEF GraphResolves, ParentsInSession

(* The graph only grows, so a node keeps its ancestors.                    *)
LEMMA GraphOnlyGrows ==
  ASSUME CoreInv, [CoreNext]_coreVars
  PROVE  /\ GraphGrows(continuations, continuations')
         /\ ParentsResolve(continuations) /\ ParentsResolve(continuations)'
         /\ \A a : \A d \in DOMAIN continuations :
              IsAncestor(a, d, continuations') = IsAncestor(a, d, continuations)
<1>1. RecordsKept /\ GraphResolves /\ GraphResolves'
  BY CoreStepEffect, GraphResolvesStep DEF CoreInv
<1>2. GraphGrows(continuations, continuations')
  BY <1>1 DEF RecordsKept, ContinuationsKept, GraphGrows
<1>3. ParentsResolve(continuations) /\ ParentsResolve(continuations)'
  BY <1>1 DEF GraphResolves, ParentsInSession, ParentsResolve
<1> QED
  BY <1>2, <1>3, AncestorsKept

(* A new continuation hangs off old ones, which cannot reach it.           *)
LEMMA GraphAcyclicStep ==
  ASSUME CoreInv, [CoreNext]_coreVars
  PROVE  GraphAcyclic'
<1> SUFFICES ASSUME NEW c \in DOMAIN continuations', NEW p \in continuations'[c].parents,
                    IsAncestor(c, p, continuations')
             PROVE  FALSE
  BY DEF GraphAcyclic
<1>1. RecordsKept /\ NewRecordsResolve
  BY CoreStepEffect
<1>2. CASE c \in DOMAIN continuations
  <2>1. p \in continuations[c].parents /\ p \in DOMAIN continuations
    BY <1>1, <1>2 DEF RecordsKept, ContinuationsKept, CoreInv, GraphResolves, ParentsInSession
  <2>2. IsAncestor(c, p, continuations)
    BY <2>1, GraphOnlyGrows
  <2> QED
    BY <1>2, <2>1, <2>2 DEF CoreInv, GraphAcyclic
<1>3. CASE c \notin DOMAIN continuations
  <2>1. p \in DOMAIN continuations
    BY <1>1, <1>3 DEF NewRecordsResolve, NewContinuationsResolve, ParentsInSession
  <2>2. IsAncestor(c, p, continuations)
    BY <2>1, GraphOnlyGrows
  <2>3. ParentsResolve(continuations)
    BY GraphOnlyGrows
  <2> QED
    BY <1>3, <2>1, <2>2, <2>3, AncestorInGraph
<1> QED
  BY <1>2, <1>3

(* The place a State was made in still says the same: commits, completed   *)
(* phases and the request of an attempt are final.                         *)
LEMMA OriginKept ==
  ASSUME CoreInv, RecordsKept, NEW x, OriginResolves(x)
  PROVE  OriginResolves(x)'
<1>1. x.continuation \in DOMAIN continuations'
  BY DEF OriginResolves, RecordsKept, ContinuationsKept
<1>2. x.attempt # NULL => x.attempt \in DOMAIN attempts /\ x.request \in DOMAIN requests
  BY DEF OriginResolves, CoreInv, IInv, StoreWellFormed
<1>3. x.attempt # NULL =>
        /\ x.attempt \in DOMAIN attempts'
        /\ x.request = attempts'[x.attempt].request
        /\ x.continuation = requests'[x.request].continuation
  BY <1>2 DEF OriginResolves, RecordsKept, Final, RequestsKept
<1>4. x.origin = "request" =>
        /\ requests'[x.request].status = "COMPLETED"
        /\ requests'[x.request].committed = x.attempt
  BY <1>2 DEF OriginResolves, CommittedProducer, RecordsKept, Final
<1>5. x.phase # NULL => /\ x.phase \in DOMAIN phases'
                       /\ phases'[x.phase].status = "COMPLETED"
                       /\ phases'[x.phase].attempt = x.attempt
  BY DEF OriginResolves, RecordsKept, PhasesKept
<1> QED
  BY <1>1, <1>3, <1>4, <1>5 DEF OriginResolves, CommittedProducer

LEMMA OriginsResolveStep ==
  ASSUME CoreInv, [CoreNext]_coreVars
  PROVE  OriginsResolve'
<1>1. RecordsKept /\ NewRecordsResolve /\ OriginsResolve
  BY CoreStepEffect DEF CoreInv
<1>2. ASSUME NEW s \in DOMAIN states' PROVE OriginResolves(states'[s])
  <2>1. CASE s \in DOMAIN states
    BY <1>1, <2>1, ProvenanceDecides DEF RecordsKept, StatesKept, OriginsResolve
  <2>2. CASE s \notin DOMAIN states
    BY <1>1, <1>2, <2>2 DEF NewRecordsResolve, NewStatesResolve
  <2> QED
    BY <2>1, <2>2
<1>3. ASSUME NEW x, OriginResolves(x) PROVE OriginResolves(x)'
  BY <1>1, <1>3, OriginKept
<1> QED
  BY <1>2, <1>3 DEF OriginsResolve

(* A dependency that was allowed stays allowed: ancestors and ordinals are *)
(* never changed.                                                          *)
LEMMA DependencyKept ==
  ASSUME CoreInv, [CoreNext]_coreVars, NEW d \in DOMAIN states, NEW x, OriginResolves(x),
         MayDependOn(d, x)
  PROVE  MayDependOn(d, x)'
<1>1. RecordsKept
  BY CoreStepEffect
<1>2. /\ d \in DOMAIN states'
      /\ states'[d].continuation = states[d].continuation
      /\ states'[d].phase = states[d].phase /\ states'[d].attempt = states[d].attempt
  BY <1>1 DEF RecordsKept, StatesKept, SameProvenance
<1>3. OriginResolves(states[d])
  BY DEF CoreInv, OriginsResolve
<1>4. IsAncestor(states'[d].continuation, x.continuation, continuations')
  <2>1. x.continuation \in DOMAIN continuations
    BY DEF OriginResolves
  <2> QED
    BY <1>2, <2>1, GraphOnlyGrows DEF MayDependOn
<1>5. /\ x.phase # NULL => phases'[x.phase].ordinal = phases[x.phase].ordinal
      /\ states[d].phase # NULL =>
           phases'[states[d].phase].ordinal = phases[states[d].phase].ordinal
  BY <1>1, <1>3 DEF OriginResolves, RecordsKept, PhasesKept
<1> QED
  BY <1>2, <1>4, <1>5 DEF MayDependOn

LEMMA DependenciesAllowedStep ==
  ASSUME CoreInv, [CoreNext]_coreVars
  PROVE  DependenciesAllowed'
<1>1. RecordsKept /\ NewRecordsResolve /\ DependenciesAllowed /\ OriginsResolve
  BY CoreStepEffect DEF CoreInv
<1>2. ASSUME NEW s \in DOMAIN states'
      PROVE  /\ states'[s].derived \subseteq DOMAIN states
             /\ OriginResolves(states'[s])
             /\ \A d \in states'[s].derived : MayDependOn(d, states'[s])
  <2>1. CASE s \in DOMAIN states
    BY <1>1, <2>1, ProvenanceDecides
       DEF RecordsKept, StatesKept, DependenciesAllowed, DerivedResolve, OriginsResolve,
           SameProvenance
  <2>2. CASE s \notin DOMAIN states
    BY <1>1, <1>2, <2>2 DEF NewRecordsResolve, NewStatesResolve
  <2> QED
    BY <2>1, <2>2
<1>3. ASSUME NEW d \in DOMAIN states, NEW x, OriginResolves(x), MayDependOn(d, x)
      PROVE  MayDependOn(d, x)'
  BY <1>3, DependencyKept
<1>4. DerivedResolve'
  BY <1>1, <1>2 DEF DerivedResolve, RecordsKept, StatesKept
<1>5. \A s \in DOMAIN states' : \A d \in states'[s].derived : MayDependOn(d, states[s])'
  BY <1>2, <1>3
<1> QED
  BY <1>4, <1>5 DEF DependenciesAllowed

(* A State keeps what it rests on.                                         *)
LEMMA LineageOnlyKept ==
  ASSUME CoreInv, [CoreNext]_coreVars, NEW s \in DOMAIN states
  PROVE  s \in DOMAIN states' /\ Lineage(s)' = Lineage(s)
<1>1. RecordsKept /\ DerivedResolve
  BY CoreStepEffect DEF CoreInv, DependenciesAllowed
<1>2. /\ DOMAIN states \subseteq DOMAIN states'
      /\ \A x \in DOMAIN states : states'[x].derived = states[x].derived
  BY <1>1 DEF RecordsKept, StatesKept, SameProvenance
<1> QED
  BY <1>1, <1>2, LineageKept

LEMMA LineageRecorded ==
  ASSUME NEW s, NEW d \in Lineage(s)
  PROVE  d \in DOMAIN states
BY DEF Lineage

LEMMA DerivationAcyclicStep ==
  ASSUME CoreInv, [CoreNext]_coreVars
  PROVE  DerivationAcyclic'
<1>1. RecordsKept /\ NewRecordsResolve /\ DependenciesAllowed
  BY CoreStepEffect DEF CoreInv
<1>2. ASSUME NEW s \in DOMAIN states', NEW d \in states'[s].derived
      PROVE  s \notin Lineage(d)'
  <2>1. CASE s \in DOMAIN states
    <3>1. d \in states[s].derived /\ d \in DOMAIN states
      BY <1>1, <1>2, <2>1
         DEF RecordsKept, StatesKept, SameProvenance, DependenciesAllowed, DerivedResolve
    <3> QED
      BY <2>1, <3>1, LineageOnlyKept DEF CoreInv, DerivationAcyclic
  <2>2. CASE s \notin DOMAIN states
    <3>1. d \in DOMAIN states
      BY <1>1, <1>2, <2>2 DEF NewRecordsResolve, NewStatesResolve
    <3>2. Lineage(d)' = Lineage(d)
      BY <3>1, LineageOnlyKept
    <3> QED
      BY <2>2, <3>2, LineageRecorded
  <2> QED
    BY <2>1, <2>2
<1> QED
  BY <1>2 DEF DerivationAcyclic

---------------------------------------------------------------------------
(* CoreInv holds initially and every step keeps it.                        *)
LEMMA CoreInitially == CoreInit => CoreInv
<1> SUFFICES ASSUME CoreInit PROVE CoreInv
  OBVIOUS
<1>1. IInv /\ TypeOK
  BY Initially DEF CoreInit, IInv
<1>2. /\ programs = << >> /\ sessions = << >> /\ continuations = << >>
      /\ phases = << >> /\ states = << >> /\ replicas = << >> /\ callers \in Callers
      /\ requests = << >> /\ attempts = << >>
  BY DEF CoreInit, LineageInit, Init, FencingInit
<1> QED
  BY <1>1, <1>2
     DEF CoreInv, LineageTypeOK, GraphResolves, GraphAcyclic, PhasesNumbered, OriginsResolve,
         DependenciesAllowed, DerivedResolve, DerivationAcyclic, LifecycleIsFresh

LEMMA CoreInductive == CoreInv /\ [CoreNext]_coreVars => CoreInv'
<1> SUFFICES ASSUME CoreInv, [CoreNext]_coreVars PROVE CoreInv'
  OBVIOUS
<1>1. IInv'
  BY CoreStepIsFencingStep, Inductive DEF CoreInv, LineageTypeOK
<1>2. /\ GraphTyped' /\ PhasesTyped' /\ StatesTyped' /\ ReplicasTyped' /\ callers' \in Callers
      /\ PhasesNumbered' /\ LifecycleIsFresh'
  BY CoreStepEffect
<1>3. LineageTypeOK'
  BY <1>1, <1>2
     DEF LineageTypeOK, IInv, GraphTyped, PhasesTyped, StatesTyped, ReplicasTyped
<1> QED
  BY <1>1, <1>2, <1>3, GraphResolvesStep, GraphAcyclicStep, OriginsResolveStep,
     DependenciesAllowedStep, DerivationAcyclicStep
     DEF CoreInv

(* The inductive invariant holds in every reachable state of the core.     *)
THEOREM CoreInvariant == CoreSpec => []CoreInv
BY CoreInitially, CoreInductive, PTL DEF CoreSpec

(* The graph, the phases, the States and the replicas stay well typed.     *)
THEOREM CoreTypeCorrect == CoreSpec => []LineageTypeOK
BY CoreInvariant, PTL DEF CoreInv

(* With a graph and States around them, the requests, attempts and outputs *)
(* still behave as AttemptFencing says: all that is proved of it holds of  *)
(* the whole core.                                                         *)
THEOREM CoreImplementsFencing == CoreSpec => Spec
<1>1. CoreInit => Init
  BY DEF CoreInit
<1>2. CoreInv /\ [CoreNext]_coreVars => [Next]_vars
  BY CoreStepIsFencingStep DEF CoreInv, LineageTypeOK
<1> QED
  BY <1>1, <1>2, CoreInvariant, PTL DEF CoreSpec, Spec

(* In the whole core every decision is final and the fenced register is    *)
(* implemented.                                                            *)
THEOREM CoreDecisionsAreFinal == CoreSpec => DecisionsAreFinal /\ ImplementsFencedRegister
BY CoreImplementsFencing, Finality, Refinement

(* Nothing the core records is lost or moved: no object is forgotten, no   *)
(* continuation, phase, State or replica changes its place, and COMPLETED  *)
(* phases and INVALID States stay so.                                      *)
THEOREM ProvenanceIsFinal == CoreSpec => [][RecordsKept]_coreVars
<1>1. CoreInv /\ [CoreNext]_coreVars => RecordsKept
  BY CoreStepEffect
<1> QED
  BY <1>1, CoreInvariant, PTL DEF CoreSpec

---------------------------------------------------------------------------
(* The identifier and the answer of _resolve_origin a State carries.       *)
OriginOf(x) ==
  [origin |-> x.origin, continuation |-> x.continuation, request |-> x.request,
   attempt |-> x.attempt, phase |-> x.phase]

(* What the fields of a State say is what resolving its declared origin    *)
(* answers now.                                                            *)
LEMMA DeclaredOriginAgrees ==
  ASSUME CoreInv, NEW s \in DOMAIN states
  PROVE  /\ OriginResolves(states[s])
         /\ states[s].origin \in {"continuation", "request", "attempt", "phase"}
         /\ states[s].origin = "continuation"
              => OriginOf(states[s]) = ContinuationOrigin(states[s].continuation)
         /\ states[s].origin = "request"
              => /\ CommittedProducer(states[s])
                 /\ OriginOf(states[s]) = RequestOrigin(states[s].request)
         /\ states[s].origin = "attempt"
              => OriginOf(states[s]) = AttemptOrigin(states[s].attempt)
         /\ states[s].origin = "phase"
              => /\ phases[states[s].phase].status = "COMPLETED"
                 /\ OriginOf(states[s]) = PhaseOrigin(states[s].phase)
<1> DEFINE x == states[s]
           o == [origin |-> x.origin, continuation |-> x.continuation,
                 request |-> x.request, attempt |-> x.attempt, phase |-> x.phase]
<1>1. OriginResolves(x)
  BY DEF CoreInv, OriginsResolve
<1>2. x.origin \in {"continuation", "request", "attempt", "phase"}
  BY DEF CoreInv, LineageTypeOK, ReusableState
<1> HIDE DEF x
<1>3. ASSUME x.origin = "continuation"
      PROVE  x.continuation \in DOMAIN continuations /\ o = ContinuationOrigin(x.continuation)
  <2>1. /\ x.continuation \in DOMAIN continuations
        /\ x.request = NULL /\ x.attempt = NULL /\ x.phase = NULL
    BY <1>1, <1>3 DEF OriginResolves
  <2> QED
    BY <1>3, <2>1 DEF ContinuationOrigin
<1>4. ASSUME x.origin = "request"
      PROVE  requests[x.request].status = "COMPLETED" /\ o = RequestOrigin(x.request)
  <2>1. /\ requests[x.request].status = "COMPLETED"
        /\ requests[x.request].committed = x.attempt
        /\ x.continuation = requests[x.request].continuation
        /\ x.phase = NULL
    BY <1>1, <1>4 DEF OriginResolves, CommittedProducer
  <2> QED
    BY <1>4, <2>1 DEF RequestOrigin
<1>5. ASSUME x.origin = "attempt" \/ x.origin = "phase"
      PROVE  /\ x.request = attempts[x.attempt].request
             /\ x.continuation = requests[x.request].continuation
             /\ AttemptOrigin(x.attempt)
                  = [origin |-> "attempt", continuation |-> x.continuation,
                     request |-> x.request, attempt |-> x.attempt, phase |-> NULL]
  <2>1. /\ x.request = attempts[x.attempt].request
        /\ x.continuation = requests[x.request].continuation
    BY <1>1, <1>5 DEF OriginResolves
  <2> QED
    BY <2>1 DEF AttemptOrigin
<1>6. ASSUME x.origin = "attempt"
      PROVE  o = AttemptOrigin(x.attempt)
  <2>1. x.phase = NULL
    BY <1>1, <1>6 DEF OriginResolves
  <2> QED
    BY <1>5, <1>6, <2>1
<1>7. ASSUME x.origin = "phase"
      PROVE  phases[x.phase].status = "COMPLETED" /\ o = PhaseOrigin(x.phase)
  <2>1. phases[x.phase].status = "COMPLETED" /\ phases[x.phase].attempt = x.attempt
    BY <1>1, <1>7 DEF OriginResolves
  <2> DEFINE y == AttemptOrigin(x.attempt)
             z == PhaseOrigin(x.phase)
  <2>2. y = [origin |-> "attempt", continuation |-> x.continuation, request |-> x.request,
             attempt |-> x.attempt, phase |-> NULL]
    BY <1>5, <1>7
  <2>3. z = [y EXCEPT !.origin = "phase", !.phase = x.phase]
    BY <2>1 DEF PhaseOrigin
  <2> HIDE DEF y, z
  <2>4. z = [origin |-> "phase", continuation |-> x.continuation, request |-> x.request,
             attempt |-> x.attempt, phase |-> x.phase]
    BY <2>2, <2>3
  <2> QED
    BY <1>7, <2>1, <2>4 DEF z
<1> QED
  BY <1>1, <1>2, <1>3, <1>4, <1>6, <1>7 DEF OriginOf, o, x, OriginResolves

(* So the oracle's reading of a State holds.                               *)
LEMMA InvariantGivesProvenance ==
  ASSUME CoreInv
  PROVE  ProvenanceResolves
<1>1. ASSUME NEW s \in DOMAIN states
      PROVE  LET x == states[s]
                 o == [origin |-> x.origin, continuation |-> x.continuation,
                       request |-> x.request, attempt |-> x.attempt, phase |-> x.phase]
             IN CASE x.origin = "continuation" -> /\ x.continuation \in DOMAIN continuations
                                                  /\ o = ContinuationOrigin(x.continuation)
                  [] x.origin = "request" -> /\ requests[x.request].status = "COMPLETED"
                                             /\ o = RequestOrigin(x.request)
                  [] x.origin = "attempt" -> o = AttemptOrigin(x.attempt)
                  [] x.origin = "phase" -> /\ phases[x.phase].status = "COMPLETED"
                                           /\ o = PhaseOrigin(x.phase)
  <2> DEFINE x == states[s]
             o == OriginOf(x)
  <2>1. /\ x.continuation \in DOMAIN continuations
        /\ x.origin \in {"continuation", "request", "attempt", "phase"}
        /\ x.origin = "continuation" => o = ContinuationOrigin(x.continuation)
        /\ x.origin = "request" => /\ requests[x.request].status = "COMPLETED"
                                   /\ o = RequestOrigin(x.request)
        /\ x.origin = "attempt" => o = AttemptOrigin(x.attempt)
        /\ x.origin = "phase" => /\ phases[x.phase].status = "COMPLETED"
                                 /\ o = PhaseOrigin(x.phase)
    BY DeclaredOriginAgrees DEF OriginResolves, CommittedProducer
  <2> HIDE DEF x, o
  <2>2. (CASE x.origin = "continuation" -> /\ x.continuation \in DOMAIN continuations
                                           /\ o = ContinuationOrigin(x.continuation)
           [] x.origin = "request" -> /\ requests[x.request].status = "COMPLETED"
                                      /\ o = RequestOrigin(x.request)
           [] x.origin = "attempt" -> o = AttemptOrigin(x.attempt)
           [] x.origin = "phase" -> /\ phases[x.phase].status = "COMPLETED"
                                    /\ o = PhaseOrigin(x.phase))
    BY <2>1
  <2> QED
    BY <2>2 DEF o, x, OriginOf
<1> QED
  BY <1>1 DEF ProvenanceResolves, CoreInv, GraphResolves, PhasesNumbered

(* Causality is passed on by derivation, and ancestors share a session.    *)
LEMMA InvariantGivesCausality ==
  ASSUME CoreInv
  PROVE  LineageIsCausal
<1> SUFFICES ASSUME NEW s \in DOMAIN states, NEW d \in Lineage(s)
             PROVE  /\ IsAncestor(states[d].continuation, states[s].continuation, continuations)
                    /\ continuations[states[d].continuation].session
                         = continuations[states[s].continuation].session
  BY DEF LineageIsCausal
<1> DEFINE S == {x \in DOMAIN states :
                   IsAncestor(states[x].continuation, states[s].continuation, continuations)}
<1>1. s \in S
  BY AncestorReflexive
<1>2. ASSUME NEW x \in S, NEW e \in states[x].derived PROVE e \in S
  <2>1. /\ e \in DOMAIN states
        /\ IsAncestor(states[e].continuation, states[x].continuation, continuations)
    BY DEF CoreInv, DependenciesAllowed, DerivedResolve, MayDependOn
  <2> QED
    BY <2>1, AncestorTransitive
<1>3. d \in S
  <2>1. S \in SUBSET DOMAIN states /\ DerivationClosed(S)
    BY <1>2 DEF DerivationClosed
  <2> HIDE DEF S
  <2> QED
    BY <1>1, <2>1, LineageLeast
<1>4. states[s].continuation \in DOMAIN continuations
  BY DEF CoreInv, OriginsResolve, OriginResolves
<1>5. /\ ParentsResolve(continuations)
      /\ \A c \in DOMAIN continuations : \A p \in continuations[c].parents :
           continuations[p].session = continuations[c].session
  BY DEF CoreInv, GraphResolves, ParentsInSession, ParentsResolve
<1> QED
  BY <1>3, <1>4, <1>5, AncestorsShareSession

(* What the oracle says of the graph and of the States always holds, with  *)
(* the causality it relies on.                                             *)
THEOREM LineageHolds == CoreSpec => []LineageOracle
<1>1. CoreInv => LineageOracle
  BY InvariantGivesProvenance, InvariantGivesCausality DEF LineageOracle, CoreInv
<1> QED
  BY <1>1, CoreInvariant, PTL

---------------------------------------------------------------------------
(* can_consume_state lets an attempt have only what is safe all the way    *)
(* down, for any lineage and any semantic_validity callback.               *)
THEOREM ConsumptionAlwaysSafe == CoreSpec => []ConsumptionIsSafe
<1>1. CoreInv => ConsumptionIsSafe
  <2> SUFFICES ASSUME CoreInv, NEW s \in DOMAIN states, NEW a \in DOMAIN attempts,
                      NEW ctx \in ContextsOf(a), StateCompatible(s, ctx), NEW d \in Lineage(s)
               PROVE  LET x == states[d] IN
                        /\ x.validity = "VALID"
                        /\ IsAncestor(x.continuation, ctx.continuation, continuations)
                        /\ x.attempt = a =>
                             x.phase = NULL \/ phases[x.phase].ordinal < phases[ctx.phase].ordinal
                        /\ x.attempt \notin {NULL, a} => CommittedProducer(x)
    BY DEF ConsumptionIsSafe
  <2>1. LocallyCompatible(d, ctx)
    BY CompatibleThroughout DEF CoreInv, DependenciesAllowed
  <2>2. ctx.attempt = a
    BY DEF ContextsOf
  <2> QED
    BY <2>1, <2>2 DEF LocallyCompatible, ProducerAccepted, CommittedProducer
<1> QED
  BY <1>1, CoreInvariant, PTL

(* What rests on INVALID State or on the work of a superseded attempt may  *)
(* not be consumed, now or at any later time.                              *)
THEOREM TaintStays == CoreSpec => TaintIsPermanent
<1> DEFINE Stays(s) ==
             Tainted(s) =>
               /\ s \in DOMAIN states' /\ Tainted(s)'
               /\ \A a \in DOMAIN attempts : \A ctx \in ContextsOf(a) : ~StateCompatible(s, ctx)
<1>1. CoreInv /\ [CoreNext]_coreVars => \A s \in DOMAIN states : Stays(s)
  <2> SUFFICES ASSUME CoreInv, [CoreNext]_coreVars, NEW s \in DOMAIN states, Tainted(s)
               PROVE  /\ s \in DOMAIN states' /\ Tainted(s)'
                      /\ \A a \in DOMAIN attempts : \A ctx \in ContextsOf(a) :
                           ~StateCompatible(s, ctx)
    OBVIOUS
  <2>1. PICK d \in Lineage(s) :
          \/ states[d].validity = "INVALID"
          \/ states[d].attempt # NULL /\ attempts[states[d].attempt].authority = "SUPERSEDED"
    BY DEF Tainted
  <2>2. d \in DOMAIN states /\ OriginResolves(states[d])
    BY LineageRecorded DEF CoreInv, OriginsResolve
  <2>3. RecordsKept
    BY CoreStepEffect
  <2>4. /\ s \in DOMAIN states' /\ d \in Lineage(s)'
        /\ states[d].validity = "INVALID" => states'[d].validity = "INVALID"
        /\ states'[d].attempt = states[d].attempt
    BY <2>2, <2>3, LineageOnlyKept DEF RecordsKept, StatesKept, SameProvenance
  <2>5. states[d].attempt # NULL /\ attempts[states[d].attempt].authority = "SUPERSEDED"
          => attempts'[states[d].attempt].authority = "SUPERSEDED"
    BY <2>2, <2>3 DEF OriginResolves, RecordsKept, Final
  <2>6. Tainted(s)'
    BY <2>1, <2>4, <2>5 DEF Tainted
  <2>7. ASSUME NEW ctx, StateCompatible(s, ctx) PROVE FALSE
    <3>1. LocallyCompatible(d, ctx)
      BY <2>7, CompatibleThroughout DEF CoreInv, DependenciesAllowed
    <3> QED
      BY <2>1, <3>1 DEF LocallyCompatible, ProducerAccepted
  <2> QED
    BY <2>4, <2>6, <2>7
<1> QED
  BY <1>1, CoreInvariant, PTL DEF CoreSpec, TaintIsPermanent

(* Committed work stays consumable until it is declared INVALID.           *)
THEOREM CommittedWorkStays == CoreSpec => DurableUntilInvalidated
<1> DEFINE Stays(s) ==
             Durable(s) => Durable(s)' \/ \E d \in Lineage(s) : states'[d].validity = "INVALID"
<1>1. CoreInv /\ [CoreNext]_coreVars => \A s \in DOMAIN states : Stays(s)
  <2> SUFFICES ASSUME CoreInv, [CoreNext]_coreVars, NEW s \in DOMAIN states, Durable(s),
                      \A d \in Lineage(s) : states'[d].validity # "INVALID"
               PROVE  Durable(s)'
    OBVIOUS
  <2>1. RecordsKept /\ StatesTyped' /\ Lineage(s)' = Lineage(s)
    BY CoreStepEffect, LineageOnlyKept
  <2>2. ASSUME NEW d \in Lineage(s)
        PROVE  /\ states'[d].validity = "VALID"
               /\ states'[d].attempt # NULL => CommittedProducer(states[d])'
    <3>1. d \in DOMAIN states /\ OriginResolves(states[d])
      BY LineageRecorded DEF CoreInv, OriginsResolve
    <3>2. d \in DOMAIN states' /\ SameProvenance(states[d], states'[d])
      BY <2>1, <3>1 DEF RecordsKept, StatesKept
    <3>3. states'[d].validity = "VALID"
      BY <2>1, <3>2 DEF StatesTyped, ReusableState, StateValidity
    <3>4. states[d].attempt # NULL =>
            /\ states[d].request \in DOMAIN requests
            /\ CommittedProducer(states[d])
      BY <3>1 DEF OriginResolves, CoreInv, IInv, StoreWellFormed, Durable
    <3>5. states[d].attempt # NULL =>
            /\ requests'[states[d].request].status = "COMPLETED"
            /\ requests'[states[d].request].committed = states[d].attempt
      BY <2>1, <3>4 DEF CommittedProducer, RecordsKept, Final
    <3> QED
      BY <3>2, <3>3, <3>5 DEF CommittedProducer, SameProvenance
  <2> QED
    BY <2>1, <2>2 DEF Durable
<1> QED
  BY <1>1, CoreInvariant, PTL DEF CoreSpec, DurableUntilInvalidated

---------------------------------------------------------------------------
(* A set numbered 1..n, no number twice, has n elements.                   *)
LEMMA NumberedSet ==
  ASSUME NEW S, NEW n \in Nat, NEW f \in [S -> 1..n],
         \A x, y \in S : f[x] = f[y] => x = y,
         \A m \in 1..n : \E x \in S : f[x] = m
  PROVE  Cardinality(S) = n
<1>1. f \in Injection(S, 1..n) /\ f \in Surjection(S, 1..n)
  BY DEF Injection, IsInjective, Surjection
<1>2. IsFiniteSet(1..n) /\ Cardinality(1..n) = n
  BY FS_Interval
<1> QED
  BY <1>1, <1>2, FS_Injection

(* _attempt_generations and _phase_ordering compare the numbers with their *)
(* count.                                                                  *)
LEMMA GenerationsCounted ==
  ASSUME CoreInv, NEW r \in DOMAIN requests
  PROVE  Generations(r) = 1..Cardinality(AttemptsOf(r))
<1>1. PICK n \in Nat : Generations(r) = 1..n
  BY NextGenerationIsNat DEF CoreInv, IInv
<1> DEFINE f == [a \in AttemptsOf(r) |-> attempts[a].generation]
<1>2. f \in [AttemptsOf(r) -> 1..n]
  BY <1>1 DEF Generations
<1>3. \A x, y \in AttemptsOf(r) : f[x] = f[y] => x = y
  BY DEF CoreInv, IInv, NewestHoldsAuthority
<1>4. \A m \in 1..n : \E x \in AttemptsOf(r) : f[x] = m
  BY <1>1 DEF Generations
<1> HIDE DEF f
<1>5. Cardinality(AttemptsOf(r)) = n
  BY <1>2, <1>3, <1>4, NumberedSet
<1> QED
  BY <1>1, <1>5

LEMMA OrdinalsCounted ==
  ASSUME CoreInv, NEW a \in DOMAIN attempts
  PROVE  Ordinals(a) = 1..Cardinality(PhasesOf(a))
<1>1. PICK n \in Nat : Ordinals(a) = 1..n
  BY NextOrdinalIsNat
<1> DEFINE f == [p \in PhasesOf(a) |-> phases[p].ordinal]
<1>2. f \in [PhasesOf(a) -> 1..n]
  BY <1>1 DEF Ordinals
<1>3. \A x, y \in PhasesOf(a) : f[x] = f[y] => x = y
  BY DEF CoreInv, PhasesNumbered
<1>4. \A m \in 1..n : \E x \in PhasesOf(a) : f[x] = m
  BY <1>1 DEF Ordinals
<1> HIDE DEF f
<1>5. Cardinality(PhasesOf(a)) = n
  BY <1>2, <1>3, <1>4, NumberedSet
<1> QED
  BY <1>1, <1>5

---------------------------------------------------------------------------
(* One identifier that nothing has yet enters one collection.              *)
NewIdentifier(k, id) ==
  /\ \A j \in 1..11 : id \notin Collections[j]
  /\ \A j \in 1..11 : Collections'[j] = IF j = k THEN Collections[j] \cup {id}
                                                 ELSE Collections[j]

LEMMA CollectionsCounted == DOMAIN Collections = 1..11
BY DEF Collections

LEMMA UniquenessKept ==
  ASSUME GlobalIdentityUniqueness, NEW k \in 1..11, NEW id, NewIdentifier(k, id)
  PROVE  GlobalIdentityUniqueness'
<1>1. \A i, j \in 1..11 : i < j => Collections[i] \cap Collections[j] = {}
  BY CollectionsCounted DEF GlobalIdentityUniqueness
<1>2. \A i, j \in 1..11 : i < j => Collections'[i] \cap Collections'[j] = {}
  BY <1>1 DEF NewIdentifier
<1>3. DOMAIN Collections' = 1..11
  BY DEF Collections
<1> QED
  BY <1>2, <1>3 DEF GlobalIdentityUniqueness

(* The bindings of this core.                                              *)
NoBindings ==
  bindings = << >> /\ currentBinding = << >> /\ currentEpoch = << >> /\ lastAllocatedEpoch = << >>

(* Every step fills at most one collection, with an identifier that is     *)
(* free in all of them (_unique).                                          *)
LEMMA StepTakesOneIdentifier ==
  ASSUME CoreInv, NoBindings, [CoreNext]_coreVars, UNCHANGED bindingVars
  PROVE  \/ Collections' = Collections
         \/ \E k \in 1..11 : \E id : NewIdentifier(k, id)
<1> DEFINE Goal == \/ Collections' = Collections
                   \/ \E k \in 1..11 : \E id : NewIdentifier(k, id)
           Free11(id) == \A j \in 1..11 : id \notin Collections[j]
<1>1. ASSUME NEW id, id \notin FencingIds \cup DOMAIN evidence \cup LineageIds PROVE Free11(id)
  BY <1>1 DEF FencingIds, LineageIds, Collections, NoBindings
<1>2. UNCHANGED bindings
  BY DEF bindingVars
<1>3. ASSUME RequestStep PROVE Goal
  <2>0. UNCHANGED lineageVars
    BY <1>3 DEF RequestStep
  <2>1. ASSUME NEW r \in RequestIds, NEW c \in DOMAIN continuations,
               CreateRequest(r, c, LineageIds)
        PROVE  NewIdentifier(4, r)
    <3>1. Free11(r)
      BY <1>1, <2>1 DEF CreateRequest, Unique
    <3> QED
      BY <1>2, <2>0, <2>1, <3>1 DEF CreateRequest, Put, NewIdentifier, Collections, lineageVars
  <2>2. ASSUME NEW a \in AttemptIds, NEW r \in RequestIds, StartAttempt(a, r, LineageIds)
        PROVE  NewIdentifier(5, a)
    <3>1. Free11(a)
      BY <1>1, <2>2 DEF StartAttempt, MayStart, Unique
    <3>2. /\ DOMAIN attempts' = DOMAIN attempts \cup {a} /\ DOMAIN requests' = DOMAIN requests
          /\ UNCHANGED <<outputs, evidence>>
      BY <2>2 DEF StartAttempt, MayStart, Put, Fenced
    <3> QED
      BY <1>2, <2>0, <3>1, <3>2 DEF NewIdentifier, Collections, lineageVars
  <2>3. ASSUME NEW a \in AttemptIds, NEW status \in callers.executions,
               SetAttemptExecution(a, status)
        PROVE  Collections' = Collections
    <3>1. DOMAIN attempts' = DOMAIN attempts /\ UNCHANGED <<requests, outputs, evidence>>
      BY <2>3 DEF SetAttemptExecution, MayReport
    <3> QED
      BY <1>2, <2>0, <3>1 DEF Collections, lineageVars
  <2>4. ASSUME NEW o \in OutputIds, NEW a \in AttemptIds, NEW terminal \in BOOLEAN,
               NEW ids \in SUBSET EvidenceIds, CreateOutput(o, a, terminal, ids, LineageIds)
        PROVE  NewIdentifier(11, o)
    <3>1. Free11(o)
      BY <1>1, <2>4 DEF CreateOutput, MayCreateOutput, Unique
    <3> QED
      BY <1>2, <2>0, <2>4, <3>1
         DEF CreateOutput, MayCreateOutput, Put, NewIdentifier, Collections, lineageVars
  <2>5. ASSUME NEW r \in RequestIds, NEW o \in OutputIds, NEW now \in Times,
               FinalizeRequest(r, o, now)
        PROVE  Collections' = Collections
    <3>1. /\ DOMAIN attempts' = DOMAIN attempts /\ DOMAIN requests' = DOMAIN requests
          /\ UNCHANGED <<outputs, evidence>>
      BY <2>5 DEF FinalizeRequest, MayFinalize
    <3> QED
      BY <1>2, <2>0, <3>1 DEF Collections, lineageVars
  <2>6. ASSUME NEW i \in EvidenceIds, NEW e \in EvidenceRecords,
               RecordEvidence(i, e, FencingIds \cup LineageIds), UNCHANGED fencingVars
        PROVE  NewIdentifier(10, i)
    <3>1. Free11(i)
      BY <1>1, <2>6 DEF RecordEvidence, MayRecord, NotYetRecorded
    <3> QED
      BY <1>2, <2>0, <2>6, <3>1
         DEF RecordEvidence, MayRecord, NewIdentifier, Collections, lineageVars,
             fencingVars
  <2> HIDE DEF Free11
  <2> QED
    BY <1>3, <2>1, <2>2, <2>3, <2>4, <2>5, <2>6 DEF RequestStep
<1>4. \A id : Free(id) => Free11(id)
  BY <1>1 DEF Free, Unique
<1>5. ASSUME GraphStep PROVE Goal
  <2>1. ASSUME NEW p \in ProgramIds, CreateProgram(p)
        PROVE  NewIdentifier(1, p)
    BY <1>2, <1>4, <2>1 DEF CreateProgram, Put, NewIdentifier, Collections, vars
  <2>2. ASSUME NEW p \in ProgramIds, NEW status \in callers.programStatus,
               SetProgramStatus(p, status)
        PROVE  Collections' = Collections
    BY <1>2, <2>2 DEF SetProgramStatus, Collections, vars
  <2>3. ASSUME NEW s \in SessionIds, NEW p \in ProgramIds, CreateSession(s, p)
        PROVE  NewIdentifier(2, s)
    BY <1>2, <1>4, <2>3 DEF CreateSession, Put, NewIdentifier, Collections, vars
  <2>4. ASSUME NEW c \in ContinuationIds, NEW s \in SessionIds,
               NEW parents \in SUBSET ContinuationIds, NEW lifecycle \in callers.lifecycles,
               CreateContinuation(c, s, parents, lifecycle)
        PROVE  NewIdentifier(3, c)
    <3>1. /\ Free(c) /\ DOMAIN continuations' = DOMAIN continuations \cup {c}
          /\ DOMAIN states' = DOMAIN states
          /\ UNCHANGED <<programs, sessions, phases, replicas, vars>>
      BY <2>4 DEF CreateContinuation, Put, Refreshed
    <3> QED
      BY <1>2, <1>4, <3>1 DEF NewIdentifier, Collections, vars
  <2>5. ASSUME NEW waiting \in ContinuationIds, NEW child \in ContinuationIds,
               ResumeAfterWait(waiting, child)
        PROVE  NewIdentifier(3, child)
    <3>1. /\ Free(child) /\ DOMAIN continuations' = DOMAIN continuations \cup {child}
          /\ DOMAIN states' = DOMAIN states
          /\ UNCHANGED <<programs, sessions, phases, replicas, vars>>
      BY <2>5 DEF ResumeAfterWait, Put, Refreshed
    <3> QED
      BY <1>2, <1>4, <3>1 DEF NewIdentifier, Collections, vars
  <2>6. ASSUME NEW c \in ContinuationIds, NEW lifecycle \in callers.lifecycles,
               SetContinuationLifecycle(c, lifecycle)
        PROVE  Collections' = Collections
    <3>1. /\ DOMAIN continuations' = DOMAIN continuations /\ DOMAIN states' = DOMAIN states
          /\ UNCHANGED <<programs, sessions, phases, replicas, vars>>
      BY <2>6 DEF SetContinuationLifecycle, Refreshed
    <3> QED
      BY <1>2, <3>1 DEF Collections, vars
  <2> HIDE DEF Free11
  <2> QED
    BY <1>5, <2>1, <2>2, <2>3, <2>4, <2>5, <2>6 DEF GraphStep
<1>6. ASSUME StateStep PROVE Goal
  <2>1. ASSUME NEW p \in PhaseIds, NEW a \in AttemptIds, CreatePhase(p, a)
        PROVE  NewIdentifier(6, p)
    BY <1>2, <1>4, <2>1 DEF CreatePhase, Put, NewIdentifier, Collections, vars
  <2>2. ASSUME NEW p \in PhaseIds, NEW status \in callers.phaseStatus, SetPhaseStatus(p, status)
        PROVE  Collections' = Collections
    BY <1>2, <2>2 DEF SetPhaseStatus, Collections, vars
  <2>3. ASSUME NEW s \in StateIds, NEW o \in ResolvedOrigins, NEW derived \in SUBSET StateIds,
               CreateState(s, o, derived)
        PROVE  NewIdentifier(7, s)
    <3>1. /\ Free(s) /\ DOMAIN states' = DOMAIN states \cup {s}
          /\ UNCHANGED <<programs, sessions, continuations, phases, replicas, vars>>
      BY <2>3 DEF CreateState, Put, Refreshed
    <3> QED
      BY <1>2, <1>4, <3>1 DEF NewIdentifier, Collections, vars
  <2>4. ASSUME NEW s \in StateIds, NEW validity \in callers.validity,
               SetStateValidity(s, validity)
        PROVE  Collections' = Collections
    BY <1>2, <2>4 DEF SetStateValidity, Collections, vars
  <2>5. ASSUME NEW i \in ReplicaIds, NEW s \in StateIds, NEW status \in callers.replicaStatus,
               AddReplica(i, s, status)
        PROVE  NewIdentifier(8, i)
    BY <1>2, <1>4, <2>5 DEF AddReplica, Put, NewIdentifier, Collections, vars
  <2>6. ASSUME NEW i \in ReplicaIds, NEW status \in callers.replicaStatus,
               SetReplicaStatus(i, status)
        PROVE  Collections' = Collections
    BY <1>2, <2>6 DEF SetReplicaStatus, Collections, vars
  <2> HIDE DEF Free11
  <2> QED
    BY <1>6, <2>1, <2>2, <2>3, <2>4, <2>5, <2>6 DEF StateStep
<1>7. ASSUME UNCHANGED coreVars PROVE Collections' = Collections
  BY <1>2, <1>7 DEF coreVars, lineageVars, Collections
<1> HIDE DEF Goal, Free11
<1>8. Goal
  BY <1>3, <1>5, <1>6, <1>7 DEF CoreNext, Goal
<1> QED
  BY <1>8 DEF Goal

(* No operation rewrites Evidence, and what record_evidence lets in is     *)
(* derived soundly.                                                        *)
LEMMA EvidenceEffect ==
  ASSUME callers \in Callers, DOMAIN continuations \subseteq ContinuationIds, [CoreNext]_coreVars
  PROVE  \/ UNCHANGED evidence
         \/ \E i, e : RecordEvidence(i, e, FencingIds)
<1>1. [Next]_vars
  BY CoreStepIsFencingStep, ZenonT(60)
<1>2. ASSUME AttemptStep({})
      PROVE  UNCHANGED evidence \/ \E i, e : RecordEvidence(i, e, FencingIds)
  <2>1. ASSUME NEW i, NEW e, RecordEvidence(i, e, FencingIds \cup {})
        PROVE  RecordEvidence(i, e, FencingIds)
    BY <2>1 DEF RecordEvidence, MayRecord
  <2> QED
    BY <1>2, <2>1
       DEF AttemptStep, StartAttempt, MayStart, SetAttemptExecution, MayReport,
           CompleteAttempt, CreateOutput, MayCreateOutput, FinalizeRequest, MayFinalize
<1> QED
  BY <1>1, <1>2 DEF Next, CreateRequest, vars

LEMMA DerivationKept ==
  ASSUME EvidenceDerivation,
         UNCHANGED evidence \/ \E i, e : RecordEvidence(i, e, FencingIds)
  PROVE  EvidenceDerivation'
<1>1. CASE UNCHANGED evidence
  BY <1>1 DEF EvidenceDerivation
<1>2. ASSUME NEW i, NEW e, RecordEvidence(i, e, FencingIds)
      PROVE  EvidenceDerivation'
  <2>1. /\ DOMAIN evidence' = DOMAIN evidence \cup {i}
        /\ evidence'[i] = e
        /\ \A j \in DOMAIN evidence : evidence'[j] = evidence[j]
        /\ DerivationAdmissible(e)
    BY <1>2 DEF RecordEvidence, MayRecord, NotYetRecorded
  <2> DEFINE Sound(x) ==
               /\ IF x.authority = DERIVED THEN x.support # {} /\ x.rule
                                           ELSE x.support = {} /\ ~x.rule
               /\ x.support # {} =>
                    /\ x.support \subseteq DOMAIN evidence
                    /\ x.scope \subseteq UNION {evidence[j].scope : j \in x.support}
                    /\ x.status = "VALID" => \A j \in x.support : evidence[j].status = "VALID"
  <2>2. \A k \in DOMAIN evidence' : Sound(evidence'[k])
    BY <2>1 DEF EvidenceDerivation, DerivationAdmissible, ValidSupports
  <2>3. ASSUME NEW x, Sound(x), x.support # {}
        PROVE  /\ x.support \subseteq DOMAIN evidence'
               /\ x.scope \subseteq UNION {evidence'[j].scope : j \in x.support}
               /\ x.status = "VALID" => \A j \in x.support : evidence'[j].status = "VALID"
    <3>1. {evidence'[j].scope : j \in x.support} = {evidence[j].scope : j \in x.support}
      BY <2>1, <2>3
    <3> QED
      BY <2>1, <2>3, <3>1
  <2> QED
    BY <2>2, <2>3 DEF EvidenceDerivation
<1> QED
  BY <1>1, <1>2

---------------------------------------------------------------------------
(* What the oracle needs beyond CoreInv: identifiers are unique over all   *)
(* collections, and derived Evidence never claims more than its supports.  *)
OracleInv == CoreInv /\ NoBindings /\ GlobalIdentityUniqueness /\ EvidenceDerivation

oracleVars == <<coreVars, bindingVars>>

LEMMA OracleInitially == OracleInit => OracleInv
<1> SUFFICES ASSUME OracleInit PROVE OracleInv
  OBVIOUS
<1>1. CoreInv /\ NoBindings
  BY CoreInitially DEF OracleInit, BindingInit, NoBindings
<1>2. /\ programs = << >> /\ sessions = << >> /\ continuations = << >> /\ phases = << >>
      /\ states = << >> /\ replicas = << >> /\ requests = << >> /\ attempts = << >>
      /\ outputs = << >> /\ evidence = << >> /\ bindings = << >>
  BY <1>1 DEF OracleInit, CoreInit, LineageInit, Init, FencingInit, EvidenceInit, NoBindings
<1>3. Collections = <<{}, {}, {}, {}, {}, {}, {}, {}, {}, {}, {}>>
  BY <1>2 DEF Collections
<1>4. GlobalIdentityUniqueness
  BY <1>3 DEF GlobalIdentityUniqueness
<1> QED
  BY <1>1, <1>2, <1>4 DEF OracleInv, EvidenceDerivation

LEMMA OracleInductive == OracleInv /\ [OracleNext]_oracleVars => OracleInv'
<1> SUFFICES ASSUME OracleInv, [OracleNext]_oracleVars PROVE OracleInv'
  OBVIOUS
<1>1. [CoreNext]_coreVars /\ UNCHANGED bindingVars
  BY DEF OracleNext, oracleVars
<1>2. CoreInv'
  BY <1>1, CoreInductive DEF OracleInv
<1>3. NoBindings'
  BY <1>1 DEF OracleInv, NoBindings, bindingVars
<1>4. GlobalIdentityUniqueness'
  <2>1. CASE Collections' = Collections
    BY <2>1 DEF OracleInv, GlobalIdentityUniqueness
  <2> QED
    BY <1>1, <2>1, StepTakesOneIdentifier, UniquenessKept DEF OracleInv
<1>5. EvidenceDerivation'
  BY <1>1, EvidenceEffect, DerivationKept DEF OracleInv, CoreInv, LineageTypeOK
<1> QED
  BY <1>2, <1>3, <1>4, <1>5 DEF OracleInv

THEOREM OracleInvariant == OracleSpec => []OracleInv
BY OracleInitially, OracleInductive, PTL DEF OracleSpec, oracleVars

---------------------------------------------------------------------------
(* The oracle, check by check.                                             *)
LEMMA ScopesAccepted ==
  ASSUME CoreInv
  PROVE  ParentScopes /\ OutputIntegrity /\ ReplicaIntegrity
BY DEF CoreInv, IInv, GraphResolves, StoreWellFormed, ParentScopes, OutputIntegrity,
       ReplicaIntegrity

LEMMA RequestsAccepted ==
  ASSUME CoreInv
  PROVE  AttemptAuthorityChecked /\ AttemptGenerations /\ RequestCommitConsistency
<1>1. NULL \notin AttemptIds /\ DOMAIN attempts \subseteq AttemptIds
  BY IdAssumption DEF CoreInv, LineageTypeOK, TypeOK
<1>2. AuthorityMatchesPointers /\ StoreWellFormed /\ CommitConsistent
  BY DEF CoreInv, IInv
<1>3. ASSUME NEW r \in DOMAIN requests
      PROVE  /\ HoldersAre(r, "CURRENT", requests[r].current)
             /\ HoldersAre(r, "COMMITTED", requests[r].committed)
  <2>1. \A a \in AttemptsOf(r) : /\ (attempts[a].authority = "CURRENT") = (requests[r].current = a)
                                 /\ (attempts[a].authority = "COMMITTED") = (requests[r].committed = a)
                                 /\ a # NULL
    BY <1>1, <1>2 DEF AuthorityMatchesPointers, AttemptsOf
  <2>2. \A a \in {requests[r].current, requests[r].committed} \ {NULL} : a \in AttemptsOf(r)
    BY <1>2 DEF AuthorityMatchesPointers, AttemptsOf, StoreWellFormed
  <2> QED
    BY <2>1, <2>2 DEF HoldersAre
<1>4. ASSUME NEW r \in DOMAIN requests, requests[r].status = "COMPLETED"
      PROVE  CompletedSoundly(r)
  <2>1. /\ requests[r].current = NULL /\ requests[r].committed # NULL
        /\ requests[r].output # NULL
        /\ attempts[requests[r].committed].execution = "SUCCEEDED"
        /\ outputs[requests[r].output].attempt = requests[r].committed
        /\ outputs[requests[r].output].terminal
    BY <1>2, <1>4 DEF CommitConsistent
  <2>2. /\ requests[r].committed \in AttemptsOf(r)
        /\ attempts[requests[r].committed].authority = "COMMITTED"
        /\ requests[r].output \in DOMAIN outputs
    BY <1>2, <2>1 DEF AuthorityMatchesPointers, StoreWellFormed, AttemptsOf
  <2> QED
    BY <2>1, <2>2 DEF CompletedSoundly
<1>5. \A r \in DOMAIN requests : requests[r].status \in {"READY", "RUNNING", "COMPLETED"}
  BY <1>2 DEF CommitConsistent
<1>6. RequestCommitConsistency
  BY <1>4, <1>5 DEF RequestCommitConsistency
<1> QED
  BY <1>3, <1>6, GenerationsCounted DEF AttemptAuthorityChecked, AttemptGenerations

LEMMA GraphAccepted ==
  ASSUME CoreInv
  PROVE  ContinuationDags /\ PhaseOrdering
<1>1. ContinuationDags
  BY DEF CoreInv, GraphAcyclic, ContinuationDags, HasCycle
<1> QED
  BY <1>1, OrdinalsCounted DEF PhaseOrdering

LEMMA ProvenanceAccepted ==
  ASSUME CoreInv
  PROVE  StateProvenance
<1>1. ~StateCycle
  BY DEF CoreInv, DerivationAcyclic, StateCycle
<1>2. ASSUME NEW s \in DOMAIN states
      PROVE  DeclaredStateOrigin(states[s])
  <2> DEFINE x == states[s]
             o == [origin |-> x.origin, continuation |-> x.continuation,
                   request |-> x.request, attempt |-> x.attempt, phase |-> x.phase]
  <2>1. o = OriginOf(x)
    BY DEF OriginOf
  <2>2. OriginResolves(x)
    BY DeclaredOriginAgrees
  <2>3. x.origin = "continuation" => o = ContinuationOrigin(x.continuation)
    BY <2>1, DeclaredOriginAgrees
  <2>4. x.origin = "request" => /\ x.request \in DOMAIN requests
                                /\ requests[x.request].status = "COMPLETED"
                                /\ requests[x.request].committed # NULL
                                /\ o = RequestOrigin(x.request)
    BY <2>1, <2>2, DeclaredOriginAgrees
       DEF OriginResolves, CommittedProducer, CoreInv, IInv, StoreWellFormed
  <2>5. x.origin = "attempt" => x.attempt \in DOMAIN attempts /\ o = AttemptOrigin(x.attempt)
    BY <2>1, <2>2, DeclaredOriginAgrees DEF OriginResolves
  <2>6. x.origin = "phase" => x.phase \in DOMAIN phases /\ o = PhaseOrigin(x.phase)
    BY <2>1, <2>2, DeclaredOriginAgrees DEF OriginResolves
  <2>7. x.origin \in {"continuation", "request", "attempt", "phase"}
    BY DeclaredOriginAgrees
  <2> QED
    BY <2>3, <2>4, <2>5, <2>6, <2>7 DEF DeclaredStateOrigin
<1>3. ASSUME NEW s \in DOMAIN states
      PROVE  LET x == states[s] IN
               /\ x.continuation \in DOMAIN continuations
               /\ \A d \in x.derived : MayDependOn(d, x)
               /\ x.attempt # NULL /\ x.request # NULL => attempts[x.attempt].request = x.request
               /\ x.phase # NULL => /\ phases[x.phase].attempt = x.attempt
                                    /\ phases[x.phase].status = "COMPLETED"
  BY DEF CoreInv, OriginsResolve, OriginResolves, DependenciesAllowed
<1> QED
  BY <1>1, <1>2, <1>3 DEF StateProvenance

LEMMA ConsumptionAccepted ==
  ASSUME CoreInv
  PROVE  StateValidityChecked
<1> SUFFICES ASSUME NEW s \in DOMAIN states, NEW ctx, states[s].validity = "INVALID",
                    StateCompatible(s, ctx)
             PROVE  FALSE
  BY DEF StateValidityChecked
<1>1. LocallyCompatible(s, ctx)
  BY CompatibleThroughout, LineageReflexive DEF CoreInv, DependenciesAllowed
<1> QED
  BY <1>1 DEF LocallyCompatible

LEMMA BindingsAccepted ==
  ASSUME NoBindings
  PROVE  BindingAuthority /\ BindingGenerations
BY DEF NoBindings, BindingAuthority, BindingGenerations

(* A snapshot taken at any time can be restored, and what the restored     *)
(* core computes with besides is sound.                                    *)
THEOREM SnapshotsAlwaysRestore == OracleSpec => []SnapshotsRestore
<1>1. OracleInv => SnapshotsRestore
  BY ScopesAccepted, RequestsAccepted, GraphAccepted, ProvenanceAccepted, ConsumptionAccepted,
     BindingsAccepted, InvariantGivesProvenance, InvariantGivesCausality
     DEF OracleInv, SnapshotsRestore, RestoreAccepts, OracleAccepts, LineageOracle, CoreInv
<1> QED
  BY <1>1, OracleInvariant, PTL

(* The core the oracle is run on is the core of the theorems above.        *)
THEOREM OracleCoreIsTheCore == OracleSpec => CoreSpec
<1>1. OracleInit => CoreInit
  BY DEF OracleInit
<1>2. [OracleNext]_oracleVars => [CoreNext]_coreVars
  BY DEF OracleNext, oracleVars
<1> QED
  BY <1>1, <1>2, PTL DEF OracleSpec, oracleVars, CoreSpec

---------------------------------------------------------------------------
(* The bindings, with migrations that race for an epoch.                   *)

(* The inductive invariant.  That one candidate wins per base epoch rests  *)
(* on the first part of CommittedFormAChain: whatever has been committed   *)
(* was based on an epoch below the current one, and a commit needs a       *)
(* candidate based on the current one.                                     *)
BindingInv ==
  /\ BindingTypeOK
  /\ OneActiveBinding
  /\ EpochsAllocatedOnce
  /\ OneWinnerPerBase
  /\ CommittedFormAChain

---------------------------------------------------------------------------
(* What commit_migration changes, field by field.                          *)
MigrationCommitted(b) ==
  LET s == bindings[b].subject IN
    /\ b \in DOMAIN bindings /\ s \in Subjects
    /\ bindings[b].base = Get(currentEpoch, s, 0)
    /\ bindings[b].status \in {"PROPOSED", "MIGRATING"}
    /\ DOMAIN bindings' = DOMAIN bindings
    /\ \A x \in DOMAIN bindings :
         /\ bindings'[x].subject = bindings[x].subject
         /\ bindings'[x].base = bindings[x].base
         /\ bindings'[x].epoch = bindings[x].epoch
         /\ x # b /\ bindings[x].subject = s /\ bindings[x].status = "ACTIVE"
              => bindings'[x].status = "SUPERSEDED"
         /\ x # b /\ ~(bindings[x].subject = s /\ bindings[x].status = "ACTIVE")
              => bindings'[x].status = bindings[x].status
    /\ bindings'[b].status = "ACTIVE"
    /\ DOMAIN currentBinding' = DOMAIN currentBinding \cup {s}
    /\ DOMAIN currentEpoch' = DOMAIN currentEpoch \cup {s}
    /\ currentBinding'[s] = b /\ currentEpoch'[s] = bindings[b].epoch
    /\ \A q \in DOMAIN currentBinding : q # s => currentBinding'[q] = currentBinding[q]
    /\ \A q \in DOMAIN currentEpoch : q # s => currentEpoch'[q] = currentEpoch[q]
    /\ lastAllocatedEpoch' = lastAllocatedEpoch

(* What commit_migration does: the candidate becomes ACTIVE and the        *)
(* binding it replaces SUPERSEDED.                                         *)
LEMMA CommitEffect ==
  ASSUME BindingTypeOK, OneActiveBinding, NEW b \in BindingIds, NEW ids \in SUBSET EvidenceIds,
         NEW now \in Times, CommitMigration(b, ids, now)
  PROVE  MigrationCommitted(b)
<1> DEFINE s == bindings[b].subject
           old == Get(currentBinding, s, NULL)
           superseded == [x \in DOMAIN bindings |->
                            IF x = old THEN [bindings[x] EXCEPT !.status = "SUPERSEDED"]
                                       ELSE bindings[x]]
<1>1. b \in DOMAIN bindings /\ s \in Subjects
  BY DEF CommitMigration, CanCommitMigration, BasedOnCurrent, Superseding, BindingTypeOK, Binding
<1>2. /\ bindings[b].base = Get(currentEpoch, s, 0)
      /\ bindings[b].status \in {"PROPOSED", "MIGRATING"}
      /\ currentBinding' = With(currentBinding, s, b)
      /\ currentEpoch' = With(currentEpoch, s, bindings[b].epoch)
      /\ lastAllocatedEpoch' = lastAllocatedEpoch
  BY DEF CommitMigration, CanCommitMigration, BasedOnCurrent, Superseding
<1>3. bindings' = [superseded EXCEPT ![b].status = "ACTIVE"]
  BY DEF CommitMigration, CanCommitMigration, BasedOnCurrent, Superseding
<1>4. \A x \in DOMAIN bindings :
        x = old <=> bindings[x].subject = s /\ bindings[x].status = "ACTIVE"
  BY <1>1, BindingIdAssumption DEF OneActiveBinding, Get, BindingTypeOK
<1>5. b # old
  BY <1>1, <1>2, <1>4
<1>6. \A x \in DOMAIN bindings :
        bindings'[x] = IF x = b THEN [bindings[x] EXCEPT !.status = "ACTIVE"]
                       ELSE IF x = old THEN [bindings[x] EXCEPT !.status = "SUPERSEDED"]
                       ELSE bindings[x]
  BY <1>1, <1>3, <1>5
<1>7. DOMAIN bindings' = DOMAIN bindings
  BY <1>3
<1> HIDE DEF old, superseded
<1>8. \A x \in DOMAIN bindings :
        /\ bindings'[x].subject = bindings[x].subject
        /\ bindings'[x].base = bindings[x].base
        /\ bindings'[x].epoch = bindings[x].epoch
        /\ x = b => bindings'[x].status = "ACTIVE"
        /\ x # b /\ x = old => bindings'[x].status = "SUPERSEDED"
        /\ x # b /\ x # old => bindings'[x].status = bindings[x].status
  <2> TAKE x \in DOMAIN bindings
  <2>1. bindings[x] \in Binding
    BY DEF BindingTypeOK
  <2>2. CASE x = b
    BY <1>6, <2>1, <2>2 DEF Binding
  <2>3. CASE x # b
    BY <1>6, <2>1, <2>3 DEF Binding
  <2> QED
    BY <2>2, <2>3
<1> QED
  BY <1>1, <1>2, <1>4, <1>5, <1>7, <1>8 DEF MigrationCommitted, With

---------------------------------------------------------------------------
(* No operation leaves the types of the four dictionaries.                 *)
LEMMA TypeOKStep == BindingInv /\ [BindingNext]_bindingCoreVars => BindingTypeOK'
<1> SUFFICES ASSUME BindingInv, [BindingNext]_bindingCoreVars
             PROVE  BindingTypeOK'
  OBVIOUS
<1> USE DEF BindingInv
<1>1. ASSUME NEW b \in BindingIds, NEW s \in Subjects, NEW l \in Locations, ProposeBinding(b, s, l, {})
      PROVE  BindingTypeOK'
  BY <1>1
     DEF BindingTypeOK, EvidenceTypeOK, Binding, BindingStatus, ProposeBinding, With, Get,
         NewBinding, NewEpoch, BaseEpoch
<1>2. ASSUME NEW b \in BindingIds, NEW s \in Subjects, NEW l \in Locations,
             ActivateInitialBinding(b, s, l, {})
      PROVE  BindingTypeOK'
  BY <1>2
     DEF BindingTypeOK, EvidenceTypeOK, Binding, BindingStatus, ActivateInitialBinding, With, Get,
         NewBinding, NewEpoch, BaseEpoch
<1>3. ASSUME NEW b \in BindingIds, BeginMigration(b)
      PROVE  BindingTypeOK'
  BY <1>3 DEF BindingTypeOK, EvidenceTypeOK, Binding, BindingStatus, BeginMigration, Get
<1>4. ASSUME NEW b \in BindingIds, NEW ids \in SUBSET EvidenceIds, NEW now \in Times,
             CommitMigration(b, ids, now)
      PROVE  BindingTypeOK'
  BY <1>4
     DEF BindingTypeOK, EvidenceTypeOK, Binding, BindingStatus, CommitMigration, CanCommitMigration, BasedOnCurrent,
         Superseding, With, Get
<1>5. ASSUME NEW i \in EvidenceIds, NEW e \in EvidenceRecords,
             RecordEvidence(i, e, DOMAIN bindings), UNCHANGED bindingVars
      PROVE  BindingTypeOK'
  BY <1>5
     DEF RecordEvidence, MayRecord, bindingVars, BindingTypeOK, EvidenceTypeOK, Binding,
         BindingStatus
<1>6. CASE UNCHANGED bindingCoreVars
  BY <1>6 DEF bindingCoreVars, BindingTypeOK, EvidenceTypeOK, Binding, BindingStatus
<1> QED
  BY <1>1, <1>2, <1>3, <1>4, <1>5, <1>6 DEF BindingNext, BindingStep
---------------------------------------------------------------------------
(* commit_migration and activate_initial_binding replace the holder of a   *)
(* subject and its pointer together.                                       *)
LEMMA OneActiveBindingStep == BindingInv /\ [BindingNext]_bindingCoreVars => OneActiveBinding'
<1> SUFFICES ASSUME BindingInv, [BindingNext]_bindingCoreVars
             PROVE  OneActiveBinding'
  OBVIOUS
<1> USE DEF BindingInv
<1>1. ASSUME NEW b \in BindingIds, NEW s \in Subjects, NEW l \in Locations, ProposeBinding(b, s, l, {})
      PROVE  OneActiveBinding'
  BY <1>1
     DEF OneActiveBinding, EpochsAllocatedOnce, BindingTypeOK, Binding, ProposeBinding, With, Get,
         NewBinding, NewEpoch, BaseEpoch
<1>2. ASSUME NEW b \in BindingIds, NEW s \in Subjects, NEW l \in Locations,
             ActivateInitialBinding(b, s, l, {})
      PROVE  OneActiveBinding'
  BY <1>2
     DEF OneActiveBinding, EpochsAllocatedOnce, BindingTypeOK, Binding, ActivateInitialBinding, With,
         Get, NewBinding, NewEpoch, BaseEpoch
<1>3. ASSUME NEW b \in BindingIds, BeginMigration(b)
      PROVE  OneActiveBinding'
  BY <1>3 DEF OneActiveBinding, EpochsAllocatedOnce, BindingTypeOK, Binding, BeginMigration, Get
<1>4. ASSUME NEW b \in BindingIds, NEW ids \in SUBSET EvidenceIds, NEW now \in Times,
             CommitMigration(b, ids, now)
      PROVE  OneActiveBinding'
  <2>1. MigrationCommitted(b)
    BY <1>4, CommitEffect
  <2> QED
    BY <2>1 DEF MigrationCommitted, OneActiveBinding
<1>5. CASE UNCHANGED bindingVars
  BY <1>5 DEF bindingVars, OneActiveBinding, EpochsAllocatedOnce, BindingTypeOK, Binding
<1> QED
  BY <1>1, <1>2, <1>3, <1>4, <1>5 DEF BindingNext, BindingStep, bindingCoreVars, bindingVars
---------------------------------------------------------------------------
(* propose_binding allocates an epoch no other binding of the subject has. *)
LEMMA EpochsAllocatedOnceStep == BindingInv /\ [BindingNext]_bindingCoreVars => EpochsAllocatedOnce'
<1> SUFFICES ASSUME BindingInv, [BindingNext]_bindingCoreVars
             PROVE  EpochsAllocatedOnce'
  OBVIOUS
<1> USE DEF BindingInv
<1>1. ASSUME NEW b \in BindingIds, NEW s \in Subjects, NEW l \in Locations, ProposeBinding(b, s, l, {})
      PROVE  EpochsAllocatedOnce'
  BY <1>1
     DEF EpochsAllocatedOnce, OneActiveBinding, BindingTypeOK, Binding, ProposeBinding, With, Get,
         NewBinding, NewEpoch, BaseEpoch
<1>2. ASSUME NEW b \in BindingIds, NEW s \in Subjects, NEW l \in Locations,
             ActivateInitialBinding(b, s, l, {})
      PROVE  EpochsAllocatedOnce'
  BY <1>2
     DEF EpochsAllocatedOnce, OneActiveBinding, BindingTypeOK, Binding, ActivateInitialBinding, With,
         Get, NewBinding, NewEpoch, BaseEpoch
<1>3. ASSUME NEW b \in BindingIds, BeginMigration(b)
      PROVE  EpochsAllocatedOnce'
  BY <1>3 DEF EpochsAllocatedOnce, OneActiveBinding, BindingTypeOK, Binding, BeginMigration, Get
<1>4. ASSUME NEW b \in BindingIds, NEW ids \in SUBSET EvidenceIds, NEW now \in Times,
             CommitMigration(b, ids, now)
      PROVE  EpochsAllocatedOnce'
  <2>1. MigrationCommitted(b)
    BY <1>4, CommitEffect
  <2> QED
    BY <2>1, SMTT(30) DEF MigrationCommitted, EpochsAllocatedOnce
<1>5. CASE UNCHANGED bindingVars
  BY <1>5 DEF bindingVars, EpochsAllocatedOnce, OneActiveBinding, BindingTypeOK, Binding
<1> QED
  BY <1>1, <1>2, <1>3, <1>4, <1>5 DEF BindingNext, BindingStep, bindingCoreVars, bindingVars
---------------------------------------------------------------------------
(* A second commit from one base epoch fails the comparison with the       *)
(* current epoch.                                                          *)
LEMMA OneWinnerPerBaseStep == BindingInv /\ [BindingNext]_bindingCoreVars => OneWinnerPerBase'
<1> SUFFICES ASSUME BindingInv, [BindingNext]_bindingCoreVars
             PROVE  OneWinnerPerBase'
  OBVIOUS
<1> USE DEF BindingInv
<1>1. ASSUME NEW b \in BindingIds, NEW s \in Subjects, NEW l \in Locations, ProposeBinding(b, s, l, {})
      PROVE  OneWinnerPerBase'
  BY <1>1
     DEF OneWinnerPerBase, CommittedFormAChain, Committed, OneActiveBinding, BindingTypeOK, Binding,
         Get, ProposeBinding, With, NewBinding, NewEpoch, BaseEpoch
<1>2. ASSUME NEW b \in BindingIds, NEW s \in Subjects, NEW l \in Locations,
             ActivateInitialBinding(b, s, l, {})
      PROVE  OneWinnerPerBase'
  BY <1>2
     DEF OneWinnerPerBase, CommittedFormAChain, Committed, OneActiveBinding, BindingTypeOK, Binding,
         Get, ActivateInitialBinding, With, NewBinding, NewEpoch, BaseEpoch
<1>3. ASSUME NEW b \in BindingIds, BeginMigration(b)
      PROVE  OneWinnerPerBase'
  BY <1>3
     DEF OneWinnerPerBase, CommittedFormAChain, Committed, OneActiveBinding, BindingTypeOK, Binding,
         Get, BeginMigration
<1>4. ASSUME NEW b \in BindingIds, NEW ids \in SUBSET EvidenceIds, NEW now \in Times,
             CommitMigration(b, ids, now)
      PROVE  OneWinnerPerBase'
  <2>1. MigrationCommitted(b)
    BY <1>4, CommitEffect
  <2>2. \A x \in DOMAIN bindings : x # b => (Committed(x)' <=> Committed(x))
    BY <2>1 DEF MigrationCommitted, Committed
  <2>3. \A x \in DOMAIN bindings :
          bindings[x].subject = bindings[b].subject /\ Committed(x) => bindings[x].base # bindings[b].base
    BY <2>1 DEF MigrationCommitted, CommittedFormAChain, BindingTypeOK, Binding, Get
  <2> QED
    BY <2>1, <2>2, <2>3 DEF MigrationCommitted, OneWinnerPerBase
<1>5. CASE UNCHANGED bindingVars
  BY <1>5
     DEF bindingVars, OneWinnerPerBase, CommittedFormAChain, Committed, OneActiveBinding,
         BindingTypeOK, Binding, Get
<1> QED
  BY <1>1, <1>2, <1>3, <1>4, <1>5 DEF BindingNext, BindingStep, bindingCoreVars, bindingVars
---------------------------------------------------------------------------
(* A commit links the new holder to the epoch it replaces and leaves the   *)
(* older links alone.                                                      *)
LEMMA CommittedFormAChainStep == BindingInv /\ [BindingNext]_bindingCoreVars => CommittedFormAChain'
<1> SUFFICES ASSUME BindingInv, [BindingNext]_bindingCoreVars
             PROVE  CommittedFormAChain'
  OBVIOUS
<1> USE DEF BindingInv
<1>1. ASSUME NEW b \in BindingIds, NEW s \in Subjects, NEW l \in Locations, ProposeBinding(b, s, l, {})
      PROVE  CommittedFormAChain'
  <2>1. /\ DOMAIN bindings' = DOMAIN bindings \cup {b} /\ bindings'[b].status = "PROPOSED"
        /\ \A x \in DOMAIN bindings : bindings'[x] = bindings[x]
        /\ bindings'[b].base = Get(currentEpoch, bindings'[b].subject, 0)
        /\ bindings'[b].base \in Int
        /\ currentEpoch' = currentEpoch
    BY <1>1 DEF ProposeBinding, With, NewBinding, BaseEpoch, Get, BindingTypeOK
  <2> QED
    BY <2>1 DEF CommittedFormAChain, Committed, Get
<1>2. ASSUME NEW b \in BindingIds, NEW s \in Subjects, NEW l \in Locations,
             ActivateInitialBinding(b, s, l, {})
      PROVE  CommittedFormAChain'
  <2>1. /\ DOMAIN bindings' = DOMAIN bindings \cup {b} /\ bindings'[b].status = "ACTIVE"
        /\ bindings'[b].subject = s /\ bindings'[b].base = 0
        /\ \A x \in DOMAIN bindings : bindings'[x] = bindings[x] /\ bindings[x].base \in Nat
        /\ s \notin DOMAIN currentEpoch /\ DOMAIN currentEpoch' = DOMAIN currentEpoch \cup {s}
        /\ \A q \in DOMAIN currentEpoch : currentEpoch'[q] = currentEpoch[q]
        /\ currentEpoch'[s] = NewEpoch(s) /\ NewEpoch(s) \in Nat /\ NewEpoch(s) > 0
    BY <1>2
       DEF ActivateInitialBinding, OneActiveBinding, With, Get, NewBinding, NewEpoch,
           BaseEpoch,
                BindingTypeOK, Binding
  <2>2. \A x \in DOMAIN bindings : bindings[x].subject = s => bindings[x].base = 0 /\ ~Committed(x)
    BY <2>1 DEF CommittedFormAChain, Get
  <2>3. ASSUME NEW x \in DOMAIN bindings'
        PROVE  /\ bindings'[x].base <= Get(currentEpoch', bindings'[x].subject, 0)
               /\ Committed(x)' => bindings'[x].base < Get(currentEpoch', bindings'[x].subject, 0)
    BY <2>1, <2>2 DEF CommittedFormAChain, Committed, Get
  <2>4. ASSUME NEW x \in DOMAIN bindings', bindings'[x].status = "SUPERSEDED"
        PROVE  \E c \in DOMAIN bindings' : /\ bindings'[c].subject = bindings'[x].subject
                                           /\ bindings'[c].base = bindings'[x].epoch
                                           /\ Committed(c)'
    BY <2>1, <2>4 DEF CommittedFormAChain, Committed
  <2> QED
    BY <2>3, <2>4 DEF CommittedFormAChain
<1>3. ASSUME NEW b \in BindingIds, BeginMigration(b)
      PROVE  CommittedFormAChain'
  <2>1. /\ DOMAIN bindings' = DOMAIN bindings /\ currentEpoch' = currentEpoch
        /\ \A x \in DOMAIN bindings :
             /\ bindings'[x].subject = bindings[x].subject /\ bindings'[x].base = bindings[x].base
             /\ bindings'[x].epoch = bindings[x].epoch
             /\ bindings'[x].status # bindings[x].status
                  => bindings[x].status = "PROPOSED" /\ bindings'[x].status = "MIGRATING"
    BY <1>3 DEF BeginMigration, BindingTypeOK, Binding
  <2>2. \A x \in DOMAIN bindings : Committed(x)' <=> Committed(x)
    BY <2>1 DEF Committed
  <2>3. ASSUME NEW x \in DOMAIN bindings
        PROVE  /\ bindings'[x].base <= Get(currentEpoch', bindings'[x].subject, 0)
               /\ Committed(x)' => bindings'[x].base < Get(currentEpoch', bindings'[x].subject, 0)
    BY <2>1, <2>2 DEF CommittedFormAChain
  <2>4. ASSUME NEW x \in DOMAIN bindings, bindings'[x].status = "SUPERSEDED"
        PROVE  \E c \in DOMAIN bindings : /\ bindings'[c].subject = bindings'[x].subject
                                          /\ bindings'[c].base = bindings'[x].epoch
                                          /\ Committed(c)'
    BY <2>1, <2>2, <2>4 DEF CommittedFormAChain
  <2> QED
    BY <2>1, <2>3, <2>4 DEF CommittedFormAChain
<1>4. ASSUME NEW b \in BindingIds, NEW ids \in SUBSET EvidenceIds, NEW now \in Times,
             CommitMigration(b, ids, now)
      PROVE  CommittedFormAChain'
  <2> DEFINE s == bindings[b].subject
  <2>1. MigrationCommitted(b)
    BY <1>4, CommitEffect
  <2>2. \A x \in DOMAIN bindings : Committed(x)' <=> Committed(x) \/ x = b
    BY <2>1 DEF MigrationCommitted, Committed
  <2>3. \A q : q # s => Get(currentEpoch', q, 0) = Get(currentEpoch, q, 0)
    BY <2>1 DEF MigrationCommitted, Get
  <2>4. /\ Get(currentEpoch', s, 0) = bindings[b].epoch
        /\ bindings[b].base = Get(currentEpoch, s, 0)
        /\ bindings[b].base < bindings[b].epoch
        /\ bindings[b].base \in Nat /\ bindings[b].epoch \in Nat
    BY <2>1 DEF MigrationCommitted, Get, EpochsAllocatedOnce, BindingTypeOK, Binding
  <2>5. ASSUME NEW x \in DOMAIN bindings', Committed(x)'
        PROVE  bindings'[x].base < Get(currentEpoch', bindings'[x].subject, 0)
    <3>1. x \in DOMAIN bindings /\ bindings[x].base \in Nat
          /\ bindings'[x].subject = bindings[x].subject /\ bindings'[x].base = bindings[x].base
      BY <2>1 DEF MigrationCommitted, BindingTypeOK, Binding
    <3>2. CASE x = b
      BY <2>4, <3>1, <3>2
    <3>3. CASE x # b
      <4>1. bindings[x].base < Get(currentEpoch, bindings[x].subject, 0)
        BY <2>2, <2>5, <3>1, <3>3 DEF CommittedFormAChain
      <4> QED
        BY <2>3, <2>4, <3>1, <4>1
    <3> QED
      BY <3>2, <3>3
  <2>6. ASSUME NEW x \in DOMAIN bindings', bindings'[x].status = "SUPERSEDED"
        PROVE  \E c \in DOMAIN bindings' : /\ bindings'[c].subject = bindings'[x].subject
                                           /\ bindings'[c].base = bindings'[x].epoch
                                           /\ Committed(c)'
    <3>1. CASE bindings[x].status = "SUPERSEDED"
      <4>1. PICK c \in DOMAIN bindings : /\ bindings[c].subject = bindings[x].subject
                                         /\ bindings[c].base = bindings[x].epoch
                                         /\ Committed(c)
        BY <2>1, <3>1 DEF MigrationCommitted, CommittedFormAChain
      <4> QED
        BY <2>1, <2>2, <4>1 DEF MigrationCommitted
    <3>2. CASE bindings[x].status # "SUPERSEDED"
      <4>1. x # b /\ bindings[x].subject = s /\ bindings[x].status = "ACTIVE"
        BY <2>1, <2>6, <3>2 DEF MigrationCommitted
      <4>2. Get(currentEpoch, s, 0) = bindings[x].epoch
        BY <2>1, <4>1 DEF MigrationCommitted, OneActiveBinding, Get
      <4> QED
        BY <2>1, <2>2, <2>4, <4>1, <4>2 DEF MigrationCommitted
    <3> QED
      BY <3>1, <3>2
  <2>7. ASSUME NEW x \in DOMAIN bindings'
        PROVE  bindings'[x].base <= Get(currentEpoch', bindings'[x].subject, 0)
    <3>1. /\ x \in DOMAIN bindings /\ bindings[x].base \in Nat
          /\ bindings'[x].subject = bindings[x].subject /\ bindings'[x].base = bindings[x].base
      BY <2>1 DEF MigrationCommitted, BindingTypeOK, Binding
    <3>2. bindings[x].base <= Get(currentEpoch, bindings[x].subject, 0)
      BY <3>1 DEF CommittedFormAChain
    <3> QED
      BY <2>3, <2>4, <3>1, <3>2
  <2> QED
    BY <2>5, <2>6, <2>7 DEF CommittedFormAChain
<1>5. CASE UNCHANGED bindingVars
  BY <1>5
     DEF bindingVars, CommittedFormAChain, Committed, EpochsAllocatedOnce, OneActiveBinding,
         BindingTypeOK, Binding, Get
<1> QED
  BY <1>1, <1>2, <1>3, <1>4, <1>5 DEF BindingNext, BindingStep, bindingCoreVars, bindingVars

---------------------------------------------------------------------------
(* The empty core satisfies the inductive invariant.                       *)
LEMMA BindingsInitially == BindingCoreInit => BindingInv
BY DEF BindingCoreInit, EvidenceInit, BindingInit, BindingInv, BindingTypeOK, EvidenceTypeOK, OneActiveBinding,
       EpochsAllocatedOnce, OneWinnerPerBase, CommittedFormAChain

(* The inductive step: the conjuncts of BindingInv one by one.                   *)
LEMMA BindingsInductive == BindingInv /\ [BindingNext]_bindingCoreVars => BindingInv'
BY TypeOKStep, OneActiveBindingStep, EpochsAllocatedOnceStep, OneWinnerPerBaseStep,
   CommittedFormAChainStep DEF BindingInv

(* The inductive invariant holds in every reachable state.                 *)
THEOREM BindingInvariant == BindingSpec => []BindingInv
BY BindingsInitially, BindingsInductive, PTL DEF BindingSpec

(* The four dictionaries stay well typed.                                  *)
THEOREM BindingTypeCorrect == BindingSpec => []BindingTypeOK
BY BindingInvariant, PTL DEF BindingInv

(* A subject is held by its current binding and by no other.               *)
THEOREM SingleHolder == BindingSpec => []OneActiveBinding
BY BindingInvariant, PTL DEF BindingInv

(* No epoch of a subject is allocated twice.                               *)
THEOREM EpochsUnique == BindingSpec => []EpochsAllocatedOnce
BY BindingInvariant, PTL DEF BindingInv

(* Of competing migrations from one epoch at most one ever commits.        *)
THEOREM SingleWinner == BindingSpec => []OneWinnerPerBase
BY BindingInvariant, PTL DEF BindingInv

(* The bindings a subject has had are linked by their epochs.              *)
THEOREM Chain == BindingSpec => []CommittedFormAChain
BY BindingInvariant, PTL DEF BindingInv

(* What the oracle asserts of bindings always holds.                       *)
THEOREM BindingOracleNeverFails == BindingSpec => []BindingOracleHolds
BY BindingInvariant, PTL DEF BindingInv, BindingOracleHolds

(* The holders of a subject form one unbranched history.                   *)
THEOREM LinearHistory == BindingSpec => []HistoryIsLinear
BY BindingInvariant, PTL DEF BindingInv, HistoryIsLinear

---------------------------------------------------------------------------
(* Epochs do not go back and a fenced candidate is fenced for good.        *)
THEOREM StaleForever == BindingSpec => StaleCandidatesStayDead
<1> DEFINE StaysFenced ==
      /\ \A s \in DOMAIN currentEpoch :
           s \in DOMAIN currentEpoch' /\ currentEpoch[s] <= currentEpoch'[s]
      /\ \A b \in DOMAIN bindings :
           /\ b \in DOMAIN bindings'
           /\ Stale(b) => /\ Stale(b)'
                          /\ bindings'[b].status = "ACTIVE" => bindings[b].status = "ACTIVE"
           /\ bindings[b].status = "SUPERSEDED" => bindings'[b].status = "SUPERSEDED"
<1>1. BindingInv /\ BindingInv' /\ [BindingNext]_bindingCoreVars => [StaysFenced]_bindingCoreVars
  <2> SUFFICES ASSUME BindingInv, BindingInv', BindingNext
               PROVE  StaysFenced
    OBVIOUS
  <2> USE DEF BindingInv
  <2>0. \A b \in DOMAIN bindings : /\ bindings[b].base \in Nat /\ bindings[b].epoch \in Nat
                                  /\ bindings[b].base < bindings[b].epoch
    BY DEF BindingTypeOK, Binding, EpochsAllocatedOnce
  <2>1. ASSUME NEW b \in BindingIds, NEW s \in Subjects, NEW l \in Locations,
               ProposeBinding(b, s, l, {})
        PROVE  StaysFenced
    BY <2>1 DEF ProposeBinding, With, BindingTypeOK, Stale
  <2>2. ASSUME NEW b \in BindingIds, NEW s \in Subjects, NEW l \in Locations,
               ActivateInitialBinding(b, s, l, {})
        PROVE  StaysFenced
    <3>1. /\ s \notin DOMAIN currentEpoch
          /\ \A x \in DOMAIN bindings : x \in DOMAIN bindings' /\ bindings'[x] = bindings[x]
          /\ \A q \in DOMAIN currentEpoch : q \in DOMAIN currentEpoch' /\ currentEpoch'[q] = currentEpoch[q]
          /\ \A q : q # s /\ q \notin DOMAIN currentEpoch => q \notin DOMAIN currentEpoch'
          /\ s \in DOMAIN currentEpoch' /\ currentEpoch'[s] = NewEpoch(s)
      BY <2>2 DEF ActivateInitialBinding, With, OneActiveBinding
    <3>2. \A x \in DOMAIN bindings : bindings[x].subject = s => bindings[x].base < NewEpoch(s)
      BY <2>0, <3>1 DEF NewEpoch, BaseEpoch, Get, EpochsAllocatedOnce, BindingTypeOK
    <3>3. \A x \in DOMAIN bindings : Stale(x) => Stale(x)'
      BY <2>0, <3>1, <3>2 DEF Stale, Get
    <3> QED
      BY <3>1, <3>3 DEF BindingTypeOK
  <2>3. ASSUME NEW b \in BindingIds, BeginMigration(b)
        PROVE  StaysFenced
    BY <2>3 DEF BeginMigration, BindingTypeOK, Binding, Stale
  <2>4. ASSUME NEW b \in BindingIds, NEW ids \in SUBSET EvidenceIds, NEW now \in Times,
               CommitMigration(b, ids, now)
        PROVE  StaysFenced
    <3>1. MigrationCommitted(b)
      BY <2>4, CommitEffect
    <3>2. \A s \in DOMAIN currentEpoch :
            s \in DOMAIN currentEpoch' /\ currentEpoch[s] <= currentEpoch'[s]
      BY <2>0, <3>1 DEF MigrationCommitted, Get, BindingTypeOK
    <3>3. ASSUME NEW x \in DOMAIN bindings, Stale(x)
          PROVE  Stale(x)'
      <4>1. CASE bindings[x].subject # bindings[b].subject
        BY <3>1, <3>3, <4>1 DEF MigrationCommitted, Stale, Get
      <4>2. CASE bindings[x].subject = bindings[b].subject
        <5>1. bindings[x].base # bindings[b].epoch
          BY <2>0, <3>1, <4>2 DEF MigrationCommitted, CommittedFormAChain
        <5> QED
          BY <3>1, <4>2, <5>1 DEF MigrationCommitted, Stale, Get
      <4> QED
        BY <4>1, <4>2
    <3> QED
      BY <3>1, <3>2, <3>3 DEF MigrationCommitted, Stale
  <2>5. CASE UNCHANGED bindingVars
    BY <2>5 DEF bindingVars, Stale, BindingTypeOK
  <2> QED
    BY <2>1, <2>2, <2>3, <2>4, <2>5 DEF BindingNext, BindingStep
<1> QED
  BY <1>1, BindingInvariant, PTL DEF BindingSpec, StaleCandidatesStayDead
=============================================================================
