--------------------------- MODULE StateLineage ---------------------------
(***************************************************************************)
(* The causal graph of the semantic core and the reusable State hanging    *)
(* off it: programs, sessions, continuations, phases, States and replicas  *)
(* of continuity/core_base.py.  Who may consume a State depends on where   *)
(* it was made (the continuation, and the attempt and phase that produced  *)
(* it), on everything it was derived from, and on what has become of those *)
(* attempts since.                                                         *)
(***************************************************************************)
EXTENDS AttemptFencing

CONSTANTS
  ProgramIds, SessionIds, PhaseIds, StateIds, ReplicaIds,
  Callers,                \* what the callers of a behaviour do (see below)
  SemanticValidity(_, _)  \* the semantic_validity callback on a state and a context

ProgramStatus == {"CREATED", "RUNNING", "COMPLETED", "FAILED", "CANCELLED"}
TerminalProgram == {"COMPLETED", "FAILED", "CANCELLED"}
ContinuationLifecycle ==
  {"CREATED", "ACTIVE", "WAITING", "SPECULATIVE", "JOINING", "TERMINAL", "ABANDONED"}
PhaseStatus == {"CREATED", "RUNNING", "COMPLETED", "FAILED", "CANCELLED"}
TerminalPhase == {"COMPLETED", "FAILED", "CANCELLED"}
StateLifecycle == {"ACTIVE", "WAITING", "SPECULATIVE", "TERMINAL"}
StateValidity == {"VALID", "INVALID"}
ReplicaStatus ==
  {"MATERIALIZING", "VALID", "STALE", "TRANSFERRING", "EVICTING", "LOST", "INVALID"}

(* The callers of the core in one behaviour: bounds on the objects of each *)
(* kind they create, and the statuses they set or report.                  *)
CallerProfile ==
  [sessions : Nat, continuations : Nat, requests : Nat, attempts : Nat, outputs : Nat,
   evidence : Nat, phases : Nat, states : Nat, programStatus : SUBSET ProgramStatus,
   lifecycles : SUBSET ContinuationLifecycle, executions : SUBSET ExecutionStatus,
   phaseStatus : SUBSET PhaseStatus, validity : SUBSET StateValidity,
   replicaStatus : SUBSET ReplicaStatus]

ASSUME LineageAssumption ==
  /\ NULL \notin PhaseIds \cup RequestIds \cup StateIds
  /\ Callers \subseteq CallerProfile

VARIABLES
  programs,       \* self.programs: identifier |-> ProgramStatus
  sessions,       \* self.sessions: identifier |-> its program
  continuations,  \* self.continuations: identifier |-> Continuation
  phases,         \* self.phases: identifier |-> Phase
  states,         \* self.states: identifier |-> ReusableState
  replicas,       \* self.replicas: identifier |-> StateReplica
  callers         \* what the callers do in this behaviour

graphVars == <<programs, sessions, continuations>>
lineageVars == <<programs, sessions, continuations, phases, states, replicas>>

Continuation ==
  [session : SessionIds, parents : SUBSET ContinuationIds, lifecycle : ContinuationLifecycle]
Phase == [attempt : AttemptIds, ordinal : Nat, status : PhaseStatus]
ReusableState ==
  [origin : {"continuation", "request", "attempt", "phase"},
   continuation : ContinuationIds, request : RequestIds \cup {NULL},
   attempt : AttemptIds \cup {NULL}, phase : PhaseIds \cup {NULL},
   lifecycle : StateLifecycle, validity : StateValidity, derived : SUBSET StateIds]
StateReplica == [state : StateIds, status : ReplicaStatus]

(* The identifiers this module's collections hold.                         *)
LineageIds ==
  UNION {DOMAIN programs, DOMAIN sessions, DOMAIN continuations, DOMAIN phases,
         DOMAIN states, DOMAIN replicas}

(* _unique for a core without bindings and events.                         *)
Free(id) == Unique(id, LineageIds)

---------------------------------------------------------------------------
(* The continuation graph conts: a set that contains the parents of its    *)
(* members, and is_ancestor, which walks from d along the parents.         *)
ParentClosed(S, conts) == \A c \in S : conts[c].parents \subseteq S
IsAncestor(a, d, conts) ==
  \A S \in SUBSET DOMAIN conts : d \in S /\ ParentClosed(S, conts) => a \in S

(* The lifecycles of the continuations that descend from origin.           *)
DescendantLifecycles(origin, conts) ==
  {conts[c].lifecycle : c \in {d \in DOMAIN conts : IsAncestor(origin, d, conts)}}

(* The lifecycle of a State made in continuation origin.                   *)
DerivedLifecycle(origin, conts) ==
  LET live == DescendantLifecycles(origin, conts)
  IN IF "ACTIVE" \in live THEN "ACTIVE"
     ELSE IF "WAITING" \in live THEN "WAITING"
     ELSE IF "SPECULATIVE" \in live THEN "SPECULATIVE"
     ELSE "TERMINAL"

(* _refresh_state_lifecycles over the graph conts.                         *)
Refreshed(sts, conts) ==
  [s \in DOMAIN sts |->
     [sts[s] EXCEPT !.lifecycle = DerivedLifecycle(sts[s].continuation, conts)]]

---------------------------------------------------------------------------
CreateProgram(p) ==
  /\ Free(p)
  /\ programs' = Put(programs, p, "CREATED")
  /\ UNCHANGED <<sessions, continuations, phases, states, replicas, vars>>

SetProgramStatus(p, status) ==
  /\ p \in DOMAIN programs
  /\ programs[p] \in TerminalProgram => status = programs[p]
  /\ programs' = [programs EXCEPT ![p] = status]
  /\ UNCHANGED <<sessions, continuations, phases, states, replicas, vars>>

CreateSession(s, p) ==
  /\ Free(s)
  /\ p \in DOMAIN programs
  /\ sessions' = Put(sessions, s, p)
  /\ UNCHANGED <<programs, continuations, phases, states, replicas, vars>>

(* The parents exist, in the same session: with a new identifier no cycle  *)
(* can arise, so the cycle check of the code never fires.                  *)
ParentsInSession(parents, s) ==
  /\ parents \subseteq DOMAIN continuations
  /\ \A p \in parents : continuations[p].session = s

CreateContinuation(c, s, parents, lifecycle) ==
  /\ Free(c)
  /\ s \in DOMAIN sessions
  /\ ParentsInSession(parents, s)
  /\ continuations' =
       Put(continuations, c, [session |-> s, parents |-> parents, lifecycle |-> lifecycle])
  /\ states' = Refreshed(states, continuations')
  /\ UNCHANGED <<programs, sessions, phases, replicas, vars>>

SetContinuationLifecycle(c, lifecycle) ==
  /\ c \in DOMAIN continuations
  /\ continuations[c].lifecycle \in {"TERMINAL", "ABANDONED"}
       => lifecycle = continuations[c].lifecycle
  /\ continuations' = [continuations EXCEPT ![c].lifecycle = lifecycle]
  /\ states' = Refreshed(states, continuations')
  /\ UNCHANGED <<programs, sessions, phases, replicas, vars>>

(* Mutant: the states keep the lifecycle they had before the hand-over.    *)
ResumeUnrefreshed(waiting, child) ==
  /\ waiting \in DOMAIN continuations
  /\ continuations[waiting].lifecycle = "WAITING"
  /\ Free(child)
  /\ continuations' =
       Put([continuations EXCEPT ![waiting].lifecycle = "TERMINAL"], child,
           [session |-> continuations[waiting].session, parents |-> {waiting},
            lifecycle |-> "ACTIVE"])
  /\ UNCHANGED <<programs, sessions, phases, states, replicas, vars>>

(* The waiting continuation hands over to an ACTIVE child and terminates.  *)
ResumeAfterWait(waiting, child) ==
  /\ waiting \in DOMAIN continuations
  /\ continuations[waiting].lifecycle = "WAITING"
  /\ Free(child)
  /\ continuations' =
       Put([continuations EXCEPT ![waiting].lifecycle = "TERMINAL"], child,
           [session |-> continuations[waiting].session, parents |-> {waiting},
            lifecycle |-> "ACTIVE"])
  /\ states' = Refreshed(states, continuations')
  /\ UNCHANGED <<programs, sessions, phases, replicas, vars>>

---------------------------------------------------------------------------
PhasesOf(a) == {p \in DOMAIN phases : phases[p].attempt = a}

Ordinals(a) == {phases[p].ordinal : p \in PhasesOf(a)}

NextOrdinal(a) == 1 + Highest({0} \cup Ordinals(a))

(* An explicit ordinal has to be the next one, so it adds nothing.         *)
CreatePhase(p, a) ==
  /\ Free(p)
  /\ a \in DOMAIN attempts
  /\ phases' = Put(phases, p, [attempt |-> a, ordinal |-> NextOrdinal(a), status |-> "CREATED"])
  /\ UNCHANGED <<programs, sessions, continuations, states, replicas, vars>>

(* A superseded attempt cannot complete a phase; complete_phase is the     *)
(* call with COMPLETED.                                                    *)
SetPhaseStatus(p, status) ==
  /\ p \in DOMAIN phases
  /\ phases[p].status \in TerminalPhase => status = phases[p].status
  /\ status = "COMPLETED" => attempts[phases[p].attempt].authority # "SUPERSEDED"
  /\ phases[p].status = "RUNNING" => status # "CREATED"
  /\ phases' = [phases EXCEPT ![p].status = status]
  /\ UNCHANGED <<programs, sessions, continuations, states, replicas, vars>>

---------------------------------------------------------------------------
(* What _resolve_origin answers for each kind of origin, provided the      *)
(* origin may produce State at all.                                        *)
ContinuationOrigin(c) ==
  [origin |-> "continuation", continuation |-> c, request |-> NULL, attempt |-> NULL,
   phase |-> NULL]
RequestOrigin(r) ==
  [origin |-> "request", continuation |-> requests[r].continuation, request |-> r,
   attempt |-> requests[r].committed, phase |-> NULL]
AttemptOrigin(a) ==
  LET r == attempts[a].request
  IN [origin |-> "attempt", continuation |-> requests[r].continuation, request |-> r,
      attempt |-> a, phase |-> NULL]
PhaseOrigin(p) == [AttemptOrigin(phases[p].attempt) EXCEPT !.origin = "phase", !.phase = p]

(* The origins _resolve_origin accepts in the present state.               *)
ResolvedOrigins ==
  {ContinuationOrigin(c) : c \in DOMAIN continuations}
    \cup {RequestOrigin(r) : r \in {q \in DOMAIN requests :
            requests[q].status = "COMPLETED" /\ requests[q].committed # NULL}}
    \cup {AttemptOrigin(a) : a \in {b \in DOMAIN attempts :
            attempts[b].authority # "SUPERSEDED"}}
    \cup {PhaseOrigin(p) : p \in {x \in DOMAIN phases :
            /\ phases[x].status = "COMPLETED"
            /\ attempts[phases[x].attempt].authority # "SUPERSEDED"}}

(* The new State of origin o may be derived from s: s comes from the same  *)
(* causal path and, if one attempt made both in phases, from an earlier    *)
(* phase.                                                                  *)
MayDependOn(s, o) ==
  /\ IsAncestor(states[s].continuation, o.continuation, continuations)
  /\ o.phase # NULL /\ states[s].phase # NULL /\ states[s].attempt = o.attempt
       => phases[states[s].phase].ordinal < phases[o.phase].ordinal

(* The dependencies exist already, so the cycle check never fires.         *)
CreateState(s, o, derived) ==
  /\ Free(s)
  /\ o \in ResolvedOrigins
  /\ derived \subseteq DOMAIN states
  /\ \A d \in derived : MayDependOn(d, o)
  /\ states' = Refreshed(
       Put(states, s, [origin |-> o.origin, continuation |-> o.continuation,
                       request |-> o.request, attempt |-> o.attempt, phase |-> o.phase,
                       lifecycle |-> "TERMINAL", validity |-> "VALID", derived |-> derived]),
       continuations)
  /\ UNCHANGED <<programs, sessions, continuations, phases, replicas, vars>>

(* Mutant: INVALID is not final.                                           *)
AnyValidity(was, validity) == TRUE

MayBeDeclared(was, validity) == was = "INVALID" => validity = "INVALID"

SetStateValidity(s, validity) ==
  /\ s \in DOMAIN states
  /\ MayBeDeclared(states[s].validity, validity)
  /\ states' = [states EXCEPT ![s].validity = validity]
  /\ UNCHANGED <<programs, sessions, continuations, phases, replicas, vars>>

AddReplica(i, s, status) ==
  /\ Free(i)
  /\ s \in DOMAIN states
  /\ replicas' = Put(replicas, i, [state |-> s, status |-> status])
  /\ UNCHANGED <<programs, sessions, continuations, phases, states, vars>>

SetReplicaStatus(i, status) ==
  /\ i \in DOMAIN replicas
  /\ replicas' = [replicas EXCEPT ![i].status = status]
  /\ UNCHANGED <<programs, sessions, continuations, phases, states, vars>>

---------------------------------------------------------------------------
(* _context_consistent: the identifiers of an ExecutionContext name one    *)
(* path of the graph down to an attempt that holds its request, and maybe  *)
(* to a phase of it that has started.                                      *)
ContextConsistent(ctx) ==
  /\ ctx.program \in DOMAIN programs
  /\ ctx.session \in DOMAIN sessions /\ sessions[ctx.session] = ctx.program
  /\ ctx.continuation \in DOMAIN continuations
  /\ continuations[ctx.continuation].session = ctx.session
  /\ ctx.request \in DOMAIN requests /\ requests[ctx.request].continuation = ctx.continuation
  /\ ctx.attempt \in DOMAIN attempts /\ attempts[ctx.attempt].request = ctx.request
  /\ requests[ctx.request].current = ctx.attempt
  /\ attempts[ctx.attempt].authority = "CURRENT"
  /\ ctx.phase # NULL =>
       /\ ctx.phase \in PhasesOf(ctx.attempt)
       /\ phases[ctx.phase].status \in {"RUNNING", "COMPLETED"}

(* Mutant: a State of an attempt that has not committed is accepted as     *)
(* long as the attempt has not been superseded.                            *)
UnlessSuperseded(x, ctx) == attempts[x.attempt].authority # "SUPERSEDED"

(* The attempt that produced x has not been superseded; it is the one its  *)
(* request committed or, until the request completes, the consumer itself. *)
ProducerAccepted(x, ctx) ==
  /\ attempts[x.attempt].authority # "SUPERSEDED"
  /\ IF x.request # NULL /\ requests[x.request].status = "COMPLETED"
       THEN requests[x.request].committed = x.attempt
       ELSE x.attempt = ctx.attempt /\ attempts[x.attempt].authority = "CURRENT"

(* The tests of _state_compatible_recursive on one State.                  *)
LocallyCompatible(s, ctx) ==
  LET x == states[s] IN
    /\ x.validity = "VALID"
    /\ IsAncestor(x.continuation, ctx.continuation, continuations)
    /\ x.attempt # NULL => ProducerAccepted(x, ctx)
    /\ x.phase # NULL /\ x.attempt = ctx.attempt =>
         /\ ctx.phase # NULL
         /\ phases[x.phase].ordinal < phases[ctx.phase].ordinal
    /\ SemanticValidity(s, ctx)

(* state_compatible: the recursion over derived_from.                      *)
StateCompatible(s, ctx) ==
  LET compatible[x \in DOMAIN states] ==
        LocallyCompatible(x, ctx) /\ \A d \in states[x].derived : compatible[d]
  IN ContextConsistent(ctx) /\ s \in DOMAIN states /\ compatible[s]

(* can_consume_state.                                                      *)
CanConsumeState(s, i, ctx, ids, now) ==
  /\ i \in DOMAIN replicas
  /\ replicas[i].state = s
  /\ replicas[i].status = "VALID"
  /\ StateCompatible(s, ctx)
  /\ RequireEvidence("consume_state", ids, now, {<<"state", s>>, <<"replica", i>>}, NULL)

---------------------------------------------------------------------------
LineageInit ==
  /\ programs = << >>
  /\ sessions = << >>
  /\ continuations = << >>
  /\ phases = << >>
  /\ states = << >>
  /\ replicas = << >>
  /\ callers \in Callers

CoreInit == Init /\ LineageInit

(* The callers create another object of a kind.                            *)
Another(kind, map) == Cardinality(DOMAIN map) < callers[kind]

(* The operations of AttemptFencing in a core that also has a graph.       *)
RequestStep ==
  /\ \/ /\ Another("requests", requests)
        /\ \E r \in RequestIds, c \in DOMAIN continuations : CreateRequest(r, c, LineageIds)
     \/ /\ Another("attempts", attempts)
        /\ \E a \in AttemptIds, r \in RequestIds : StartAttempt(a, r, LineageIds)
     \/ \E a \in AttemptIds, status \in callers.executions : SetAttemptExecution(a, status)
     \/ /\ Another("outputs", outputs)
        /\ \E o \in OutputIds, a \in AttemptIds, terminal \in BOOLEAN,
              ids \in SUBSET EvidenceIds : CreateOutput(o, a, terminal, ids, LineageIds)
     \/ \E r \in RequestIds, o \in OutputIds, now \in Times : FinalizeRequest(r, o, now)
     \/ /\ Another("evidence", evidence)
        /\ \E i \in EvidenceIds, e \in EvidenceRecords :
             RecordEvidence(i, e, FencingIds \cup LineageIds)
        /\ UNCHANGED fencingVars
  /\ UNCHANGED lineageVars

GraphStep ==
  \/ \E p \in ProgramIds : CreateProgram(p)
  \/ \E p \in ProgramIds, status \in callers.programStatus : SetProgramStatus(p, status)
  \/ /\ Another("sessions", sessions)
     /\ \E s \in SessionIds, p \in ProgramIds : CreateSession(s, p)
  \/ /\ Another("continuations", continuations)
     /\ \/ \E c \in ContinuationIds, s \in SessionIds, parents \in SUBSET ContinuationIds,
              lifecycle \in callers.lifecycles : CreateContinuation(c, s, parents, lifecycle)
        \/ \E waiting, child \in ContinuationIds : ResumeAfterWait(waiting, child)
  \/ \E c \in ContinuationIds, lifecycle \in callers.lifecycles :
        SetContinuationLifecycle(c, lifecycle)

StateStep ==
  \/ /\ Another("phases", phases)
     /\ \E p \in PhaseIds, a \in AttemptIds : CreatePhase(p, a)
  \/ \E p \in PhaseIds, status \in callers.phaseStatus : SetPhaseStatus(p, status)
  \/ /\ Another("states", states)
     /\ \E s \in StateIds, o \in ResolvedOrigins, derived \in SUBSET StateIds :
          CreateState(s, o, derived)
  \/ \E s \in StateIds, validity \in callers.validity : SetStateValidity(s, validity)
  \/ \E i \in ReplicaIds, s \in StateIds, status \in callers.replicaStatus :
        AddReplica(i, s, status)
  \/ \E i \in ReplicaIds, status \in callers.replicaStatus : SetReplicaStatus(i, status)

CoreNext == (RequestStep \/ GraphStep \/ StateStep) /\ UNCHANGED callers

coreVars == <<requests, attempts, outputs, evidence, lineageVars, callers>>

CoreSpec == CoreInit /\ [][CoreNext]_coreVars

---------------------------------------------------------------------------
(* Type correctness of the graph, the States and their replicas.           *)
LineageTypeOK ==
  /\ TypeOK
  /\ DOMAIN programs \subseteq ProgramIds
  /\ programs \in [DOMAIN programs -> ProgramStatus]
  /\ DOMAIN sessions \subseteq SessionIds
  /\ sessions \in [DOMAIN sessions -> ProgramIds]
  /\ DOMAIN continuations \subseteq ContinuationIds
  /\ continuations \in [DOMAIN continuations -> Continuation]
  /\ DOMAIN phases \subseteq PhaseIds
  /\ phases \in [DOMAIN phases -> Phase]
  /\ DOMAIN states \subseteq StateIds
  /\ states \in [DOMAIN states -> ReusableState]
  /\ DOMAIN replicas \subseteq ReplicaIds
  /\ replicas \in [DOMAIN replicas -> StateReplica]

(* The States s rests on, itself included.                                 *)
DerivationClosed(S) == \A x \in S : states[x].derived \subseteq S
Lineage(s) ==
  {d \in DOMAIN states :
     \A S \in SUBSET DOMAIN states : s \in S /\ DerivationClosed(S) => d \in S}

(* The declared origin of every State still resolves to what it resolved   *)
(* to when the State was made (_declared_state_origin, _parent_scopes and  *)
(* _phase_ordering of the oracle): a request-origin State stays with the   *)
(* committed attempt, a phase-origin State with a completed phase, and the *)
(* phases of an attempt are numbered 1, 2, 3, ...                          *)
ProvenanceResolves ==
  /\ \A c \in DOMAIN continuations :
       /\ continuations[c].session \in DOMAIN sessions
       /\ sessions[continuations[c].session] \in DOMAIN programs
       /\ ParentsInSession(continuations[c].parents, continuations[c].session)
  /\ \A r \in DOMAIN requests : requests[r].continuation \in DOMAIN continuations
  /\ \A a \in DOMAIN attempts :
       /\ \A p, q \in PhasesOf(a) : phases[p].ordinal = phases[q].ordinal => p = q
       /\ \E n \in {0} \cup Ordinals(a) : Ordinals(a) = 1..n
  /\ \A s \in DOMAIN states :
       LET x == states[s]
           o == [origin |-> x.origin, continuation |-> x.continuation,
                 request |-> x.request, attempt |-> x.attempt, phase |-> x.phase]
       IN CASE x.origin = "continuation" -> /\ x.continuation \in DOMAIN continuations
                                            /\ o = ContinuationOrigin(x.continuation)
            [] x.origin = "request" -> /\ requests[x.request].status = "COMPLETED"
                                       /\ o = RequestOrigin(x.request)
            [] x.origin = "attempt" -> o = AttemptOrigin(x.attempt)
            [] x.origin = "phase" -> /\ phases[x.phase].status = "COMPLETED"
                                     /\ o = PhaseOrigin(x.phase)

(* The stored lifecycle of a State is the one the graph gives it now:      *)
(* ACTIVE if some descendant of its continuation is ACTIVE, else WAITING,  *)
(* else SPECULATIVE, else TERMINAL.  Every operation on the graph has to   *)
(* refresh the States that hang off it, or retention acts on stale data.   *)
LifecycleIsFresh ==
  \A s \in DOMAIN states :
    states[s].lifecycle = DerivedLifecycle(states[s].continuation, continuations)

(* Whatever a State rests on, over any number of derivations, was made on  *)
(* a causal ancestor of its own continuation and in its own session;       *)
(* create_state only compares a State with its direct dependencies.        *)
LineageIsCausal ==
  \A s \in DOMAIN states : \A d \in Lineage(s) :
    /\ IsAncestor(states[d].continuation, states[s].continuation, continuations)
    /\ continuations[states[d].continuation].session
         = continuations[states[s].continuation].session

(* What the oracle (continuity/invariants.py) checks of the graph and of   *)
(* the States that hang off it, and the causality it relies on: origins    *)
(* resolve, cached lifecycles are current, derivation follows the graph.   *)
LineageOracle == LineageTypeOK /\ ProvenanceResolves /\ LifecycleIsFresh /\ LineageIsCausal

(* The execution contexts of attempt a: everything above it is determined. *)
ContextsOf(a) ==
  LET r == attempts[a].request
      c == requests[r].continuation
      s == continuations[c].session
  IN {[program |-> sessions[s], session |-> s, continuation |-> c, request |-> r,
       attempt |-> a, phase |-> p] : p \in PhasesOf(a) \cup {NULL}}

CommittedProducer(x) ==
  /\ requests[x.request].status = "COMPLETED"
  /\ requests[x.request].committed = x.attempt

(* What an attempt is allowed to consume is safe all the way down: each    *)
(* State it rests on is VALID, was made on the consumer's causal path, and *)
(* was produced by no attempt, by a committed one, or by the consumer in   *)
(* an earlier phase.  The work of a superseded or of another running       *)
(* attempt reaches nobody, however it is wrapped.                          *)
ConsumptionIsSafe ==
  \A s \in DOMAIN states, a \in DOMAIN attempts : \A ctx \in ContextsOf(a) :
    StateCompatible(s, ctx) =>
      \A d \in Lineage(s) :
        LET x == states[d] IN
          /\ x.validity = "VALID"
          /\ IsAncestor(x.continuation, ctx.continuation, continuations)
          /\ x.attempt = a => x.phase = NULL \/ phases[x.phase].ordinal < phases[ctx.phase].ordinal
          /\ x.attempt \notin {NULL, a} => CommittedProducer(x)

(* Something the State rests on is INVALID or came from a superseded       *)
(* attempt.                                                                *)
Tainted(s) ==
  \E d \in Lineage(s) :
    \/ states[d].validity = "INVALID"
    \/ states[d].attempt # NULL /\ attempts[states[d].attempt].authority = "SUPERSEDED"

(* A tainted State stays tainted, and no attempt may consume it: neither   *)
(* a retry, nor a commit, nor a late report brings it back.                *)
TaintIsPermanent ==
  [][\A s \in DOMAIN states :
       Tainted(s) =>
         /\ s \in DOMAIN states' /\ Tainted(s)'
         /\ \A a \in DOMAIN attempts : \A ctx \in ContextsOf(a) :
              ~StateCompatible(s, ctx)]_coreVars

(* Made without an attempt or by a committed one, all the way down.        *)
Durable(s) ==
  \A d \in Lineage(s) :
    /\ states[d].validity = "VALID"
    /\ states[d].attempt # NULL => CommittedProducer(states[d])

(* Committed work is not lost: a State that rests on committed producers   *)
(* only stays so until something it rests on is declared INVALID.  No      *)
(* retry of its request and no change of the graph takes it away.          *)
DurableUntilInvalidated ==
  [][\A s \in DOMAIN states :
       Durable(s) => Durable(s)' \/ \E d \in Lineage(s) : states'[d].validity = "INVALID"]_coreVars
===========================================================================
