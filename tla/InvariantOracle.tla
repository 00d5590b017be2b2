-------------------------- MODULE InvariantOracle --------------------------
(***************************************************************************)
(* The structural oracle of the semantic core (continuity/invariants.py),  *)
(* an independent reading of a whole core: the experiments and the tests   *)
(* run it after their trials, and restore_core runs it on every snapshot.  *)
(* Each operator is one of its checks and says what the check accepts; an  *)
(* access to an object that is not there is not accepted either.           *)
(***************************************************************************)
EXTENDS StateLineage, BindingEpochs

(* The collections of the core; the event log is OrderingTrials' own.      *)
Collections ==
  <<DOMAIN programs, DOMAIN sessions, DOMAIN continuations, DOMAIN requests, DOMAIN attempts,
    DOMAIN phases, DOMAIN states, DOMAIN replicas, DOMAIN bindings, DOMAIN evidence,
    DOMAIN outputs>>

GlobalIdentityUniqueness ==
  \A i, j \in DOMAIN Collections : i < j => Collections[i] \cap Collections[j] = {}

ParentScopes ==
  /\ \A s \in DOMAIN sessions : sessions[s] \in DOMAIN programs
  /\ \A c \in DOMAIN continuations :
       /\ continuations[c].session \in DOMAIN sessions
       /\ ParentsInSession(continuations[c].parents, continuations[c].session)
  /\ \A r \in DOMAIN requests : requests[r].continuation \in DOMAIN continuations
  /\ \A a \in DOMAIN attempts : attempts[a].request \in DOMAIN requests
  /\ \A p \in DOMAIN phases : phases[p].attempt \in DOMAIN attempts

---------------------------------------------------------------------------
(* The attempts of r with an authority are the one r points to, or none.   *)
HoldersAre(r, authority, pointer) ==
  {a \in AttemptsOf(r) : attempts[a].authority = authority} = {pointer} \ {NULL}

AttemptAuthorityChecked ==
  \A r \in DOMAIN requests :
    /\ HoldersAre(r, "CURRENT", requests[r].current)
    /\ HoldersAre(r, "COMMITTED", requests[r].committed)

AttemptGenerations ==
  \A r \in DOMAIN requests : Generations(r) = 1..Cardinality(AttemptsOf(r))

(* A completed request; a failed or cancelled one points to nothing.       *)
CompletedSoundly(r) ==
  LET q == requests[r] IN
    /\ q.current = NULL
    /\ q.committed \in AttemptsOf(r)
    /\ attempts[q.committed].authority = "COMMITTED"
    /\ attempts[q.committed].execution = "SUCCEEDED"
    /\ q.output \in DOMAIN outputs
    /\ outputs[q.output].attempt = q.committed /\ outputs[q.output].terminal

RequestCommitConsistency ==
  \A r \in DOMAIN requests :
    CASE requests[r].status = "COMPLETED" -> CompletedSoundly(r)
      [] requests[r].status \in {"FAILED", "CANCELLED"} ->
           requests[r].current = NULL /\ requests[r].committed = NULL /\ requests[r].output = NULL
      [] OTHER -> TRUE

OutputIntegrity ==
  \A o \in DOMAIN outputs :
    outputs[o].attempt \in DOMAIN attempts /\ outputs[o].evidence \subseteq DOMAIN evidence

(* Derived Evidence names its supports and its rule and claims no more     *)
(* than they do.                                                           *)
EvidenceDerivation ==
  \A i \in DOMAIN evidence :
    LET e == evidence[i] IN
      /\ IF e.authority = DERIVED THEN e.support # {} /\ e.rule ELSE e.support = {} /\ ~e.rule
      /\ e.support # {} =>
           /\ e.support \subseteq DOMAIN evidence
           /\ e.scope \subseteq UNION {evidence[j].scope : j \in e.support}
           /\ e.status = "VALID" => \A j \in e.support : evidence[j].status = "VALID"

---------------------------------------------------------------------------
(* _has_cycle and _state_cycle: the search comes back to a node it is      *)
(* still visiting.                                                         *)
HasCycle(s) ==
  \E c \in DOMAIN continuations :
    /\ continuations[c].session = s
    /\ \E p \in continuations[c].parents : IsAncestor(c, p, continuations)

StateCycle == \E s \in DOMAIN states : \E d \in states[s].derived : s \in Lineage(d)

ContinuationDags == \A s \in DOMAIN sessions : ~HasCycle(s)

PhaseOrdering ==
  \A a \in DOMAIN attempts : Ordinals(a) = 1..Cardinality(PhasesOf(a))

(* Where a State says it comes from, and what that object says now; the    *)
(* identifier of the origin is the one of its own kind the State records.  *)
DeclaredStateOrigin(x) ==
  LET o == [origin |-> x.origin, continuation |-> x.continuation, request |-> x.request,
            attempt |-> x.attempt, phase |-> x.phase] IN
  CASE x.origin = "continuation" -> o = ContinuationOrigin(x.continuation)
    [] x.origin = "request" -> /\ x.request \in DOMAIN requests
                               /\ requests[x.request].status = "COMPLETED"
                               /\ requests[x.request].committed # NULL
                               /\ o = RequestOrigin(x.request)
    [] x.origin = "attempt" -> x.attempt \in DOMAIN attempts /\ o = AttemptOrigin(x.attempt)
    [] x.origin = "phase" -> x.phase \in DOMAIN phases /\ o = PhaseOrigin(x.phase)

StateProvenance ==
  /\ ~StateCycle
  /\ \A s \in DOMAIN states :
       LET x == states[s] IN
         /\ x.continuation \in DOMAIN continuations
         /\ DeclaredStateOrigin(x)
         /\ \A d \in x.derived : MayDependOn(d, x)
         /\ x.attempt # NULL /\ x.request # NULL => attempts[x.attempt].request = x.request
         /\ x.phase # NULL => /\ phases[x.phase].attempt = x.attempt
                              /\ phases[x.phase].status = "COMPLETED"

(* The replicas of the model carry no binding.                             *)
ReplicaIntegrity == \A i \in DOMAIN replicas : replicas[i].state \in DOMAIN states

(* No current attempt may consume an INVALID State.                        *)
StateValidityChecked ==
  \A s \in DOMAIN states, r \in DOMAIN requests :
    states[s].validity = "INVALID" /\ requests[r].current # NULL =>
      LET c == requests[r].continuation IN
        ~StateCompatible(s, [program |-> sessions[continuations[c].session],
                             session |-> continuations[c].session, continuation |-> c,
                             request |-> r, attempt |-> requests[r].current, phase |-> NULL])

---------------------------------------------------------------------------
BindingAuthority ==
  /\ \A s \in DOMAIN currentBinding :
       /\ currentBinding[s] \in DOMAIN bindings
       /\ bindings[currentBinding[s]].subject = s
       /\ bindings[currentBinding[s]].status = "ACTIVE"
       /\ s \in DOMAIN currentEpoch /\ currentEpoch[s] = bindings[currentBinding[s]].epoch
  /\ \A b \in DOMAIN bindings :
       bindings[b].status = "ACTIVE" => Get(currentBinding, bindings[b].subject, NULL) = b

BindingsOf(s) == {b \in DOMAIN bindings : bindings[b].subject = s}
EpochsOf(s) == {bindings[b].epoch : b \in BindingsOf(s)}

BindingGenerations ==
  \A b \in DOMAIN bindings :
    LET s == bindings[b].subject IN
      /\ bindings[b].epoch > bindings[b].base
      /\ Cardinality(EpochsOf(s)) = Cardinality(BindingsOf(s))
      /\ s \in DOMAIN lastAllocatedEpoch /\ lastAllocatedEpoch[s] = Highest(EpochsOf(s))
      /\ s \in DOMAIN currentEpoch => currentEpoch[s] \in EpochsOf(s)

(* assert_all returns.                                                     *)
OracleAccepts ==
  /\ GlobalIdentityUniqueness /\ ParentScopes
  /\ AttemptAuthorityChecked /\ AttemptGenerations /\ RequestCommitConsistency
  /\ ContinuationDags /\ PhaseOrdering /\ StateProvenance /\ ReplicaIntegrity
  /\ BindingAuthority /\ BindingGenerations
  /\ EvidenceDerivation /\ OutputIntegrity /\ StateValidityChecked

(* restore_core of a snapshot of this core returns a core.                 *)
RestoreAccepts == GlobalIdentityUniqueness /\ OracleAccepts

---------------------------------------------------------------------------
(* The core of StateLineage, with the bindings nobody makes in it.         *)
OracleInit == CoreInit /\ BindingInit
OracleNext == CoreNext /\ UNCHANGED bindingVars
OracleSpec == OracleInit /\ [][OracleNext]_<<coreVars, bindingVars>>

(* The snapshot of a core can be restored whenever it is taken: restore    *)
(* fills a core with the same collections and refuses one the oracle does  *)
(* not accept, so the operations must not leave it at any point.  What the *)
(* restored core computes with besides (LineageOracle: cached lifecycles,  *)
(* the causality of whole derivations) is sound as well, although the      *)
(* oracle does not look at it.                                             *)
SnapshotsRestore == RestoreAccepts /\ LineageOracle
=============================================================================
