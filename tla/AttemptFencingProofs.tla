----------------------- MODULE AttemptFencingProofs -----------------------
(***************************************************************************)
(* Proofs for any sets of identifiers and Evidence values.  First the      *)
(* Evidence that requests are committed on: however Evidence is derived    *)
(* from Evidence, scope and validity are never widened, and the gate in    *)
(* front of the actions that can change authority fails closed.  Then      *)
(* that every behaviour of AttemptFencing keeps the invariants TLC checks  *)
(* on small instances, and implements the fenced register.                 *)
(***************************************************************************)
EXTENDS AttemptFencing, TLAPS

(* Evidence rests on recorded Evidence only (record_evidence rejects a     *)
(* derived_from that it does not know).                                    *)
SupportsRecorded == \A i \in DOMAIN evidence : evidence[i].support \subseteq DOMAIN evidence

(* The inductive invariant.  ScopeIsRooted speaks of every support-closed  *)
(* set; without a new Evidence such a set is still closed only because     *)
(* what was recorded before does not rest on what is recorded now.         *)
RootedInv == SupportsRecorded /\ ScopeIsRooted

---------------------------------------------------------------------------
(* What presenting more Evidence cannot undo (core_base.py,                *)
(* require_evidence): an ambiguity, and a contradiction.                   *)
LEMMA AmbiguityStays ==
  ASSUME NEW ids, NEW more, AnyAmbiguous(ids)
  PROVE  AnyAmbiguous(ids \cup more)
BY DEF AnyAmbiguous, Presented

LEMMA ConflictStays ==
  ASSUME NEW action, NEW ids, NEW more, NEW now, NEW maxAge,
         ConflictingClaims(action, ids, now, maxAge)
  PROVE  ConflictingClaims(action, ids \cup more, now, maxAge)
BY DEF ConflictingClaims, Presented

(* The gate fails closed whatever is in the store: reconcile and           *)
(* require_evidence (continuity/core.py:66) agree for the actions that can *)
(* change authority, and no further Evidence opens a gate that is closed   *)
(* by an ambiguity or a contradiction.                                     *)
LEMMA GateAlwaysFailsClosed == GateFailsClosed
<1> SUFFICES ASSUME NEW action \in CorrectnessSensitive,
                    NEW ids \in SUBSET DOMAIN evidence, NEW now \in Times
             PROVE  /\ (Reconcile(action, ids, now, {}) = "MATCHED")
                         = RequireEvidence(action, ids, now, {}, NULL)
                    /\ Reconcile(action, ids, now, {}) = "AMBIGUOUS" =>
                         \A more \in SUBSET DOMAIN evidence :
                           ~RequireEvidence(action, ids \cup more, now, {}, NULL)
  BY DEF GateFailsClosed
<1>1. RequireEvidence(action, ids, now, {}, NULL)
        => ~AnyAmbiguous(ids) /\ ~ConflictingClaims(action, ids, now, NULL)
  BY DEF RequireEvidence
<1>2. (Reconcile(action, ids, now, {}) = "MATCHED") = RequireEvidence(action, ids, now, {}, NULL)
  <2>1. CASE AnyAmbiguous(ids) \/ ConflictingClaims(action, ids, now, NULL)
    BY <1>1, <2>1 DEF Reconcile, RequireEvidence
  <2>2. CASE ~(AnyAmbiguous(ids) \/ ConflictingClaims(action, ids, now, NULL))
    <3>1. CASE RequireEvidence(action, ids, now, {}, NULL)
      BY <2>2, <3>1 DEF Reconcile
    <3>2. CASE ~RequireEvidence(action, ids, now, {}, NULL)
      <4>1. Reconcile(action, ids, now, {}) = "WAIT"
        BY <2>2, <3>2 DEF Reconcile
      <4> QED
        BY <4>1, <3>2, Zenon DEF RequireEvidence
    <3> QED
      BY <3>1, <3>2
  <2> QED
    BY <2>1, <2>2
<1>3. Reconcile(action, ids, now, {}) = "AMBIGUOUS"
        => AnyAmbiguous(ids) \/ ConflictingClaims(action, ids, now, NULL)
  BY DEF Reconcile
<1>4. ASSUME Reconcile(action, ids, now, {}) = "AMBIGUOUS",
             NEW more \in SUBSET DOMAIN evidence
      PROVE  ~RequireEvidence(action, ids \cup more, now, {}, NULL)
  BY <1>3, <1>4, AmbiguityStays, ConflictStays DEF RequireEvidence
<1> QED
  BY <1>2, <1>4

---------------------------------------------------------------------------
(* Recording one more Evidence keeps the older ones rooted: a closed set   *)
(* around an older one stays closed without the new one.                   *)
LEMMA RecordKeepsRooted ==
  ASSUME RootedInv, NEW i, NEW e, RecordEvidence(i, e, {})
  PROVE  RootedInv'
<1>1. /\ i \notin DOMAIN evidence
      /\ DOMAIN evidence' = DOMAIN evidence \cup {i}
      /\ evidence'[i] = e
      /\ \A j \in DOMAIN evidence : evidence'[j] = evidence[j]
  BY DEF RecordEvidence, MayRecord, NotYetRecorded
<1>2. /\ e.support \subseteq DOMAIN evidence
      /\ e.authority # DERIVED => e.support = {}
      /\ e.support # {} => /\ e.scope \subseteq UNION {evidence[k].scope : k \in e.support}
                           /\ ValidSupports(e)
      /\ e.authority = DERIVED => e.support # {}
  BY DEF RecordEvidence, MayRecord, DerivationAdmissible
<1>3. SupportsRecorded'
  BY <1>1, <1>2 DEF RootedInv, SupportsRecorded
<1>4. ASSUME NEW S \in SUBSET DOMAIN evidence', SupportClosed(S)'
      PROVE  /\ S \ {i} \in SUBSET DOMAIN evidence
             /\ SupportClosed(S \ {i})
  BY <1>1, <1>4 DEF SupportClosed, RootedInv, SupportsRecorded
<1>5. ASSUME NEW j \in DOMAIN evidence, NEW tag \in evidence[j].scope,
             NEW S \in SUBSET DOMAIN evidence', j \in S, SupportClosed(S)'
      PROVE  \E root \in S :
               /\ evidence'[root].authority # DERIVED
               /\ tag \in evidence'[root].scope
               /\ evidence[j].status = "VALID" => evidence'[root].status = "VALID"
  <2>1. j \in S \ {i}
    BY <1>1, <1>5
  <2>2. PICK root \in S \ {i} : /\ evidence[root].authority # DERIVED
                                /\ tag \in evidence[root].scope
                                /\ evidence[j].status = "VALID" => evidence[root].status = "VALID"
    BY <1>4, <1>5, <2>1 DEF RootedInv, ScopeIsRooted
  <2>3. root \in DOMAIN evidence
    BY <1>4, <1>5
  <2> QED
    BY <1>1, <2>2, <2>3
<1>6. ASSUME NEW tag \in e.scope,
             NEW S \in SUBSET DOMAIN evidence', i \in S, SupportClosed(S)'
      PROVE  \E root \in S :
               /\ evidence'[root].authority # DERIVED
               /\ tag \in evidence'[root].scope
               /\ e.status = "VALID" => evidence'[root].status = "VALID"
  <2>1. CASE e.authority # DERIVED
    BY <1>1, <1>6, <2>1
  <2>2. CASE e.authority = DERIVED
    <3>1. PICK k \in e.support : tag \in evidence[k].scope
      BY <1>2, <1>6, <2>2
    <3>2. k \in S /\ k \in DOMAIN evidence
      BY <1>1, <1>2, <1>6, <3>1 DEF SupportClosed
    <3>3. e.status = "VALID" => evidence[k].status = "VALID"
      BY <1>2, <3>1 DEF ValidSupports
    <3> QED
      BY <1>5, <1>6, <3>1, <3>2, <3>3
  <2> QED
    BY <2>1, <2>2
<1>7. ScopeIsRooted'
  <2> SUFFICES ASSUME NEW j \in DOMAIN evidence', NEW tag \in evidence'[j].scope,
                      NEW S \in SUBSET DOMAIN evidence', j \in S, SupportClosed(S)'
               PROVE  \E root \in S :
                        /\ evidence'[root].authority # DERIVED
                        /\ tag \in evidence'[root].scope
                        /\ evidence'[j].status = "VALID" => evidence'[root].status = "VALID"
    BY DEF ScopeIsRooted
  <2>1. CASE j = i
    BY <1>1, <1>6, <2>1
  <2>2. CASE j # i
    BY <1>1, <1>5, <2>2
  <2> QED
    BY <2>1, <2>2
<1> QED
  BY <1>3, <1>7 DEF RootedInv

(* The invariant holds in every reachable state of the store.              *)
THEOREM RootedInvariant == EvidenceSpec => []RootedInv
<1>1. EvidenceInit => RootedInv
  BY DEF EvidenceInit, RootedInv, SupportsRecorded, ScopeIsRooted
<1>2. RootedInv /\ [EvidenceNext]_evidence => RootedInv'
  <2> SUFFICES ASSUME RootedInv, [EvidenceNext]_evidence PROVE RootedInv'
    OBVIOUS
  <2>1. CASE EvidenceNext
    BY <2>1, RecordKeepsRooted DEF EvidenceNext
  <2>2. CASE UNCHANGED evidence
    BY <2>2 DEF RootedInv, SupportsRecorded, ScopeIsRooted, SupportClosed
  <2> QED
    BY <2>1, <2>2
<1> QED
  BY <1>1, <1>2, PTL DEF EvidenceSpec

(* Derivation never widens scope or validity (record_evidence).            *)
THEOREM DerivationIsRooted == EvidenceSpec => []ScopeIsRooted
<1>1. RootedInv => ScopeIsRooted
  BY DEF RootedInv
<1> QED
  BY <1>1, RootedInvariant, PTL

(* The gate fails closed in every reachable state (require_evidence and    *)
(* reconcile).                                                             *)
THEOREM GateClosed == EvidenceSpec => []GateFailsClosed
BY GateAlwaysFailsClosed, PTL

---------------------------------------------------------------------------
(* The inductive invariant of requests, attempts and outputs.  Each part   *)
(* uses the others: the newest attempt stays newest because the pointer    *)
(* and its authority agree, these agree because no reference dangles, and  *)
(* an Evidence-backed commit survives because outputs and Evidence are     *)
(* only ever added.                                                        *)
IInv ==
  /\ TypeOK
  /\ StoreWellFormed
  /\ AuthorityMatchesPointers
  /\ NewestHoldsAuthority
  /\ CommitConsistent
  /\ CommitIsEvidenced

---------------------------------------------------------------------------
(* max([...], default=0) + 1 is n + 1 when the generations are 1..n.       *)
LEMMA NextGenerationAfter ==
  ASSUME NEW r, NEW n \in Nat, Generations(r) = 1..n
  PROVE  NextGeneration(r) = n + 1
<1>1. {0} \cup Generations(r) = 0..n
  OBVIOUS
<1>2. Highest(0..n) = n
  <2>1. n \in 0..n /\ \A m \in 0..n : m <= n
    OBVIOUS
  <2>2. \A k \in 0..n : (\A m \in 0..n : m <= k) => k = n
    OBVIOUS
  <2> QED
    BY <2>1, <2>2 DEF Highest
<1> QED
  BY <1>1, <1>2 DEF NextGeneration

(* The generations of a request are natural numbers, so the n of           *)
(* NewestHoldsAuthority is one.                                            *)
LEMMA NextGenerationIsNat ==
  ASSUME TypeOK, NewestHoldsAuthority, NEW r \in DOMAIN requests
  PROVE  \E n \in Nat : Generations(r) = 1..n /\ NextGeneration(r) = n + 1
<1>1. PICK n \in {0} \cup Generations(r) : Generations(r) = 1..n
  BY DEF NewestHoldsAuthority
<1>2. n \in Nat
  BY DEF Generations, AttemptsOf, TypeOK, Attempt
<1> QED
  BY <1>1, <1>2, NextGenerationAfter

(* What finalize_request changes, field by field.                          *)
Finalized(r, o) ==
  LET a == outputs[o].attempt IN
    /\ r \in DOMAIN requests /\ o \in DOMAIN outputs /\ a \in DOMAIN attempts
    /\ a \in AttemptIds /\ a # NULL /\ o # NULL
    /\ a = requests[r].current /\ requests[r].status \notin TerminalRequest
    /\ attempts[a].authority = "CURRENT" /\ attempts[a].execution = "SUCCEEDED"
    /\ outputs[o].terminal
    /\ DOMAIN attempts' = DOMAIN attempts /\ DOMAIN requests' = DOMAIN requests
    /\ \A x \in DOMAIN attempts :
         /\ attempts'[x].request = attempts[x].request
         /\ attempts'[x].generation = attempts[x].generation
         /\ attempts'[x].execution = attempts[x].execution
         /\ x # a => attempts'[x] = attempts[x]
    /\ attempts'[a].authority = "COMMITTED"
    /\ \A q \in DOMAIN requests : q # r => requests'[q] = requests[q]
    /\ requests'[r].status = "COMPLETED" /\ requests'[r].current = NULL
    /\ requests'[r].committed = a /\ requests'[r].output = o
    /\ outputs' = outputs /\ evidence' = evidence

(* What finalize_request does to each collection, stated on its three      *)
(* variables one by one.                                                   *)
LEMMA FinalizeEffect ==
  ASSUME TypeOK, StoreWellFormed, NEW r \in RequestIds, NEW o \in OutputIds, NEW now \in Times,
         FinalizeRequest(r, o, now)
  PROVE  Finalized(r, o)
<1> DEFINE a == outputs[o].attempt
<1>1. r \in DOMAIN requests /\ o \in DOMAIN outputs /\ a \in DOMAIN attempts /\ a \in AttemptIds
  BY DEF FinalizeRequest, MayFinalize, TerminalSuccess, FinalizeScope, TypeOK,
         StoreWellFormed
<1>2. attempts' = [attempts EXCEPT ![a].authority = "COMMITTED"]
  BY DEF FinalizeRequest, MayFinalize, TerminalSuccess, FinalizeScope
<1>3. requests' = [requests EXCEPT ![r].status = "COMPLETED", ![r].current = NULL,
                                   ![r].committed = a, ![r].output = o]
  BY DEF FinalizeRequest, MayFinalize, TerminalSuccess, FinalizeScope
<1>4. /\ a = requests[r].current /\ requests[r].status \notin TerminalRequest
      /\ attempts[a].authority = "CURRENT" /\ attempts[a].execution = "SUCCEEDED"
      /\ outputs[o].terminal /\ outputs' = outputs /\ evidence' = evidence
  BY DEF FinalizeRequest, MayFinalize, TerminalSuccess, FinalizeScope
<1>5. a # NULL /\ o # NULL
  BY <1>1, IdAssumption
<1> HIDE DEF a
<1>6. /\ DOMAIN attempts' = DOMAIN attempts
      /\ attempts'[a].authority = "COMMITTED"
      /\ \A x \in DOMAIN attempts :
           /\ attempts'[x].request = attempts[x].request
           /\ attempts'[x].generation = attempts[x].generation
           /\ attempts'[x].execution = attempts[x].execution
           /\ x # a => attempts'[x] = attempts[x]
  BY <1>1, <1>2 DEF TypeOK, Attempt
<1>7. /\ DOMAIN requests' = DOMAIN requests
      /\ requests'[r].status = "COMPLETED" /\ requests'[r].current = NULL
      /\ requests'[r].committed = a /\ requests'[r].output = o
      /\ \A q \in DOMAIN requests : q # r => requests'[q] = requests[q]
  BY <1>1, <1>3 DEF TypeOK, LogicalRequest
<1> QED
  BY <1>1, <1>4, <1>5, <1>6, <1>7 DEF a, Finalized

(* What start_attempt changes, field by field.                             *)
Started(a, r) ==
  /\ r \in DOMAIN requests /\ requests[r].status \notin TerminalRequest
  /\ a \notin DOMAIN attempts /\ DOMAIN attempts' = DOMAIN attempts \cup {a}
  /\ attempts'[a].request = r /\ attempts'[a].generation = NextGeneration(r)
  /\ \A x \in DOMAIN attempts :
       /\ x # a
       /\ attempts'[x].request = attempts[x].request
       /\ attempts'[x].generation = attempts[x].generation
       /\ attempts'[x].execution = attempts[x].execution
       /\ x # requests[r].current => attempts'[x] = attempts[x]
       /\ x = requests[r].current => /\ attempts[x].authority = "CURRENT"
                                    /\ attempts'[x].authority = "SUPERSEDED"
  /\ DOMAIN requests' = DOMAIN requests
  /\ \A q \in DOMAIN requests : q # r => requests'[q] = requests[q]
  /\ requests'[r].committed = requests[r].committed
  /\ requests'[r].output = requests[r].output
  /\ outputs' = outputs /\ evidence' = evidence

(* What start_attempt does to each collection, the fencing of the current  *)
(* attempt included.                                                       *)
LEMMA StartEffect ==
  ASSUME TypeOK, NEW a \in AttemptIds, NEW r \in RequestIds, StartAttempt(a, r, {})
  PROVE  Started(a, r)
<1>1. r \in DOMAIN requests /\ requests[r].status \notin TerminalRequest /\ a \notin DOMAIN attempts
  BY DEF StartAttempt, MayStart, AcceptsAttempt, Fenced, Unique, FencingIds
<1>2. /\ DOMAIN attempts' = DOMAIN attempts \cup {a}
      /\ attempts'[a] = [request |-> r, generation |-> NextGeneration(r),
                         execution |-> "CREATED", authority |-> "CURRENT"]
      /\ \A x \in DOMAIN attempts : x # a =>
           attempts'[x] = IF x = requests[r].current
                            THEN [attempts[x] EXCEPT !.authority = "SUPERSEDED"] ELSE attempts[x]
  BY DEF StartAttempt, MayStart, AcceptsAttempt, Fenced, Put
<1>3. \A x \in DOMAIN attempts : x = requests[r].current => attempts[x].authority = "CURRENT"
  BY IdAssumption DEF StartAttempt, MayStart, AcceptsAttempt, Fenced, TypeOK
<1>4. requests' = [requests EXCEPT ![r].status = "RUNNING", ![r].current = a]
  BY DEF StartAttempt, MayStart, AcceptsAttempt, Fenced
<1>5. \A x \in DOMAIN attempts :
        /\ attempts'[x].request = attempts[x].request
        /\ attempts'[x].generation = attempts[x].generation
        /\ attempts'[x].execution = attempts[x].execution
        /\ x # requests[r].current => attempts'[x] = attempts[x]
        /\ x = requests[r].current => attempts'[x].authority = "SUPERSEDED"
  BY <1>1, <1>2 DEF TypeOK, Attempt
<1>6. /\ DOMAIN requests' = DOMAIN requests
      /\ \A q \in DOMAIN requests : q # r => requests'[q] = requests[q]
      /\ requests'[r].committed = requests[r].committed
      /\ requests'[r].output = requests[r].output
  BY <1>1, <1>4 DEF TypeOK, LogicalRequest
<1> QED
  BY <1>1, <1>2, <1>3, <1>5, <1>6
     DEF StartAttempt, MayStart, AcceptsAttempt, Fenced, Started

(* A step that keeps each attempt's request and generation, and adds no    *)
(* attempt, keeps the attempts and the generations of every request.       *)
LEMMA GenerationsFrame ==
  ASSUME DOMAIN attempts' = DOMAIN attempts,
         \A x \in DOMAIN attempts : /\ attempts'[x].request = attempts[x].request
                                   /\ attempts'[x].generation = attempts[x].generation,
         NEW r
  PROVE  AttemptsOf(r)' = AttemptsOf(r) /\ Generations(r)' = Generations(r)
<1>1. AttemptsOf(r)' = AttemptsOf(r)
  BY DEF AttemptsOf
<1> QED
  BY <1>1 DEF Generations, AttemptsOf

(* start_attempt gives its request the next generation and leaves the      *)
(* generations of the other requests alone.                                *)
LEMMA StartGenerations ==
  ASSUME TypeOK, NewestHoldsAuthority, NEW a \in AttemptIds, NEW r \in RequestIds,
         StartAttempt(a, r, {})
  PROVE  /\ \E n \in Nat : /\ Generations(r) = 1..n /\ NextGeneration(r) = n + 1
                           /\ Generations(r)' = 1..(n + 1)
         /\ NextGeneration(r)' = NextGeneration(r) + 1
         /\ AttemptsOf(r)' = AttemptsOf(r) \cup {a}
         /\ \A q : q # r => /\ AttemptsOf(q)' = AttemptsOf(q)
                            /\ Generations(q)' = Generations(q)
                            /\ NextGeneration(q)' = NextGeneration(q)
<1>0. Started(a, r)
  BY StartEffect
<1>1. PICK n \in Nat : Generations(r) = 1..n /\ NextGeneration(r) = n + 1
  BY <1>0, NextGenerationIsNat DEF Started
<1>2. AttemptsOf(r)' = AttemptsOf(r) \cup {a}
  BY <1>0 DEF Started, AttemptsOf
<1>3. Generations(r)' = Generations(r) \cup {n + 1}
  BY <1>1, <1>2, <1>0 DEF Started, Generations, AttemptsOf
<1>4. Generations(r)' = 1..(n + 1)
  BY <1>1, <1>3
<1>5. {0} \cup Generations(r)' = 0..(n + 1)
  BY <1>4
<1>6. NextGeneration(r)' = (n + 1) + 1
  <2>1. n + 1 \in 0..(n + 1) /\ \A m \in 0..(n + 1) : m <= n + 1
    OBVIOUS
  <2>2. \A k \in 0..(n + 1) : (\A m \in 0..(n + 1) : m <= k) => k = n + 1
    OBVIOUS
  <2>3. Highest(0..(n + 1)) = n + 1
    BY <2>1, <2>2 DEF Highest
  <2> QED
    BY <1>5, <2>3 DEF NextGeneration
<1>7. ASSUME NEW q, q # r
      PROVE  /\ AttemptsOf(q)' = AttemptsOf(q)
             /\ Generations(q)' = Generations(q)
             /\ NextGeneration(q)' = NextGeneration(q)
  <2>1. AttemptsOf(q)' = AttemptsOf(q)
    BY <1>7, <1>0 DEF Started, AttemptsOf
  <2>2. Generations(q)' = Generations(q)
    BY <2>1, <1>0 DEF Started, Generations, AttemptsOf
  <2> QED
    BY <2>1, <2>2 DEF NextGeneration
<1> QED
  BY <1>1, <1>2, <1>4, <1>6, <1>7

---------------------------------------------------------------------------
(* Type correctness is preserved by every operation.                       *)
LEMMA TypeStep == TypeOK /\ StoreWellFormed /\ NewestHoldsAuthority /\ [Next]_vars => TypeOK'
<1> SUFFICES ASSUME TypeOK, StoreWellFormed, NewestHoldsAuthority, [Next]_vars
             PROVE  TypeOK'
  OBVIOUS
<1> USE DEF TypeOK
<1>1. ASSUME NEW r \in RequestIds, NEW c \in ContinuationIds, CreateRequest(r, c, {})
      PROVE  TypeOK'
  BY <1>1, IdAssumption
     DEF CreateRequest, NewRequest, Put, LogicalRequest, RequestStatus, EvidenceTypeOK
<1>2. ASSUME NEW a \in AttemptIds, NEW r \in RequestIds, StartAttempt(a, r, {})
      PROVE  TypeOK'
  <2>1. NextGeneration(r) \in Nat
    BY <1>2, NextGenerationIsNat DEF StartAttempt, MayStart, AcceptsAttempt, Fenced
  <2>2. requests' \in [DOMAIN requests' -> LogicalRequest] /\ DOMAIN requests' \subseteq RequestIds
    BY <1>2
       DEF StartAttempt, MayStart, AcceptsAttempt, Fenced, LogicalRequest, RequestStatus
  <2>3. attempts' \in [DOMAIN attempts' -> Attempt] /\ DOMAIN attempts' \subseteq AttemptIds
    BY <1>2, <2>1
       DEF StartAttempt, MayStart, AcceptsAttempt, Fenced, Put, Attempt, AttemptAuthority,
           ExecutionStatus
  <2> QED
    BY <1>2, <2>2, <2>3 DEF StartAttempt, MayStart, AcceptsAttempt, Fenced, EvidenceTypeOK
<1>3. ASSUME NEW a \in AttemptIds, NEW status \in ExecutionStatus, SetAttemptExecution(a, status)
      PROVE  TypeOK'
  BY <1>3 DEF SetAttemptExecution, MayReport, MayBecome, Attempt, EvidenceTypeOK
<1>4. ASSUME NEW o \in OutputIds, NEW a \in AttemptIds, NEW terminal \in BOOLEAN,
             NEW ids \in SUBSET EvidenceIds, CreateOutput(o, a, terminal, ids, {})
      PROVE  TypeOK'
  BY <1>4 DEF CreateOutput, MayCreateOutput, EvidenceKnown, Put, Output, EvidenceTypeOK
<1>5. ASSUME NEW r \in RequestIds, NEW o \in OutputIds, NEW now \in Times, FinalizeRequest(r, o, now)
      PROVE  TypeOK'
  <2> DEFINE b == outputs[o].attempt
  <2>0. r \in DOMAIN requests /\ b \in DOMAIN attempts /\ b \in AttemptIds
    BY <1>5, FinalizeEffect DEF Finalized
  <2>1. requests' \in [DOMAIN requests' -> LogicalRequest]
    <3>1. requests' = [requests EXCEPT ![r].status = "COMPLETED", ![r].current = NULL,
                                       ![r].committed = b, ![r].output = o]
      BY <1>5 DEF FinalizeRequest, MayFinalize, TerminalSuccess, FinalizeScope
    <3> HIDE DEF b
    <3> QED
      BY <2>0, <3>1 DEF LogicalRequest, RequestStatus
  <2>2. attempts' \in [DOMAIN attempts' -> Attempt]
    <3>1. attempts' = [attempts EXCEPT ![b].authority = "COMMITTED"]
      BY <1>5 DEF FinalizeRequest, MayFinalize, TerminalSuccess, FinalizeScope
    <3> HIDE DEF b
    <3> QED
      BY <2>0, <3>1 DEF Attempt, AttemptAuthority
  <2> QED
    BY <1>5, <2>1, <2>2, FinalizeEffect DEF Finalized, EvidenceTypeOK
<1>6. ASSUME NEW i \in EvidenceIds, NEW e \in EvidenceRecords,
             RecordEvidence(i, e, FencingIds \cup {}), UNCHANGED fencingVars
      PROVE  TypeOK'
  BY <1>6 DEF RecordEvidence, MayRecord, NotYetRecorded, EvidenceTypeOK, fencingVars
<1>7. CASE UNCHANGED vars
  BY <1>7 DEF vars, EvidenceTypeOK
<1> QED
  BY <1>1, <1>2, <1>3, <1>4, <1>5, <1>6, <1>7
     DEF Next, AttemptStep, CompleteAttempt, ExecutionStatus
---------------------------------------------------------------------------
(* No operation makes a reference dangle or gives an identifier a second   *)
(* meaning.                                                                *)
LEMMA StoreWellFormedStep == IInv /\ [Next]_vars => StoreWellFormed'
<1> SUFFICES ASSUME IInv, [Next]_vars
             PROVE  StoreWellFormed'
  OBVIOUS
<1> USE IdAssumption DEF IInv
<1>1. ASSUME NEW r \in RequestIds, NEW c \in ContinuationIds, CreateRequest(r, c, {})
      PROVE  StoreWellFormed'
  BY <1>1
     DEF StoreWellFormed, TypeOK, EvidenceTypeOK, LogicalRequest, Attempt, Output, FencingIds,
         CreateRequest, NewRequest, Put, Unique
<1>2. ASSUME NEW a \in AttemptIds, NEW r \in RequestIds, StartAttempt(a, r, {})
      PROVE  StoreWellFormed'
  BY <1>2
     DEF StoreWellFormed, TypeOK, EvidenceTypeOK, LogicalRequest, Attempt, Output,
         FencingIds, StartAttempt, MayStart, AcceptsAttempt, Fenced, Put, Unique
<1>3. ASSUME NEW a \in AttemptIds, NEW status \in ExecutionStatus, SetAttemptExecution(a, status)
      PROVE  StoreWellFormed'
  BY <1>3
     DEF StoreWellFormed, TypeOK, EvidenceTypeOK, LogicalRequest, Attempt, Output,
         FencingIds, SetAttemptExecution, MayReport, MayBecome
<1>4. ASSUME NEW o \in OutputIds, NEW a \in AttemptIds, NEW terminal \in BOOLEAN,
             NEW ids \in SUBSET EvidenceIds, CreateOutput(o, a, terminal, ids, {})
      PROVE  StoreWellFormed'
  BY <1>4
     DEF StoreWellFormed, TypeOK, EvidenceTypeOK, LogicalRequest, Attempt, Output,
         FencingIds, CreateOutput, MayCreateOutput, EvidenceKnown, Put, Unique
<1>5. ASSUME NEW r \in RequestIds, NEW o \in OutputIds, NEW now \in Times, FinalizeRequest(r, o, now)
      PROVE  StoreWellFormed'
  BY <1>5
     DEF StoreWellFormed, TypeOK, EvidenceTypeOK, LogicalRequest, Attempt, Output,
         FencingIds, FinalizeRequest, MayFinalize, TerminalSuccess, FinalizeScope
<1>6. ASSUME NEW i \in EvidenceIds, NEW e \in EvidenceRecords,
             RecordEvidence(i, e, FencingIds \cup {}), UNCHANGED fencingVars
      PROVE  StoreWellFormed'
  BY <1>6
     DEF StoreWellFormed, TypeOK, EvidenceTypeOK, LogicalRequest, Attempt, Output,
         FencingIds, RecordEvidence, MayRecord, NotYetRecorded, fencingVars
<1>7. CASE UNCHANGED vars
  BY <1>7
     DEF vars, StoreWellFormed, TypeOK, EvidenceTypeOK, LogicalRequest, Attempt, Output,
         FencingIds
<1> QED
  BY <1>1, <1>2, <1>3, <1>4, <1>5, <1>6, <1>7
     DEF Next, AttemptStep, CompleteAttempt, ExecutionStatus
---------------------------------------------------------------------------
(* Every operation moves current_attempt_id and the authority of the       *)
(* attempts together.                                                      *)
LEMMA AuthorityMatchesPointersStep == IInv /\ [Next]_vars => AuthorityMatchesPointers'
<1> SUFFICES ASSUME IInv, [Next]_vars
             PROVE  AuthorityMatchesPointers'
  OBVIOUS
<1> USE IdAssumption DEF IInv
<1>1. ASSUME NEW r \in RequestIds, NEW c \in ContinuationIds, CreateRequest(r, c, {})
      PROVE  AuthorityMatchesPointers'
  BY <1>1
     DEF AuthorityMatchesPointers, StoreWellFormed, TypeOK, LogicalRequest, Attempt, Output,
         CreateRequest, NewRequest, Put, Unique, FencingIds
<1>2. ASSUME NEW a \in AttemptIds, NEW r \in RequestIds, StartAttempt(a, r, {})
      PROVE  AuthorityMatchesPointers'
  BY <1>2, SMTT(30)
     DEF AuthorityMatchesPointers, StoreWellFormed, TypeOK, LogicalRequest, Attempt,
         Output, StartAttempt, MayStart, AcceptsAttempt, Fenced, Put, Unique, FencingIds
<1>3. ASSUME NEW a \in AttemptIds, NEW status \in ExecutionStatus, SetAttemptExecution(a, status)
      PROVE  AuthorityMatchesPointers'
  BY <1>3
     DEF AuthorityMatchesPointers, StoreWellFormed, TypeOK, LogicalRequest, Attempt,
         Output, SetAttemptExecution, MayReport, MayBecome
<1>4. ASSUME NEW o \in OutputIds, NEW a \in AttemptIds, NEW terminal \in BOOLEAN,
             NEW ids \in SUBSET EvidenceIds, CreateOutput(o, a, terminal, ids, {})
      PROVE  AuthorityMatchesPointers'
  BY <1>4
     DEF AuthorityMatchesPointers, StoreWellFormed, TypeOK, LogicalRequest, Attempt,
         Output, CreateOutput, MayCreateOutput, EvidenceKnown, Put, Unique, FencingIds
<1>5. ASSUME NEW r \in RequestIds, NEW o \in OutputIds, NEW now \in Times, FinalizeRequest(r, o, now)
      PROVE  AuthorityMatchesPointers'
  <2> DEFINE b == outputs[o].attempt
  <2>1. attempts[b].request = r
    BY <1>5, FinalizeEffect DEF Finalized, AuthorityMatchesPointers
  <2>2. \A x \in DOMAIN attempts : attempts'[x].request = attempts[x].request
    BY <1>5, FinalizeEffect DEF Finalized, TypeOK, Attempt
  <2>3. \A x \in DOMAIN attempts : x # b =>
          /\ attempts'[x] = attempts[x]
          /\ attempts[x].request = r => attempts[x].authority \notin {"CURRENT", "COMMITTED"}
    <3>1. requests[r].committed = NULL
      BY <1>5, FinalizeEffect DEF Finalized, CommitConsistent, TerminalRequest
    <3> QED
      BY <1>5, <3>1, FinalizeEffect DEF Finalized, AuthorityMatchesPointers, TypeOK
  <2>4. /\ requests'[r].current = NULL /\ requests'[r].committed = b
        /\ attempts'[b].authority = "COMMITTED"
    BY <1>5, FinalizeEffect DEF Finalized, TypeOK, LogicalRequest, Attempt
  <2> HIDE DEF b
  <2> QED
    BY <1>5, <2>1, <2>2, <2>3, <2>4, FinalizeEffect, SMTT(30)
       DEF Finalized, AuthorityMatchesPointers, StoreWellFormed, TypeOK, b
<1>6. ASSUME NEW i \in EvidenceIds, NEW e \in EvidenceRecords,
             RecordEvidence(i, e, FencingIds \cup {}), UNCHANGED fencingVars
      PROVE  AuthorityMatchesPointers'
  BY <1>6
     DEF AuthorityMatchesPointers, StoreWellFormed, TypeOK, LogicalRequest, Attempt,
         Output, RecordEvidence, MayRecord, NotYetRecorded, FencingIds, fencingVars
<1>7. CASE UNCHANGED vars
  BY <1>7
     DEF vars, AuthorityMatchesPointers, StoreWellFormed, TypeOK, LogicalRequest, Attempt,
         Output
<1> QED
  BY <1>1, <1>2, <1>3, <1>4, <1>5, <1>6, <1>7
     DEF Next, AttemptStep, CompleteAttempt, ExecutionStatus
---------------------------------------------------------------------------
(* Only finalize_request completes a request, and it writes the request,   *)
(* the attempt and the output together; later reports and attempts change  *)
(* none of them.                                                           *)
LEMMA CommitConsistentStep == IInv /\ [Next]_vars => CommitConsistent'
<1> SUFFICES ASSUME IInv, [Next]_vars
             PROVE  CommitConsistent'
  OBVIOUS
<1> USE IdAssumption DEF IInv
<1>1. ASSUME NEW r \in RequestIds, NEW c \in ContinuationIds, CreateRequest(r, c, {})
      PROVE  CommitConsistent'
  BY <1>1
     DEF CommitConsistent, AuthorityMatchesPointers, StoreWellFormed, TypeOK, LogicalRequest,
         Attempt, Output, AttemptsOf, TerminalRequest, RequestStatus, CreateRequest,
         NewRequest, Put, Unique, FencingIds
<1>2. ASSUME NEW a \in AttemptIds, NEW r \in RequestIds, StartAttempt(a, r, {})
      PROVE  CommitConsistent'
  BY <1>2
     DEF CommitConsistent, AuthorityMatchesPointers, StoreWellFormed, TypeOK,
         LogicalRequest, Attempt, Output, AttemptsOf, TerminalRequest, RequestStatus,
         StartAttempt, MayStart, AcceptsAttempt, Fenced, Put, Unique, FencingIds
<1>3. ASSUME NEW a \in AttemptIds, NEW status \in ExecutionStatus, SetAttemptExecution(a, status)
      PROVE  CommitConsistent'
  <2>1. \A x \in DOMAIN attempts : /\ attempts'[x].request = attempts[x].request
                                  /\ attempts'[x].generation = attempts[x].generation
    BY <1>3 DEF SetAttemptExecution, MayReport, MayBecome, TypeOK, Attempt
  <2>2. \A x \in DOMAIN attempts : attempts[x].execution = "SUCCEEDED"
                                  => attempts'[x].execution = "SUCCEEDED"
    BY <1>3
       DEF SetAttemptExecution, MayReport, MayBecome, TypeOK, Attempt, TerminalExecution
  <2>3. \A q : AttemptsOf(q)' = AttemptsOf(q)
    BY <1>3, <2>1, GenerationsFrame DEF SetAttemptExecution, MayReport, MayBecome, TypeOK
  <2> QED
    BY <1>3, <2>2, <2>3
       DEF SetAttemptExecution, MayReport, MayBecome, CommitConsistent, StoreWellFormed
<1>4. ASSUME NEW o \in OutputIds, NEW a \in AttemptIds, NEW terminal \in BOOLEAN,
             NEW ids \in SUBSET EvidenceIds, CreateOutput(o, a, terminal, ids, {})
      PROVE  CommitConsistent'
  BY <1>4
     DEF CommitConsistent, AuthorityMatchesPointers, StoreWellFormed, TypeOK,
         LogicalRequest, Attempt, Output, AttemptsOf, TerminalRequest, RequestStatus,
         CreateOutput, MayCreateOutput, EvidenceKnown, Put, Unique, FencingIds
<1>5. ASSUME NEW r \in RequestIds, NEW o \in OutputIds, NEW now \in Times, FinalizeRequest(r, o, now)
      PROVE  CommitConsistent'
  BY <1>5
     DEF CommitConsistent, AuthorityMatchesPointers, StoreWellFormed, TypeOK,
         LogicalRequest, Attempt, Output, AttemptsOf, TerminalRequest, RequestStatus,
         FinalizeRequest, MayFinalize, TerminalSuccess, FinalizeScope
<1>6. ASSUME NEW i \in EvidenceIds, NEW e \in EvidenceRecords,
             RecordEvidence(i, e, FencingIds \cup {}), UNCHANGED fencingVars
      PROVE  CommitConsistent'
  BY <1>6
     DEF CommitConsistent, AuthorityMatchesPointers, StoreWellFormed, TypeOK,
         LogicalRequest, Attempt, Output, AttemptsOf, TerminalRequest, RequestStatus,
         RecordEvidence, MayRecord, NotYetRecorded, FencingIds, fencingVars
<1>7. CASE UNCHANGED vars
  BY <1>7
     DEF vars, CommitConsistent, AuthorityMatchesPointers, StoreWellFormed, TypeOK,
         LogicalRequest, Attempt, Output, AttemptsOf, TerminalRequest, RequestStatus
<1> QED
  BY <1>1, <1>2, <1>3, <1>4, <1>5, <1>6, <1>7
     DEF Next, AttemptStep, CompleteAttempt, ExecutionStatus
---------------------------------------------------------------------------
(* The Evidence that allowed a commit stays recorded and keeps its scope.  *)
LEMMA CommitIsEvidencedStep == IInv /\ [Next]_vars => CommitIsEvidenced'
<1> SUFFICES ASSUME IInv, [Next]_vars
             PROVE  CommitIsEvidenced'
  OBVIOUS
<1> USE IdAssumption DEF IInv
<1>1. ASSUME NEW r \in RequestIds, NEW c \in ContinuationIds, CreateRequest(r, c, {})
      PROVE  CommitIsEvidenced'
  <2>1. \A q \in DOMAIN requests' : requests'[q].status = "COMPLETED"
          => q \in DOMAIN requests /\ requests'[q] = requests[q]
    BY <1>1 DEF CreateRequest, NewRequest, Put
  <2> QED
    BY <1>1, <2>1 DEF CreateRequest, NewRequest, CommitIsEvidenced
<1>2. ASSUME NEW a \in AttemptIds, NEW r \in RequestIds, StartAttempt(a, r, {})
      PROVE  CommitIsEvidenced'
  BY <1>2
     DEF CommitIsEvidenced, CommitConsistent, AuthorityMatchesPointers, StoreWellFormed,
         TypeOK, LogicalRequest, Attempt, Output, TerminalRequest, StartAttempt, MayStart,
         AcceptsAttempt, Fenced, Put, Unique, FencingIds
<1>3. ASSUME NEW a \in AttemptIds, NEW status \in ExecutionStatus, SetAttemptExecution(a, status)
      PROVE  CommitIsEvidenced'
  BY <1>3
     DEF CommitIsEvidenced, CommitConsistent, AuthorityMatchesPointers, StoreWellFormed,
         TypeOK, LogicalRequest, Attempt, Output, TerminalRequest, SetAttemptExecution,
         MayReport, MayBecome
<1>4. ASSUME NEW o \in OutputIds, NEW a \in AttemptIds, NEW terminal \in BOOLEAN,
             NEW ids \in SUBSET EvidenceIds, CreateOutput(o, a, terminal, ids, {})
      PROVE  CommitIsEvidenced'
  BY <1>4
     DEF CommitIsEvidenced, CommitConsistent, AuthorityMatchesPointers, StoreWellFormed,
         TypeOK, LogicalRequest, Attempt, Output, TerminalRequest, CreateOutput,
         MayCreateOutput, EvidenceKnown, Put, Unique, FencingIds
<1>5. ASSUME NEW r \in RequestIds, NEW o \in OutputIds, NEW now \in Times, FinalizeRequest(r, o, now)
      PROVE  CommitIsEvidenced'
  <2> DEFINE b == outputs[o].attempt
             ids == outputs[o].evidence
  <2>1. ids \subseteq DOMAIN evidence
    BY <1>5, FinalizeEffect DEF Finalized, StoreWellFormed
  <2>2. RequireEvidence("finalize", ids, now, {<<"attempt", b>>}, NULL)
    BY <1>5 DEF FinalizeRequest, MayFinalize, TerminalSuccess, FinalizeScope
  <2>3. \A i \in ids : evidence[i].status # "AMBIGUOUS"
    BY <2>1, <2>2 DEF RequireEvidence, AnyAmbiguous, Presented, CorrectnessSensitive
  <2>4. PICK i \in ids : /\ evidence[i].status = "VALID"
                         /\ evidence[i].authority >= EXACT_OBSERVATION
                         /\ <<"attempt", b>> \in evidence[i].scope
    BY <2>1, <2>2
       DEF RequireEvidence, Good, Usable, Presented, RequiredAuthority, CorrectnessSensitive
  <2>5. requests'[r].output = o /\ requests'[r].committed = b
    BY <1>5, FinalizeEffect DEF Finalized, TypeOK, LogicalRequest
  <2> HIDE DEF b, ids
  <2> QED
    BY <1>5, <2>1, <2>3, <2>4, <2>5, FinalizeEffect DEF Finalized, CommitIsEvidenced, ids
<1>6. ASSUME NEW i \in EvidenceIds, NEW e \in EvidenceRecords,
             RecordEvidence(i, e, FencingIds \cup {}), UNCHANGED fencingVars
      PROVE  CommitIsEvidenced'
  BY <1>6
     DEF CommitIsEvidenced, CommitConsistent, AuthorityMatchesPointers, StoreWellFormed,
         TypeOK, LogicalRequest, Attempt, Output, TerminalRequest, RecordEvidence,
         MayRecord, NotYetRecorded, FencingIds, fencingVars
<1>7. CASE UNCHANGED vars
  BY <1>7
     DEF vars, CommitIsEvidenced, CommitConsistent, AuthorityMatchesPointers, StoreWellFormed,
         TypeOK, LogicalRequest, Attempt, Output, TerminalRequest
<1> QED
  BY <1>1, <1>2, <1>3, <1>4, <1>5, <1>6, <1>7
     DEF Next, AttemptStep, CompleteAttempt, ExecutionStatus
---------------------------------------------------------------------------
(* start_attempt takes the next generation and fences the attempt before;  *)
(* no other operation gives authority.                                     *)
LEMMA NewestHoldsAuthorityStep == IInv /\ [Next]_vars => NewestHoldsAuthority'
<1> SUFFICES ASSUME IInv, [Next]_vars
             PROVE  NewestHoldsAuthority'
  OBVIOUS
<1> USE DEF IInv
<1>0. ASSUME DOMAIN attempts' = DOMAIN attempts, DOMAIN requests' = DOMAIN requests,
             \A x \in DOMAIN attempts :
               /\ attempts'[x].request = attempts[x].request
               /\ attempts'[x].generation = attempts[x].generation
               /\ attempts'[x].authority \in {"CURRENT", "COMMITTED"}
                    => attempts[x].authority \in {"CURRENT", "COMMITTED"}
      PROVE  NewestHoldsAuthority'
  <2>1. \A q : AttemptsOf(q)' = AttemptsOf(q) /\ Generations(q)' = Generations(q)
    BY <1>0, GenerationsFrame
  <2>2. \A q : AttemptsOf(q) \subseteq DOMAIN attempts
    BY DEF AttemptsOf
  <2> QED
    BY <1>0, <2>1, <2>2 DEF NewestHoldsAuthority
<1>1. ASSUME NEW r \in RequestIds, NEW c \in ContinuationIds, CreateRequest(r, c, {})
      PROVE  NewestHoldsAuthority'
  <2>1. \A q : AttemptsOf(q)' = AttemptsOf(q) /\ Generations(q)' = Generations(q)
    BY <1>1, GenerationsFrame DEF CreateRequest, NewRequest
  <2>2. AttemptsOf(r) = {} /\ Generations(r) = {}
    BY <1>1
       DEF AttemptsOf, Generations, StoreWellFormed, CreateRequest, NewRequest, Unique,
           FencingIds
  <2>3. {} = 1..0
    OBVIOUS
  <2>4. attempts' = attempts /\ \A q \in DOMAIN requests' : q # r => q \in DOMAIN requests
    BY <1>1 DEF CreateRequest, NewRequest, Put
  <2> QED
    BY <2>1, <2>2, <2>3, <2>4 DEF NewestHoldsAuthority
<1>2. ASSUME NEW a \in AttemptIds, NEW r \in RequestIds, StartAttempt(a, r, {})
      PROVE  NewestHoldsAuthority'
  <2>0. Started(a, r)
    BY <1>2, StartEffect
  <2>1. r \in DOMAIN requests /\ a \notin DOMAIN attempts
    BY <2>0 DEF Started
  <2>2. PICK n \in Nat : /\ Generations(r) = 1..n /\ NextGeneration(r) = n + 1
                         /\ Generations(r)' = 1..(n + 1)
    BY <1>2, StartGenerations
  <2>3. /\ attempts'[a].request = r /\ attempts'[a].generation = n + 1
        /\ DOMAIN requests' = DOMAIN requests
    BY <2>0, <2>2 DEF Started
  <2>4. \A x \in DOMAIN attempts :
          /\ attempts'[x].generation = attempts[x].generation
          /\ attempts'[x].authority \in {"CURRENT", "COMMITTED"}
               => attempts'[x] = attempts[x] /\ x # requests[r].current
    BY <2>0 DEF Started
  <2>5. AttemptsOf(r)' = AttemptsOf(r) \cup {a} /\ Generations(r)' = 1..(n+1)
    BY <1>2, <2>2, StartGenerations
  <2>6. \A q : q # r => AttemptsOf(q)' = AttemptsOf(q) /\ Generations(q)' = Generations(q)
    BY <1>2, StartGenerations
  <2>7. \A x \in AttemptsOf(r) : /\ attempts'[x].authority \notin {"CURRENT", "COMMITTED"}
                               /\ x \in DOMAIN attempts /\ attempts[x].generation \in 1..n
    <3>1. requests[r].committed = NULL
      BY <1>2
         DEF StartAttempt, MayStart, AcceptsAttempt, Fenced, CommitConsistent,
             TerminalRequest
    <3>2. ASSUME NEW x \in DOMAIN attempts, attempts[x].request = r
          PROVE  attempts'[x].authority \notin {"CURRENT", "COMMITTED"}
      <4>1. x # NULL
        BY IdAssumption DEF TypeOK
      <4> QED
        BY <2>1, <2>4, <3>1, <3>2, <4>1 DEF AuthorityMatchesPointers
    <3>3. \A x \in AttemptsOf(r) : x \in DOMAIN attempts /\ attempts[x].request = r
      BY DEF AttemptsOf
    <3>4. \A x \in AttemptsOf(r) : attempts[x].generation \in Generations(r)
      BY DEF Generations
    <3> QED
      BY <2>2, <3>2, <3>3, <3>4
  <2>8. \A q : AttemptsOf(q) \subseteq DOMAIN attempts
    BY DEF AttemptsOf
  <2>9. ASSUME NEW q \in DOMAIN requests, q # r
        PROVE  /\ \A x, y \in AttemptsOf(q)' : attempts'[x].generation = attempts'[y].generation => x = y
               /\ \E m \in {0} \cup Generations(q)' : Generations(q)' = 1..m
               /\ \A x \in AttemptsOf(q)' :
                    attempts'[x].authority \in {"CURRENT", "COMMITTED"}
                      => \A m \in Generations(q)' : m <= attempts'[x].generation
    BY <2>4, <2>6, <2>8, <2>9 DEF NewestHoldsAuthority
  <2>10. \A x, y \in AttemptsOf(r)' : attempts'[x].generation = attempts'[y].generation => x = y
    BY <2>1, <2>3, <2>4, <2>5, <2>7 DEF NewestHoldsAuthority
  <2>11. \A x \in AttemptsOf(r)' :
           attempts'[x].authority \in {"CURRENT", "COMMITTED"}
             => \A m \in Generations(r)' : m <= attempts'[x].generation
    BY <2>3, <2>5, <2>7
  <2>12. \E m \in {0} \cup Generations(r)' : Generations(r)' = 1..m
    BY <2>5
  <2> QED
    BY <2>3, <2>9, <2>10, <2>11, <2>12 DEF NewestHoldsAuthority
<1>3. ASSUME NEW a \in AttemptIds, NEW status \in ExecutionStatus, SetAttemptExecution(a, status)
      PROVE  NewestHoldsAuthority'
  BY <1>0, <1>3 DEF SetAttemptExecution, MayReport, MayBecome, TypeOK, Attempt
<1>4. CASE UNCHANGED <<requests, attempts>>
  BY <1>0, <1>4
<1>5. ASSUME NEW r \in RequestIds, NEW o \in OutputIds, NEW now \in Times, FinalizeRequest(r, o, now)
      PROVE  NewestHoldsAuthority'
  BY <1>0, <1>5, FinalizeEffect DEF Finalized, TypeOK, Attempt
<1>6. ASSUME NEW o \in OutputIds, NEW a \in AttemptIds, NEW terminal \in BOOLEAN,
             NEW ids \in SUBSET EvidenceIds, CreateOutput(o, a, terminal, ids, {})
      PROVE  NewestHoldsAuthority'
  BY <1>4, <1>6 DEF CreateOutput, MayCreateOutput, EvidenceKnown
<1> QED
  BY <1>1, <1>2, <1>3, <1>4, <1>5, <1>6
     DEF Next, AttemptStep, CompleteAttempt, ExecutionStatus, vars, fencingVars

---------------------------------------------------------------------------
(* IInv holds initially and every step keeps it.                           *)
LEMMA Initially == Init => IInv
BY
   DEF Init, EvidenceInit, FencingInit, IInv, TypeOK, EvidenceTypeOK, StoreWellFormed,
       FencingIds,
       AuthorityMatchesPointers, NewestHoldsAuthority, CommitConsistent, CommitIsEvidenced

(* The inductive step: the conjuncts of IInv one by one.                   *)
LEMMA Inductive == IInv /\ [Next]_vars => IInv'
<1> SUFFICES ASSUME IInv, [Next]_vars
             PROVE  IInv'
  OBVIOUS
<1>1. TypeOK'
  BY TypeStep DEF IInv
<1> QED
  BY <1>1, StoreWellFormedStep, AuthorityMatchesPointersStep, NewestHoldsAuthorityStep,
     CommitConsistentStep, CommitIsEvidencedStep DEF IInv

(* The inductive invariant holds in every reachable state of the core.     *)
THEOREM InvariantHolds == Spec => []IInv
BY Initially, Inductive, PTL DEF Spec

(* The stores stay well typed.                                             *)
THEOREM TypeCorrect == Spec => []TypeOK
BY InvariantHolds, PTL DEF IInv

(* No identifier is reused and no reference dangles, even when the sets of *)
(* identifiers offered for the different collections overlap.              *)
THEOREM WellFormed == Spec => []StoreWellFormed
BY InvariantHolds, PTL DEF IInv

(* One CURRENT attempt at most, and one COMMITTED, as the request says.    *)
THEOREM SingleAuthority == Spec => []AuthorityMatchesPointers
BY InvariantHolds, PTL DEF IInv

(* Generations are contiguous and only the newest attempt has authority.   *)
THEOREM NewestAuthority == Spec => []NewestHoldsAuthority
BY InvariantHolds, PTL DEF IInv

(* A completed request, its committed attempt and its output agree.        *)
THEOREM CommitsConsistent == Spec => []CommitConsistent
BY InvariantHolds, PTL DEF IInv

(* All of it together: what the oracle asserts always holds.               *)
THEOREM OracleNeverFails == Spec => []OracleHolds
BY InvariantHolds, PTL DEF IInv, OracleHolds

(* No request completes without exact Evidence about the attempt.          *)
THEOREM CommitsEvidenced == Spec => []CommitIsEvidenced
BY InvariantHolds, PTL DEF IInv

---------------------------------------------------------------------------
(* Every step keeps what has been decided.                                 *)
LEMMA FinalStep == IInv /\ [Next]_vars => Final
<1> SUFFICES ASSUME IInv, Next
             PROVE  Final
  BY DEF Final, vars
<1> USE DEF IInv, Final
<1>1. ASSUME NEW r \in RequestIds, NEW c \in ContinuationIds, CreateRequest(r, c, {})
      PROVE  Final
  BY <1>1 DEF CreateRequest, NewRequest, Put, Unique, FencingIds
<1>2. ASSUME NEW a \in AttemptIds, NEW r \in RequestIds, StartAttempt(a, r, {})
      PROVE  Final
  BY <1>2, StartEffect, ZenonT(60) DEF Started, TerminalRequest
<1>3. ASSUME NEW a \in AttemptIds, NEW status \in ExecutionStatus, SetAttemptExecution(a, status)
      PROVE  Final
  BY <1>3 DEF SetAttemptExecution, MayReport, MayBecome, TypeOK, Attempt
<1>4. ASSUME NEW o \in OutputIds, NEW a \in AttemptIds, NEW terminal \in BOOLEAN,
             NEW ids \in SUBSET EvidenceIds, CreateOutput(o, a, terminal, ids, {})
      PROVE  Final
  BY <1>4 DEF CreateOutput, MayCreateOutput, EvidenceKnown, Put, Unique, FencingIds
<1>5. ASSUME NEW r \in RequestIds, NEW o \in OutputIds, NEW now \in Times, FinalizeRequest(r, o, now)
      PROVE  Final
  BY <1>5, FinalizeEffect DEF Finalized, TerminalRequest
<1>6. ASSUME NEW i \in EvidenceIds, NEW e \in EvidenceRecords,
             RecordEvidence(i, e, FencingIds \cup {}), UNCHANGED fencingVars
      PROVE  Final
  BY <1>6 DEF RecordEvidence, MayRecord, NotYetRecorded, fencingVars
<1> QED
  BY <1>1, <1>2, <1>3, <1>4, <1>5, <1>6
     DEF Next, AttemptStep, CompleteAttempt, ExecutionStatus

(* Nothing decided is undone by any operation.                             *)
THEOREM Finality == Spec => DecisionsAreFinal
BY FinalStep, InvariantHolds, PTL DEF Spec, DecisionsAreFinal

---------------------------------------------------------------------------
(* The newest generation of a request with an authoritative attempt is     *)
(* that attempt's.                                                         *)
LEMMA TokenOfHolder ==
  ASSUME IInv, NEW r \in DOMAIN requests, NEW a \in DOMAIN attempts, attempts[a].request = r,
         attempts[a].authority \in {"CURRENT", "COMMITTED"}
  PROVE  NextGeneration(r) - 1 = attempts[a].generation /\ attempts[a].generation > 0
<1>1. PICK n \in Nat : Generations(r) = 1..n /\ NextGeneration(r) = n + 1
  BY NextGenerationIsNat DEF IInv
<1>2. a \in AttemptsOf(r) /\ attempts[a].generation \in 1..n
  BY <1>1 DEF AttemptsOf, Generations
<1>3. \A m \in 1..n : m <= attempts[a].generation
  BY <1>1, <1>2 DEF IInv, NewestHoldsAuthority
<1> QED
  BY <1>1, <1>2, <1>3

(* The core implements the fenced write-once register.                     *)
THEOREM Refinement == Spec => ImplementsFencedRegister
<1>1. Init => Register!Init
  <2> SUFFICES ASSUME Init
               PROVE  Register!Init
    OBVIOUS
  <2>1. \A r : Generations(r) = 1..0
    BY DEF Init, FencingInit, Generations, AttemptsOf
  <2>2. \A r : NextGeneration(r) = 1
    BY <2>1, NextGenerationAfter
  <2> QED
    BY <2>2 DEF Init, FencingInit, Register!Init, RegisterToken, RegisterValue, RegisterWriter
<1>2. IInv /\ [Next]_vars => [Register!Next]_(Register!vars)
  <2> SUFFICES ASSUME IInv, [Next]_vars
               PROVE  [Register!Next]_(Register!vars)
    OBVIOUS
  <2> USE DEF IInv
  <2>0. ASSUME \A q : NextGeneration(q)' = NextGeneration(q),
               RegisterValue' = RegisterValue, RegisterWriter' = RegisterWriter
        PROVE  [Register!Next]_(Register!vars)
    BY <2>0 DEF Register!vars, RegisterToken
  <2>1. ASSUME UNCHANGED attempts
        PROVE  \A q : NextGeneration(q)' = NextGeneration(q)
    BY <2>1 DEF NextGeneration, Generations, AttemptsOf
  <2>2. ASSUME NEW r \in RequestIds, NEW c \in ContinuationIds, CreateRequest(r, c, {})
        PROVE  [Register!Next]_(Register!vars)
    BY <2>0, <2>1, <2>2
       DEF CreateRequest, NewRequest, Put, Unique, FencingIds, RegisterValue, RegisterWriter
  <2>3. ASSUME NEW a \in AttemptIds, NEW r \in RequestIds, StartAttempt(a, r, {})
        PROVE  [Register!Next]_(Register!vars)
    <3>0. Started(a, r)
      BY <2>3, StartEffect
    <3>1. RegisterValue[r] = NULL
      BY <3>0 DEF Started, RegisterValue, CommitConsistent, TerminalRequest
    <3>2. RegisterValue' = RegisterValue
      BY <3>0 DEF Started, RegisterValue
    <3>3. RegisterWriter' = RegisterWriter
      BY <3>0 DEF Started, RegisterWriter, StoreWellFormed
    <3>4. RegisterToken' = [RegisterToken EXCEPT ![r] = @ + 1]
      <4>1. NextGeneration(r)' = NextGeneration(r) + 1 /\ NextGeneration(r) \in Nat
        BY <2>3, StartGenerations
      <4>2. \A q : q # r => NextGeneration(q)' = NextGeneration(q)
        BY <2>3, StartGenerations
      <4>3. \A q \in RequestIds :
              RegisterToken'[q] = IF q = r THEN RegisterToken[q] + 1 ELSE RegisterToken[q]
        BY <4>1, <4>2 DEF RegisterToken
      <4> QED
        BY <4>3 DEF RegisterToken
    <3> QED
      BY <3>1, <3>2, <3>3, <3>4 DEF Register!Next, Register!Issue
  <2>4. ASSUME NEW a \in AttemptIds, NEW status \in ExecutionStatus, SetAttemptExecution(a, status)
        PROVE  [Register!Next]_(Register!vars)
    <3>1. /\ DOMAIN attempts' = DOMAIN attempts /\ requests' = requests
          /\ \A x \in DOMAIN attempts : /\ attempts'[x].request = attempts[x].request
                                       /\ attempts'[x].generation = attempts[x].generation
      BY <2>4 DEF SetAttemptExecution, MayReport, MayBecome, TypeOK, Attempt
    <3>2. \A q : NextGeneration(q)' = NextGeneration(q)
      BY <3>1, GenerationsFrame DEF NextGeneration
    <3> QED
      BY <2>0, <3>1, <3>2 DEF RegisterValue, RegisterWriter, StoreWellFormed
  <2>5. ASSUME NEW o \in OutputIds, NEW a \in AttemptIds, NEW terminal \in BOOLEAN,
               NEW ids \in SUBSET EvidenceIds, CreateOutput(o, a, terminal, ids, {})
        PROVE  [Register!Next]_(Register!vars)
    BY <2>0, <2>1, <2>5
       DEF CreateOutput, MayCreateOutput, EvidenceKnown, RegisterValue, RegisterWriter
  <2>6. ASSUME NEW r \in RequestIds, NEW o \in OutputIds, NEW now \in Times, FinalizeRequest(r, o, now)
        PROVE  [Register!Next]_(Register!vars)
    <3> DEFINE b == outputs[o].attempt
    <3>0. Finalized(r, o)
      BY <2>6, FinalizeEffect
    <3>1. b \in DOMAIN attempts /\ attempts[b].request = r
      BY <3>0 DEF Finalized, AuthorityMatchesPointers
    <3>2. RegisterToken[r] = attempts[b].generation /\ RegisterToken[r] > 0
      BY <3>0, <3>1, TokenOfHolder DEF Finalized, RegisterToken
    <3>3. \A q : NextGeneration(q)' = NextGeneration(q)
      BY <3>0, GenerationsFrame DEF Finalized, NextGeneration
    <3>4. RegisterValue[r] = NULL
      BY <3>0 DEF Finalized, RegisterValue, CommitConsistent, TerminalRequest
    <3>5. RegisterValue' = [RegisterValue EXCEPT ![r] = o]
      BY <3>0 DEF Finalized, RegisterValue
    <3>6. RegisterWriter' = [RegisterWriter EXCEPT ![r] = RegisterToken[r]]
      <4>1. RegisterWriter'[r] = RegisterToken[r]
        BY <3>0, <3>1, <3>2 DEF Finalized, RegisterWriter
      <4>2. \A q \in RequestIds : q # r => RegisterWriter'[q] = RegisterWriter[q]
        BY <3>0 DEF Finalized, RegisterWriter, StoreWellFormed
      <4>3. DOMAIN RegisterWriter' = RequestIds /\ DOMAIN RegisterWriter = RequestIds
        BY DEF RegisterWriter
      <4>4. RegisterWriter' = [q \in RequestIds |-> RegisterWriter'[q]]
        BY DEF RegisterWriter
      <4> QED
        BY <4>1, <4>2, <4>3, <4>4
    <3> QED
      BY <3>2, <3>3, <3>4, <3>5, <3>6 DEF Register!Next, Register!Write, RegisterToken
  <2>7. ASSUME NEW i \in EvidenceIds, NEW e \in EvidenceRecords,
               RecordEvidence(i, e, FencingIds \cup {}), UNCHANGED fencingVars
        PROVE  [Register!Next]_(Register!vars)
    BY <2>0, <2>1, <2>7 DEF fencingVars, RegisterValue, RegisterWriter
  <2>8. CASE UNCHANGED vars
    BY <2>0, <2>1, <2>8 DEF vars, RegisterValue, RegisterWriter
  <2> QED
    BY <2>2, <2>3, <2>4, <2>5, <2>6, <2>7, <2>8
       DEF Next, AttemptStep, CompleteAttempt, ExecutionStatus
<1> QED
  BY <1>1, <1>2, InvariantHolds, PTL DEF Spec, ImplementsFencedRegister, Register!Spec
===========================================================================
