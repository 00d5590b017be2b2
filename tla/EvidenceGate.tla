--------------------------- MODULE EvidenceGate ---------------------------
(***************************************************************************)
(* The Evidence store of the semantic core and the gate every             *)
(* correctness-sensitive operation passes through: record_evidence,        *)
(* require_evidence and reconcile of continuity/core_base.py with the      *)
(* contradiction check that continuity/core.py adds.                       *)
(*                                                                         *)
(* The identifier and the attributes of an Evidence are kept; its free     *)
(* text (claim, source, confidence, the wording of the rule) is not.       *)
(***************************************************************************)
EXTENDS Integers, FiniteSets

CONSTANTS
  EvidenceIds,      \* identifiers an Evidence may be recorded under
  EvidenceRecords,  \* the Evidence values the environment may record
  Times,            \* the values of "now" an operation may be called with
  NULL              \* Python's None

VARIABLE evidence   \* self.evidence: identifier |-> Evidence

---------------------------------------------------------------------------
(* EvidenceAuthority is an IntEnum: authorities are compared as integers.  *)
ESTIMATED == 1
DERIVED == 2
EXACT_OBSERVATION == 3
AUTHORITATIVE == 4
Authority == ESTIMATED..AUTHORITATIVE

EvidenceStatus == {"VALID", "STALE", "UNKNOWN", "FAILED", "AMBIGUOUS"}

(* An Evidence value.  key and value are the optional structured claim,    *)
(* present or absent together; rule says whether a derivation rule was     *)
(* given; support is derived_from.                                         *)
IsEvidence(e) ==
  /\ DOMAIN e = {"authority", "status", "observed", "until", "scope", "key",
                 "value", "support", "rule"}
  /\ e.authority \in Authority
  /\ e.status \in EvidenceStatus
  /\ e.observed \in Int
  /\ e.until \in Int \cup {NULL}
  /\ (e.key = NULL) = (e.value = NULL)
  /\ e.support \subseteq EvidenceIds
  /\ e.rule \in BOOLEAN

ASSUME EvidenceAssumption ==
  /\ \A e \in EvidenceRecords : IsEvidence(e)
  /\ Times \subseteq Int
  /\ NULL \notin Int

CorrectnessSensitive == {"finalize", "consume_state", "commit_migration"}
Ranking == {"rank_endpoint", "estimate_reuse"}

(* REQUIRED_AUTHORITY: the least authority that counts for an action.      *)
RequiredAuthority(action) ==
  IF action \in CorrectnessSensitive THEN EXACT_OBSERVATION ELSE ESTIMATED

---------------------------------------------------------------------------
(* The identifiers of ids under which something is recorded; the others    *)
(* are silently ignored.                                                   *)
Presented(ids) == ids \cap DOMAIN evidence

(* The filter of the loops in require_evidence and in the contradiction    *)
(* check: valid, strong enough, not expired at now, not older than maxAge. *)
Usable(i, action, now, maxAge) ==
  LET e == evidence[i] IN
    /\ e.status = "VALID"
    /\ e.authority >= RequiredAuthority(action)
    /\ e.until = NULL \/ now <= e.until
    /\ maxAge = NULL \/ now - e.observed <= maxAge

(* Two usable Evidences give one claim key two values.                     *)
ConflictingClaims(action, ids, now, maxAge) ==
  \E i, j \in Presented(ids) :
    /\ Usable(i, action, now, maxAge) /\ Usable(j, action, now, maxAge)
    /\ evidence[i].key # NULL
    /\ evidence[i].key = evidence[j].key
    /\ evidence[i].value # evidence[j].value

AnyAmbiguous(ids) == \E i \in Presented(ids) : evidence[i].status = "AMBIGUOUS"

(* The list require_evidence returns, as a set of identifiers.             *)
Good(action, ids, now, scope, maxAge) ==
  {i \in Presented(ids) : /\ Usable(i, action, now, maxAge)
                         /\ scope \subseteq evidence[i].scope}

(* Mutant: require_evidence without the contradiction check.               *)
RequireEvidenceUnchecked(action, ids, now, scope, maxAge) ==
  /\ action \in CorrectnessSensitive => ~AnyAmbiguous(ids)
  /\ Good(action, ids, now, scope, maxAge) # {}

(* core.require_evidence returns; FALSE stands for InsufficientEvidence.   *)
RequireEvidence(action, ids, now, scope, maxAge) ==
  /\ action \in CorrectnessSensitive =>
       /\ ~AnyAmbiguous(ids)
       /\ ~ConflictingClaims(action, ids, now, maxAge)
  /\ Good(action, ids, now, scope, maxAge) # {}

(* core.reconcile.                                                         *)
Reconcile(action, ids, now, scope) ==
  IF AnyAmbiguous(ids) \/ ConflictingClaims(action, ids, now, NULL) THEN "AMBIGUOUS"
  ELSE IF RequireEvidence(action, ids, now, scope, NULL) THEN "MATCHED"
  ELSE "WAIT"

---------------------------------------------------------------------------
(* Mutant: no look at the status of the supports.                          *)
AnySupports(e) == TRUE

(* A VALID Evidence is derived from VALID ones only.                       *)
ValidSupports(e) ==
  e.status = "VALID" => \A i \in e.support : evidence[i].status = "VALID"

(* A new value e may enter the store: only DERIVED Evidence names supports *)
(* and a rule, its supports exist, their scopes cover its scope, and it is *)
(* VALID only when they all are.                                           *)
DerivationAdmissible(e) ==
  /\ IF e.authority = DERIVED THEN e.support # {} /\ e.rule
                              ELSE e.support = {} /\ ~e.rule
  /\ e.support \subseteq DOMAIN evidence
  /\ e.support # {} => /\ e.scope \subseteq UNION {evidence[i].scope : i \in e.support}
                       /\ ValidSupports(e)

NotYetRecorded(i) == i \notin DOMAIN evidence

(* record_evidence of a new identifier; used is the set of identifiers     *)
(* taken in the core's other collections (_unique).  Recording the same    *)
(* value again returns it, a different value is refused: neither changes   *)
(* the store.                                                              *)
MayRecord(i, e, used) ==
  /\ NotYetRecorded(i)
  /\ DerivationAdmissible(e)
  /\ i \notin used

RecordEvidence(i, e, used) ==
  /\ MayRecord(i, e, used)
  /\ evidence' = [j \in DOMAIN evidence \cup {i} |-> IF j = i THEN e ELSE evidence[j]]

EvidenceInit == evidence = << >>

EvidenceNext ==
  \E i \in EvidenceIds, e \in EvidenceRecords : RecordEvidence(i, e, {})

EvidenceSpec == EvidenceInit /\ [][EvidenceNext]_evidence

---------------------------------------------------------------------------
(* Type correctness of the store.                                          *)
EvidenceTypeOK ==
  /\ DOMAIN evidence \subseteq EvidenceIds
  /\ evidence = [i \in DOMAIN evidence |-> evidence[i]]
  /\ \A i \in DOMAIN evidence : evidence[i] \in EvidenceRecords

(* A set of recorded Evidence that contains the supports of its members.   *)
SupportClosed(S) == \A i \in S : evidence[i].support \subseteq S

(* Derivation never widens scope or validity, however long the chain: each *)
(* scope tag of an Evidence is a scope tag of some underived Evidence it   *)
(* rests on (one in every support-closed set around it), and of a VALID    *)
(* one when the Evidence is VALID.  record_evidence only compares an       *)
(* Evidence with its direct supports.                                      *)
ScopeIsRooted ==
  \A i \in DOMAIN evidence : \A tag \in evidence[i].scope :
    \A S \in SUBSET DOMAIN evidence :
      i \in S /\ SupportClosed(S) =>
        \E root \in S :
          /\ evidence[root].authority # DERIVED
          /\ tag \in evidence[root].scope
          /\ evidence[i].status = "VALID" => evidence[root].status = "VALID"

(* For the actions that can change authority, reconcile answers MATCHED    *)
(* exactly when require_evidence would let the action through, and it lets *)
(* none through on presented Evidence to which a contradicting or an       *)
(* ambiguous one could be added without closing the gate.                  *)
GateFailsClosed ==
  \A action \in CorrectnessSensitive, ids \in SUBSET DOMAIN evidence, now \in Times :
    /\ (Reconcile(action, ids, now, {}) = "MATCHED")
         = RequireEvidence(action, ids, now, {}, NULL)
    /\ Reconcile(action, ids, now, {}) = "AMBIGUOUS" =>
         \A more \in SUBSET DOMAIN evidence :
           ~RequireEvidence(action, ids \cup more, now, {}, NULL)
===========================================================================
