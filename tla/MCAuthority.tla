---------------------------- MODULE MCAuthority ----------------------------
(***************************************************************************)
(* Small instances of the two commit protocols of the core: attempts of a  *)
(* request, and migration candidates of a subject.  A behaviour is one of  *)
(* either, which a variable names; the stores of the other stay empty.     *)
(***************************************************************************)
EXTENDS AttemptFencing, BindingEpochs, TLC

CONSTANTS r1, c1, a1, a2, a3, o1, b1, b2, b3, s1, s2, l1, e1, e2

VARIABLE protocol  \* the protocol that runs

authorityVars == <<protocol, evidence, fencingVars, bindingVars>>

---------------------------------------------------------------------------
(* Evidence about one attempt: exact, merely estimated, expired at time 1, *)
(* or ambiguous.                                                           *)
AboutAttempt(authority, status, until, a) ==
  [authority |-> authority, status |-> status, observed |-> 0, until |-> until,
   scope |-> {<<"attempt", a>>}, key |-> NULL, value |-> NULL,
   support |-> {}, rule |-> FALSE]

AttemptEvidence ==
  {AboutAttempt(EXACT_OBSERVATION, "VALID", NULL, a) : a \in AttemptIds}
    \cup {AboutAttempt(ESTIMATED, "VALID", NULL, a1),
          AboutAttempt(EXACT_OBSERVATION, "VALID", 0, a1),
          AboutAttempt(EXACT_OBSERVATION, "AMBIGUOUS", NULL, a1)}

(* An observation that the copy for candidate b at an epoch is in place.   *)
CopyObserved(status, b, epoch) ==
  [authority |-> EXACT_OBSERVATION, status |-> status, observed |-> 0, until |-> NULL,
   scope |-> {<<"binding", b>>, <<"epoch", epoch>>}, key |-> NULL, value |-> NULL,
   support |-> {}, rule |-> FALSE]

BindingEvidence ==
  {CopyObserved("VALID", b, epoch) : b \in BindingIds, epoch \in 1..3}
    \cup {CopyObserved("AMBIGUOUS", b1, 1)}

MCEvidenceRecords == AttemptEvidence \cup BindingEvidence

(* Bound: the Evidence each protocol meets.                                *)
EvidenceWithin ==
  \A i \in DOMAIN evidence :
    IF protocol = "attempts" THEN i = e1 /\ evidence[i] \in AttemptEvidence
                             ELSE evidence[i] \in BindingEvidence

---------------------------------------------------------------------------
AuthorityInit ==
  EvidenceInit /\ FencingInit /\ BindingInit /\ protocol \in {"attempts", "bindings"}

AuthorityNext ==
  /\ UNCHANGED protocol
  /\ \/ protocol = "attempts" /\ Next /\ UNCHANGED bindingVars
     \/ protocol = "bindings" /\ BindingNext /\ UNCHANGED fencingVars
  /\ EvidenceWithin'

AuthoritySpec == AuthorityInit /\ [][AuthorityNext]_authorityVars
=============================================================================
