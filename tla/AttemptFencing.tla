-------------------------- MODULE AttemptFencing --------------------------
(***************************************************************************)
(* Logical requests, their attempts and outputs, and the single commit of  *)
(* a request: create_request, start_attempt, set_attempt_execution,        *)
(* complete_attempt, create_output and finalize_request of                 *)
(* continuity/core_base.py.  Every retry of a request is an attempt with a *)
(* new generation; starting it fences the previous one off.                *)
(*                                                                         *)
(* A call that raises leaves the core as it was, so it is no step here;    *)
(* each operation has its guard as an operator of its own (May...).        *)
(***************************************************************************)
EXTENDS EvidenceGate

CONSTANTS RequestIds, AttemptIds, OutputIds, ContinuationIds

ASSUME IdAssumption == NULL \notin AttemptIds \cup OutputIds

VARIABLES
  requests,   \* self.requests: identifier |-> LogicalRequest
  attempts,   \* self.attempts: identifier |-> Attempt
  outputs     \* self.outputs:  identifier |-> Output

fencingVars == <<requests, attempts, outputs>>

RequestStatus == {"CREATED", "READY", "RUNNING", "COMPLETED", "FAILED", "CANCELLED"}
TerminalRequest == {"COMPLETED", "FAILED", "CANCELLED"}
ExecutionStatus == {"CREATED", "DISPATCHED", "RUNNING", "SUCCEEDED", "FAILED", "CANCELLED"}
TerminalExecution == {"SUCCEEDED", "FAILED", "CANCELLED"}
AttemptAuthority == {"NONE", "CURRENT", "COMMITTED", "SUPERSEDED"}

LogicalRequest ==
  [continuation : ContinuationIds, status : RequestStatus,
   current : AttemptIds \cup {NULL}, committed : AttemptIds \cup {NULL},
   output : OutputIds \cup {NULL}]
Attempt ==
  [request : RequestIds, generation : Nat, execution : ExecutionStatus,
   authority : AttemptAuthority]
Output == [attempt : AttemptIds, terminal : BOOLEAN, evidence : SUBSET EvidenceIds]

---------------------------------------------------------------------------
(* f with k bound to v: assignment to a dictionary.                        *)
Put(f, k, v) == [x \in DOMAIN f \cup {k} |-> IF x = k THEN v ELSE f[x]]

(* The identifiers taken by requests, attempts and outputs.                *)
FencingIds == DOMAIN requests \cup DOMAIN attempts \cup DOMAIN outputs

(* _unique: identifiers are unique over all collections of the core; used  *)
(* holds those of the collections other modules own.                       *)
Unique(id, used) == id \notin FencingIds \cup DOMAIN evidence \cup used

AttemptsOf(r) == {a \in DOMAIN attempts : attempts[a].request = r}
Generations(r) == {attempts[a].generation : a \in AttemptsOf(r)}

(* The maximum of a non-empty finite set of integers.                      *)
Highest(S) == CHOOSE n \in S : \A m \in S : m <= n

(* max([a.generation ...], default=0) + 1                                  *)
NextGeneration(r) == Highest({0} \cup Generations(r)) + 1

---------------------------------------------------------------------------
NewRequest(c) ==
  [continuation |-> c, status |-> "READY", current |-> NULL, committed |-> NULL, output |-> NULL]

CreateRequest(r, c, used) ==
  /\ Unique(r, used)
  /\ requests' = Put(requests, r, NewRequest(c))
  /\ UNCHANGED <<attempts, outputs, evidence>>

(* Mutant: a retry is accepted for a request that has completed.           *)
AcceptsAlways(r) == requests[r].status # "CANCELLED"

AcceptsAttempt(r) == requests[r].status \notin TerminalRequest

(* Mutant: the previous attempt keeps its authority.                       *)
Unfenced(old) == attempts

(* The attempts once old has lost its authority (old may be NULL).         *)
Fenced(old) ==
  [x \in DOMAIN attempts |->
     IF x = old THEN [attempts[x] EXCEPT !.authority = "SUPERSEDED"] ELSE attempts[x]]

MayStart(a, r, used) ==
  /\ Unique(a, used)
  /\ r \in DOMAIN requests
  /\ AcceptsAttempt(r)
  /\ requests[r].current # NULL => attempts[requests[r].current].authority = "CURRENT"

(* A new attempt takes the request over from the one that held it.         *)
StartAttempt(a, r, used) ==
  /\ MayStart(a, r, used)
  /\ attempts' = Put(Fenced(requests[r].current), a,
       [request |-> r, generation |-> NextGeneration(r),
        execution |-> "CREATED", authority |-> "CURRENT"])
  /\ requests' = [requests EXCEPT ![r].status = "RUNNING", ![r].current = a]
  /\ UNCHANGED <<outputs, evidence>>

ExecutionRank == [CREATED |-> 0, DISPATCHED |-> 1, RUNNING |-> 2]

(* Mutant: a late report rewrites a terminal outcome.                      *)
MayAlwaysBecome(was, status) == TRUE

(* Terminal outcomes are immutable and execution does not move backward.   *)
MayBecome(was, status) ==
  /\ was \in TerminalExecution => status = was
  /\ was \notin TerminalExecution /\ status \notin TerminalExecution
       => ExecutionRank[status] >= ExecutionRank[was]

(* Reported by the worker; a superseded attempt may still report.          *)
MayReport(a, status) ==
  /\ a \in DOMAIN attempts
  /\ MayBecome(attempts[a].execution, status)

SetAttemptExecution(a, status) ==
  /\ MayReport(a, status)
  /\ attempts' = [attempts EXCEPT ![a].execution = status]
  /\ UNCHANGED <<requests, outputs, evidence>>

CompleteAttempt(a, succeeded) ==
  SetAttemptExecution(a, IF succeeded THEN "SUCCEEDED" ELSE "FAILED")

EvidenceKnown(ids) == ids \subseteq DOMAIN evidence

(* Any attempt may produce outputs, a superseded one too.                  *)
MayCreateOutput(o, a, ids, used) ==
  /\ Unique(o, used)
  /\ a \in DOMAIN attempts
  /\ EvidenceKnown(ids)

CreateOutput(o, a, terminal, ids, used) ==
  /\ MayCreateOutput(o, a, ids, used)
  /\ outputs' = Put(outputs, o, [attempt |-> a, terminal |-> terminal, evidence |-> ids])
  /\ UNCHANGED <<requests, attempts, evidence>>

TerminalSuccess(a, o) == attempts[a].execution = "SUCCEEDED" /\ outputs[o].terminal

(* Mutant: exact Evidence about any attempt will do.                       *)
AnyScope(a) == {}

(* What the Evidence of an output must be about.                           *)
FinalizeScope(a) == {<<"attempt", a>>}

MayFinalize(r, o, now) ==
  /\ r \in DOMAIN requests
  /\ o \in DOMAIN outputs
  /\ requests[r].status \notin TerminalRequest
  /\ LET a == outputs[o].attempt
     IN /\ a = requests[r].current
        /\ attempts[a].authority = "CURRENT"
        /\ TerminalSuccess(a, o)
        /\ RequireEvidence("finalize", outputs[o].evidence, now, FinalizeScope(a), NULL)

(* finalize_request of a request that is not COMPLETED yet.  Repeating it  *)
(* with the committed output returns the request, any other output is      *)
(* refused.                                                                *)
FinalizeRequest(r, o, now) ==
  /\ MayFinalize(r, o, now)
  /\ LET a == outputs[o].attempt
     IN /\ attempts' = [attempts EXCEPT ![a].authority = "COMMITTED"]
        /\ requests' = [requests EXCEPT ![r].status = "COMPLETED", ![r].current = NULL,
                                        ![r].committed = a, ![r].output = o]
  /\ UNCHANGED <<outputs, evidence>>

---------------------------------------------------------------------------
FencingInit ==
  /\ requests = << >>
  /\ attempts = << >>
  /\ outputs = << >>

Init == EvidenceInit /\ FencingInit

(* The operations of this module, in a core whose other collections hold   *)
(* the identifiers in used.                                                *)
AttemptStep(used) ==
  \/ \E a \in AttemptIds, r \in RequestIds : StartAttempt(a, r, used)
  \/ \E a \in AttemptIds, status \in ExecutionStatus : SetAttemptExecution(a, status)
  \/ \E a \in AttemptIds, succeeded \in BOOLEAN : CompleteAttempt(a, succeeded)
  \/ \E o \in OutputIds, a \in AttemptIds, terminal \in BOOLEAN,
        ids \in SUBSET EvidenceIds : CreateOutput(o, a, terminal, ids, used)
  \/ \E r \in RequestIds, o \in OutputIds, now \in Times : FinalizeRequest(r, o, now)
  \/ /\ \E i \in EvidenceIds, e \in EvidenceRecords :
          RecordEvidence(i, e, FencingIds \cup used)
     /\ UNCHANGED fencingVars

Next ==
  \/ \E r \in RequestIds, c \in ContinuationIds : CreateRequest(r, c, {})
  \/ AttemptStep({})

vars == <<requests, attempts, outputs, evidence>>

Spec == Init /\ [][Next]_vars

---------------------------------------------------------------------------
(* Type correctness of the three stores and of the Evidence store.         *)
TypeOK ==
  /\ EvidenceTypeOK
  /\ DOMAIN requests \subseteq RequestIds
  /\ requests \in [DOMAIN requests -> LogicalRequest]
  /\ DOMAIN attempts \subseteq AttemptIds
  /\ attempts \in [DOMAIN attempts -> Attempt]
  /\ DOMAIN outputs \subseteq OutputIds
  /\ outputs \in [DOMAIN outputs -> Output]

(* No identifier names two things and no reference dangles: the pointers   *)
(* of a request, the request of an attempt, the attempt and the Evidence   *)
(* of an output exist (_global_identity_uniqueness, _parent_scopes and     *)
(* _output_integrity of the oracle).                                       *)
StoreWellFormed ==
  /\ DOMAIN requests \cap DOMAIN attempts = {}
  /\ DOMAIN requests \cap DOMAIN outputs = {}
  /\ DOMAIN attempts \cap DOMAIN outputs = {}
  /\ DOMAIN evidence \cap FencingIds = {}
  /\ \A a \in DOMAIN attempts : attempts[a].request \in DOMAIN requests
  /\ \A o \in DOMAIN outputs : /\ outputs[o].attempt \in DOMAIN attempts
                              /\ outputs[o].evidence \subseteq DOMAIN evidence
  /\ \A r \in DOMAIN requests :
       /\ {requests[r].current, requests[r].committed} \subseteq DOMAIN attempts \cup {NULL}
       /\ requests[r].output \in DOMAIN outputs \cup {NULL}

(* One authority per request: an attempt is CURRENT exactly when its       *)
(* request points to it as current, COMMITTED exactly when it points to it *)
(* as committed, and a request points only to its own attempts             *)
(* (_attempt_authority of the oracle).                                     *)
AuthorityMatchesPointers ==
  /\ \A a \in DOMAIN attempts :
       /\ (attempts[a].authority = "CURRENT") = (requests[attempts[a].request].current = a)
       /\ (attempts[a].authority = "COMMITTED") = (requests[attempts[a].request].committed = a)
  /\ \A r \in DOMAIN requests : \A a \in {requests[r].current, requests[r].committed} \ {NULL} :
       attempts[a].request = r

(* The generations of a request's attempts are 1..n, each used once        *)
(* (_attempt_generations of the oracle), and the attempt that holds or has *)
(* used the authority is the newest one: nothing older can commit and      *)
(* nothing newer exists after a commit.                                    *)
NewestHoldsAuthority ==
  \A r \in DOMAIN requests :
    /\ \A a, b \in AttemptsOf(r) : attempts[a].generation = attempts[b].generation => a = b
    /\ \E n \in {0} \cup Generations(r) : Generations(r) = 1..n
    /\ \A a \in AttemptsOf(r) :
         attempts[a].authority \in {"CURRENT", "COMMITTED"}
           => \A n \in Generations(r) : n <= attempts[a].generation

(* A request is COMPLETED exactly when it has a committed attempt, which   *)
(* succeeded and produced its authoritative, terminal output; until then a *)
(* request with attempts has exactly one that may still commit             *)
(* (_request_commit_consistency of the oracle).                            *)
CommitConsistent ==
  \A r \in DOMAIN requests :
    LET q == requests[r] IN
      /\ (q.status = "COMPLETED") = (q.committed # NULL)
      /\ (q.status = "COMPLETED") = (q.output # NULL)
      /\ (q.status = "RUNNING") = (q.current # NULL)
      /\ q.status \in {"READY", "RUNNING", "COMPLETED"}
      /\ q.status = "READY" => AttemptsOf(r) = {}
      /\ q.status = "COMPLETED" =>
           /\ attempts[q.committed].execution = "SUCCEEDED"
           /\ outputs[q.output].attempt = q.committed
           /\ outputs[q.output].terminal

(* What assert_all of the oracle (continuity/invariants.py) checks of      *)
(* requests, attempts and outputs after any sequence of operations: late   *)
(* reports, outputs of superseded attempts and retries included.           *)
OracleHolds ==
  /\ StoreWellFormed
  /\ AuthorityMatchesPointers
  /\ NewestHoldsAuthority
  /\ CommitConsistent

(* The authoritative output of a request rests on valid, exact Evidence    *)
(* whose scope names the committed attempt, and on nothing ambiguous: a    *)
(* result observed for another attempt never completes a request.          *)
CommitIsEvidenced ==
  \A r \in DOMAIN requests :
    requests[r].status = "COMPLETED" =>
      LET ids == outputs[requests[r].output].evidence IN
        /\ ids \subseteq DOMAIN evidence
        /\ \A i \in ids : evidence[i].status # "AMBIGUOUS"
        /\ \E i \in ids : /\ evidence[i].status = "VALID"
                          /\ evidence[i].authority >= EXACT_OBSERVATION
                          /\ <<"attempt", requests[r].committed>> \in evidence[i].scope

(* Nothing decided is undone: a completed request never changes, a         *)
(* superseded or committed attempt keeps its authority, a generation and a *)
(* terminal execution outcome never change, and no attempt, output or      *)
(* Evidence is forgotten or rewritten.                                     *)
Final ==
  /\ \A r \in DOMAIN requests :
       requests[r].status = "COMPLETED" => r \in DOMAIN requests' /\ requests'[r] = requests[r]
  /\ \A a \in DOMAIN attempts :
       /\ a \in DOMAIN attempts'
       /\ attempts'[a].request = attempts[a].request
       /\ attempts'[a].generation = attempts[a].generation
       /\ attempts[a].authority \in {"SUPERSEDED", "COMMITTED"}
            => attempts'[a].authority = attempts[a].authority
       /\ attempts[a].execution \in TerminalExecution
            => attempts'[a].execution = attempts[a].execution
  /\ \A o \in DOMAIN outputs : o \in DOMAIN outputs' /\ outputs'[o] = outputs[o]
  /\ \A i \in DOMAIN evidence : i \in DOMAIN evidence' /\ evidence'[i] = evidence[i]

(* Every operation, late ones included, is Final in this sense.            *)
DecisionsAreFinal == [][Final]_vars

---------------------------------------------------------------------------
(* The refinement mapping to the fenced write-once register: the newest    *)
(* generation is the token, the authoritative output the value.            *)
RegisterToken == [r \in RequestIds |-> NextGeneration(r) - 1]
RegisterValue ==
  [r \in RequestIds |-> IF r \in DOMAIN requests THEN requests[r].output ELSE NULL]
RegisterWriter ==
  [r \in RequestIds |->
     IF r \in DOMAIN requests /\ requests[r].committed # NULL
       THEN attempts[requests[r].committed].generation ELSE 0]

Register == INSTANCE FencedRegister WITH
  Requests <- RequestIds, Values <- OutputIds,
  token <- RegisterToken, value <- RegisterValue, writer <- RegisterWriter

(* The operations implement the fenced register: a request is written at   *)
(* most once, with an output of the newest attempt ever started for it.    *)
ImplementsFencedRegister == Register!Spec
===========================================================================
