--------------------------- MODULE BindingEpochs ---------------------------
(***************************************************************************)
(* Bindings of subjects to locations and their migration under epochs:     *)
(* propose_binding, activate_initial_binding, begin_migration and          *)
(* commit_migration of continuity/core_base.py.  A candidate remembers the *)
(* epoch that was current when it was proposed; it can be committed only   *)
(* while that epoch is still current.                                      *)
(***************************************************************************)
EXTENDS EvidenceGate

CONSTANTS BindingIds, Subjects, Locations

ASSUME BindingIdAssumption == NULL \notin BindingIds

VARIABLES
  bindings,           \* self.bindings: identifier |-> Binding
  currentBinding,     \* self.current_binding_by_subject
  currentEpoch,       \* self.current_epoch_by_subject
  lastAllocatedEpoch  \* self.last_allocated_epoch_by_subject

bindingVars == <<bindings, currentBinding, currentEpoch, lastAllocatedEpoch>>

BindingStatus == {"PROPOSED", "ACTIVE", "MIGRATING", "SUPERSEDED", "RELEASED", "INVALID"}
Binding ==
  [subject : Subjects, location : Locations, base : Nat, epoch : Nat, status : BindingStatus]

---------------------------------------------------------------------------
(* dict.get(key, default) and dict[key] = value.                           *)
Get(f, k, default) == IF k \in DOMAIN f THEN f[k] ELSE default
With(f, k, v) == [x \in DOMAIN f \cup {k} |-> IF x = k THEN v ELSE f[x]]

(* Mutant: the next epoch follows the current one, not the last allocated. *)
NewEpochAfterCurrent(s) == Get(currentEpoch, s, 0) + 1

(* The epoch a new proposal for s is based on, and the one it is given.    *)
BaseEpoch(s) == Get(currentEpoch, s, 0)
NewEpoch(s) == Get(lastAllocatedEpoch, s, BaseEpoch(s)) + 1

NewBinding(s, location, status) ==
  [subject |-> s, location |-> location, base |-> BaseEpoch(s), epoch |-> NewEpoch(s),
   status |-> status]

(* used: the identifiers of the core's other collections (_unique).        *)
ProposeBinding(b, s, location, used) ==
  /\ b \notin DOMAIN bindings \cup DOMAIN evidence \cup used
  /\ lastAllocatedEpoch' = With(lastAllocatedEpoch, s, NewEpoch(s))
  /\ bindings' = With(bindings, b, NewBinding(s, location, "PROPOSED"))
  /\ UNCHANGED <<currentBinding, currentEpoch, evidence>>

(* Propose and activate in one call, for a subject without a binding.      *)
ActivateInitialBinding(b, s, location, used) ==
  /\ s \notin DOMAIN currentBinding
  /\ b \notin DOMAIN bindings \cup DOMAIN evidence \cup used
  /\ lastAllocatedEpoch' = With(lastAllocatedEpoch, s, NewEpoch(s))
  /\ bindings' = With(bindings, b, NewBinding(s, location, "ACTIVE"))
  /\ currentBinding' = With(currentBinding, s, b)
  /\ currentEpoch' = With(currentEpoch, s, NewEpoch(s))
  /\ UNCHANGED evidence

BeginMigration(b) ==
  /\ b \in DOMAIN bindings
  /\ bindings[b].status = "PROPOSED"
  /\ bindings' = [bindings EXCEPT ![b].status = "MIGRATING"]
  /\ UNCHANGED <<currentBinding, currentEpoch, lastAllocatedEpoch, evidence>>

(* Mutants: a candidate only has to be newer than the current epoch; or it *)
(* is not compared with it at all.                                         *)
NewerThanCurrent(b) == bindings[b].epoch > Get(currentEpoch, bindings[b].subject, 0)
AnyBase(b) == TRUE

(* The candidate was proposed while the present epoch was current.         *)
BasedOnCurrent(b) == bindings[b].base = Get(currentEpoch, bindings[b].subject, 0)

(* The bindings once old, the current one if there is one, has given way.  *)
Superseding(old) ==
  [x \in DOMAIN bindings |->
     IF x = old THEN [bindings[x] EXCEPT !.status = "SUPERSEDED"] ELSE bindings[x]]

(* Compare-and-set on the epoch.  begin_migration is optional, and a       *)
(* subject may get its first binding this way.  The scope holds            *)
(* str(epoch), which is different for different epochs: the number stands  *)
(* for its text.                                                           *)
CanCommitMigration(b, ids, now) ==
  /\ b \in DOMAIN bindings
  /\ BasedOnCurrent(b)
  /\ bindings[b].status \in {"PROPOSED", "MIGRATING"}
  /\ RequireEvidence("commit_migration", ids, now,
                     {<<"binding", b>>, <<"epoch", bindings[b].epoch>>}, NULL)

CommitMigration(b, ids, now) ==
  /\ CanCommitMigration(b, ids, now)
  /\ LET s == bindings[b].subject
     IN /\ bindings' = [Superseding(Get(currentBinding, s, NULL)) EXCEPT ![b].status = "ACTIVE"]
        /\ currentBinding' = With(currentBinding, s, b)
        /\ currentEpoch' = With(currentEpoch, s, bindings[b].epoch)
  /\ UNCHANGED <<lastAllocatedEpoch, evidence>>

---------------------------------------------------------------------------
BindingInit ==
  /\ bindings = << >>
  /\ currentBinding = << >>
  /\ currentEpoch = << >>
  /\ lastAllocatedEpoch = << >>

BindingCoreInit == EvidenceInit /\ BindingInit

BindingStep(used) ==
  \/ \E b \in BindingIds, s \in Subjects, l \in Locations : ProposeBinding(b, s, l, used)
  \/ \E b \in BindingIds, s \in Subjects, l \in Locations : ActivateInitialBinding(b, s, l, used)
  \/ \E b \in BindingIds : BeginMigration(b)
  \/ \E b \in BindingIds, ids \in SUBSET EvidenceIds, now \in Times : CommitMigration(b, ids, now)

BindingNext ==
  \/ BindingStep({})
  \/ /\ \E i \in EvidenceIds, e \in EvidenceRecords : RecordEvidence(i, e, DOMAIN bindings)
     /\ UNCHANGED bindingVars

bindingCoreVars == <<bindings, currentBinding, currentEpoch, lastAllocatedEpoch, evidence>>

BindingSpec == BindingCoreInit /\ [][BindingNext]_bindingCoreVars

---------------------------------------------------------------------------
(* Type correctness of the four dictionaries and of the Evidence store.    *)
BindingTypeOK ==
  /\ EvidenceTypeOK
  /\ DOMAIN bindings \subseteq BindingIds
  /\ bindings \in [DOMAIN bindings -> Binding]
  /\ DOMAIN currentBinding \subseteq Subjects
  /\ currentBinding \in [DOMAIN currentBinding -> BindingIds]
  /\ DOMAIN currentEpoch \subseteq Subjects
  /\ currentEpoch \in [DOMAIN currentEpoch -> Nat]
  /\ DOMAIN lastAllocatedEpoch \subseteq Subjects
  /\ lastAllocatedEpoch \in [DOMAIN lastAllocatedEpoch -> Nat]

(* A binding is ACTIVE exactly when it is its subject's current binding,   *)
(* and the subject's epoch is then that binding's (_binding_authority of   *)
(* the oracle): at most one location holds a subject.                      *)
OneActiveBinding ==
  /\ DOMAIN currentEpoch = DOMAIN currentBinding
  /\ \A s \in DOMAIN currentBinding :
       /\ currentBinding[s] \in DOMAIN bindings
       /\ bindings[currentBinding[s]].subject = s
       /\ bindings[currentBinding[s]].status = "ACTIVE"
       /\ currentEpoch[s] = bindings[currentBinding[s]].epoch
  /\ \A b \in DOMAIN bindings :
       bindings[b].status = "ACTIVE" =>
         bindings[b].subject \in DOMAIN currentBinding /\ currentBinding[bindings[b].subject] = b

(* Epochs are allocated once per subject, in increasing order and above    *)
(* the epoch they are based on; the counter is the largest one allocated   *)
(* (_binding_generations of the oracle).                                   *)
EpochsAllocatedOnce ==
  /\ \A b \in DOMAIN bindings :
       /\ bindings[b].subject \in DOMAIN lastAllocatedEpoch
       /\ bindings[b].base < bindings[b].epoch
       /\ bindings[b].epoch <= lastAllocatedEpoch[bindings[b].subject]
  /\ \A s \in DOMAIN lastAllocatedEpoch : \E b \in DOMAIN bindings :
       bindings[b].subject = s /\ bindings[b].epoch = lastAllocatedEpoch[s]
  /\ \A b, c \in DOMAIN bindings :
       bindings[b].subject = bindings[c].subject /\ bindings[b].epoch = bindings[c].epoch => b = c

(* What the oracle (continuity/invariants.py) checks of bindings and       *)
(* epochs after any interleaving of proposals, activations and commits.    *)
BindingOracleHolds == OneActiveBinding /\ EpochsAllocatedOnce

(* Has been made current at some time.                                     *)
Committed(b) == bindings[b].status \in {"ACTIVE", "SUPERSEDED"}

(* Of the candidates proposed while some epoch was current, at most one is *)
(* ever committed, however commits, activations and late commits of older  *)
(* candidates interleave.                                                  *)
OneWinnerPerBase ==
  \A b, c \in DOMAIN bindings :
    /\ bindings[b].subject = bindings[c].subject
    /\ bindings[b].base = bindings[c].base
    /\ Committed(b) /\ Committed(c)
    => b = c

(* The bindings a subject has had form a chain: a superseded binding's     *)
(* epoch is the base of a binding that was committed on top of it.  No     *)
(* candidate is based on an epoch that has not been current yet.           *)
CommittedFormAChain ==
  \A b \in DOMAIN bindings :
    /\ bindings[b].base <= Get(currentEpoch, bindings[b].subject, 0)
    /\ Committed(b) => bindings[b].base < Get(currentEpoch, bindings[b].subject, 0)
    /\ bindings[b].status = "SUPERSEDED" =>
         \E c \in DOMAIN bindings :
           /\ bindings[c].subject = bindings[b].subject
           /\ bindings[c].base = bindings[b].epoch
           /\ Committed(c)

(* The holders a subject has had are one linear history: linked by their   *)
(* epochs, without a gap and without a branch.                             *)
HistoryIsLinear == OneWinnerPerBase /\ CommittedFormAChain

Stale(b) == bindings[b].base # Get(currentEpoch, bindings[b].subject, 0)

(* A subject's epoch never goes back; a candidate that has become stale    *)
(* stays stale and never becomes ACTIVE; a superseded binding never holds  *)
(* the subject again.                                                      *)
StaleCandidatesStayDead ==
  [][/\ \A s \in DOMAIN currentEpoch : s \in DOMAIN currentEpoch' /\ currentEpoch[s] <= currentEpoch'[s]
     /\ \A b \in DOMAIN bindings :
          /\ b \in DOMAIN bindings'
          /\ Stale(b) => /\ Stale(b)'
                         /\ bindings'[b].status = "ACTIVE" => bindings[b].status = "ACTIVE"
          /\ bindings[b].status = "SUPERSEDED" => bindings'[b].status = "SUPERSEDED"]_bindingCoreVars
===========================================================================
