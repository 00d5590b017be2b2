------------------------- MODULE PlacementPolicies -------------------------
(***************************************************************************)
(* The policies B0 to B4 (simulator/policies.py and                        *)
(* simulator/continuity_policy.py): which worker gets a request, and       *)
(* whether a migration may commit, given what the information contract of  *)
(* the policy lets it see.  A policy reads a view, the projection of an    *)
(* observation to its contract: a field outside is not there to be read.   *)
(* Fields no decision here depends on (provenance, ancestry, lifecycles    *)
(* and the quality of Evidence) are left out, and so is decide_retention,  *)
(* which nothing calls.                                                    *)
(***************************************************************************)
EXTENDS Integers, Sequences

PolicyIds == <<"B0", "B1", "B2", "B3", "B4">>

NoWorkerChosen == "no worker"

(* What may be known, with what stands for None: an optional value is a    *)
(* sequence of at most one.                                                *)
InformationField ==
  {"request", "attempt", "authority", "program", "session", "continuation", "preferred",
   "candidate", "exact", "locations", "binding", "epoch", "reconciliation", "workers"}
Absent == << >>

InformationContract(policy) ==
  LET B0 == {"request", "workers"}
      B1 == B0 \cup {"candidate", "locations"} IN
  CASE policy = "B0" -> B0
    [] policy = "B1" -> B1
    [] policy = "B2" -> B1 \cup {"session", "preferred"}
    [] policy = "B3" -> B1 \cup {"exact"}
    [] policy = "B4" -> InformationField

(* PolicyObservation: known has the fields that are given.                 *)
PolicyObservation(known) ==
  [f \in InformationField |-> IF f \in DOMAIN known THEN known[f]
                             ELSE IF f = "locations" THEN {} ELSE Absent]

(* project_observation.                                                    *)
Project(o, policy) == [f \in InformationContract(policy) |-> o[f]]

---------------------------------------------------------------------------
(* One worker of an observation; the observation lists the workers in the  *)
(* order of their identifiers.                                             *)
WorkerObservation(id, available, capacity, active, queued) ==
  [id |-> id, available |-> available, capacity |-> capacity,
   active |-> active, queued |-> queued]

(* normalized_load of v and of w, cross-multiplied.                        *)
NormalizedLoad(v, w) == (v.active + v.queued) * w.capacity

(* _worker_load_key: the load, then the queue, then the active tasks, then *)
(* the identifier, here the position in the observation.                   *)
LighterLoaded(workers, i, j) ==
  LET v == workers[i]
      w == workers[j]
  IN \/ NormalizedLoad(v, w) < NormalizedLoad(w, v)
     \/ /\ NormalizedLoad(v, w) = NormalizedLoad(w, v)
        /\ \/ v.queued < w.queued
           \/ v.queued = w.queued /\ v.active < w.active
           \/ v.queued = w.queued /\ v.active = w.active /\ i < j

(* _available_workers.                                                     *)
Available(workers) == {i \in 1..Len(workers) : workers[i].available}

(* The first of the workers ranked by load.                                *)
LeastLoaded(workers, among) ==
  IF among = {} THEN NoWorkerChosen
  ELSE workers[CHOOSE i \in among :
         \A j \in among \ {i} : LighterLoaded(workers, i, j)].id

Located(workers, locations) == {i \in Available(workers) : workers[i].id \in locations}

(* Local workers before the others, each by load.                          *)
LocalThenLoad(workers, locations) ==
  IF Located(workers, locations) = {} THEN LeastLoaded(workers, Available(workers))
  ELSE LeastLoaded(workers, Located(workers, locations))

---------------------------------------------------------------------------
(* RequestCentricPolicy: sees the load.                                    *)
RequestCentric(view) == LeastLoaded(view.workers, Available(view.workers))

(* CacheAwarePolicy: also a candidate key and where States of that key     *)
(* are, whatever they are.                                                 *)
CacheAware(view) ==
  LocalThenLoad(view.workers, IF view.candidate # Absent THEN view.locations ELSE {})

(* SessionAffinityPolicy: the worker the session prefers, if it is up.     *)
SessionAffinity(view) ==
  IF view.session # Absent /\ \E i \in Available(view.workers) :
                               view.preferred = <<view.workers[i].id>>
  THEN Head(view.preferred) ELSE CacheAware(view)

(* StateAwarePolicy: the exact State and where it is, not whether this     *)
(* attempt may consume it.                                                 *)
StateAware(view) ==
  IF view.exact # Absent /\ Located(view.workers, view.locations) # {}
  THEN LocalThenLoad(view.workers, view.locations) ELSE CacheAware(view)

(* ContinuityAwarePolicy: nothing for an attempt that is not the current   *)
(* one, and a State's location only when the evidence of it is reconciled  *)
(* and the semantic core says that the attempt may consume it.  core has   *)
(* the answers of the core, which the policy may ask beyond its view.      *)
ContinuityAware(view, core) ==
  IF \/ view.attempt = Absent \/ view.authority # <<"CURRENT">> \/ ~core.current
     \/ Absent \in {view.program, view.session, view.continuation}
  THEN NoWorkerChosen
  ELSE IF view.exact # Absent /\ view.reconciliation = <<"MATCHED">> /\ core.compatible
  THEN LocalThenLoad(view.workers, view.locations)
  ELSE LeastLoaded(view.workers, Available(view.workers))

(* decide_placement.                                                       *)
DecidePlacement(policy, o, core) ==
  LET view == Project(o, policy) IN
  CASE policy = "B0" -> RequestCentric(view)
    [] policy = "B1" -> CacheAware(view)
    [] policy = "B2" -> SessionAffinity(view)
    [] policy = "B3" -> StateAware(view)
    [] policy = "B4" -> ContinuityAware(view, core)

(* decide_migration, which only B4 has.                                    *)
DecideMigration(view) ==
  IF /\ view.binding # Absent /\ view.epoch # Absent
     /\ view.reconciliation = <<"MATCHED">>
  THEN "ALLOW_COMMIT" ELSE "WAIT"

=============================================================================
