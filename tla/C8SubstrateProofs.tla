------------------------- MODULE C8SubstrateProofs -------------------------
(***************************************************************************)
(* For every number of workers, every plan of faults and every process     *)
(* whose deadline may pass: what the harness reports has happened, what it *)
(* has reported the authority forgets, and workers succeed in order.       *)
(***************************************************************************)
EXTENDS C8Substrate, FiniteSetTheorems, WellFoundedInduction, TLAPS

(* The frames of the protocol, by who sends them; work is the pid and      *)
(* generation of a WORK.                                                   *)
Works == {None} \cup (Pids \X Nat)
WorkerFrames == [kind : FromWorker, pid : Pids, work : Works]
DownFrames == [kind : ToWorker, pid : Pids, work : Works]
Failure(w) == Frame("PROCESS_FAILURE", w)
UpFrames == WorkerFrames \cup {Failure(w) : w \in Pids} \cup {Frame("HARNESS_REGISTER", None)}

(* A scheduler whose frames are drawn from the set F.                      *)
Scheduler(F) ==
  [script : Seq(DeliveryAction), delayed : Seq(F), late : Seq(F), held : F \cup {None},
   dropped : Nat]

(* The schedulers of one direction, each for the frames of one kind.       *)
Schedulers(q, F) ==
  /\ q = [kind \in DOMAIN q |-> q[kind]]
  /\ \A kind \in DOMAIN q : q[kind] \in Scheduler({m \in F : m.kind = kind})

Keys == {"listener", "authority", "worker", "flushUp"} \cup ToWorker

(* Types, part by part.                                                    *)
AuthorityTypes ==
  authority \in [alive : BOOLEAN, registered : BOOLEAN, current : Pids \cup {None},
                 generation : Nat, shutdown : BOOLEAN, logged : BOOLEAN, noted : BOOLEAN]

HarnessTypes ==
  /\ harness \in [status : {"running", "stopped", "exited", "crashed", "assertion"},
                  worker : Pids \cup {None}, pid : Pids \cup {None},
                  shutdownExpected : BOOLEAN, batch : Seq(Keys)]
  /\ harness.pid \in {harness.worker, None}
  /\ Schedulers(up, WorkerFrames) /\ Schedulers(down, DownFrames)
  /\ reported \subseteq Pids

LinkTypes ==
  /\ upLink \in Seq(UpFrames)
  /\ downLink \in Seq(DownFrames \cup {Frame("HARNESS_REGISTERED", None)})

WorkerTypes ==
  /\ process \in [Pids -> Progress]
  /\ socket \in [Pids -> {"none", "backlog", "open", "closed"}]
  /\ toWorker \in [Pids -> Seq(DownFrames)]
  /\ fromWorker \in [Pids -> Seq(WorkerFrames)]
  /\ \A w \in Pids : \A i \in DOMAIN fromWorker[w] : fromWorker[w][i].pid = w

OrchestratorTypes ==
  orchestrator \in [phase : {"starting", "running", "restarting", "failed", "stopped"},
                   replaced : Pids \cup {None}]

Types == AuthorityTypes /\ HarnessTypes /\ LinkTypes /\ WorkerTypes /\ OrchestratorTypes

---------------------------------------------------------------------------
Unborn(w) == process[w] = "unborn"
Accepted(w) == socket[w] \in {"open", "closed"}
Registration(m) == m.kind = "REGISTER"
Registers(s) == \E i \in DOMAIN s : Registration(s[i])

(* Pids are handed out in order, the newest worker alone may live, and a   *)
(* restart is waiting for the newest.                                      *)
PidsInOrder ==
  /\ \E n \in 0..MaxWorkers : \A v \in Pids : Unborn(v) <=> v > n
  /\ \A v, w \in Pids : Alive(w) /\ v > w => Unborn(v)
  /\ orchestrator.phase = "restarting" =>
       \A v \in Pids : orchestrator.replaced # None /\ v > orchestrator.replaced => Unborn(v)

(* A worker sends only over its connection, and its registration first.    *)
ConnectionsFirst ==
  \A w \in Pids :
    /\ process[w] \in {"unborn", "started"} => socket[w] = "none"
    /\ process[w] \in {"unborn", "started", "connected"} \/ socket[w] = "none" => fromWorker[w] = << >>
    /\ process[w] \in {"connected", "serving"} => socket[w] # "none"
    /\ \A i \in DOMAIN fromWorker[w] : Registration(fromWorker[w][i]) => i = 1

(* Connections are accepted in the order of the pids; the open one is the  *)
(* worker's, and the newest.                                               *)
AcceptedInOrder ==
  /\ \A w \in Pids : socket[w] = "open" <=> harness.worker = w
  /\ \A v, w \in Pids : Accepted(v) /\ socket[w] = "backlog" => v < w
  /\ \A v, w \in Pids : Accepted(v) /\ socket[w] = "open" => v <= w

(* The batch names a key once; a listener in it has a connection waiting,  *)
(* and a worker in it is ready, has ended, or has not registered.          *)
BatchIsFresh ==
  /\ \A i, j \in DOMAIN harness.batch : harness.batch[i] = harness.batch[j] => i = j
  /\ (\E i \in DOMAIN harness.batch : harness.batch[i] = "listener") => Backlog # {}
  /\ (\E i \in DOMAIN harness.batch : harness.batch[i] = "worker") /\ harness.pid # None =>
       fromWorker[harness.pid] # << >> \/ Ended(harness.pid)

(* The harness knows a worker by its registration.                         *)
KnownHaveRegistered ==
  harness.pid # None =>
    /\ process[harness.pid] \in {"serving", "killed", "exited"}
    /\ ~Registers(fromWorker[harness.pid])

(* A reported worker has ended and is cut off.                             *)
ReportedHaveEnded ==
  \A w \in reported :
    Ended(w) /\ socket[w] = "closed" /\ ~Registers(fromWorker[w])

(* A failure is reported once.                                             *)
FailuresOnce ==
  /\ \A w \in Pids : \A i \in DOMAIN upLink : upLink[i] = Failure(w) => w \in reported
  /\ \A w \in Pids : \A i, j \in DOMAIN upLink : upLink[i] = Failure(w) /\ upLink[j] = Failure(w) => i = j

(* No rule of the harness delays or reorders registrations: a registration *)
(* is sent at once, twice, late or not at all.                             *)
Orderly(script) ==
  \A i \in DOMAIN script : script[i] \in {"DELIVER", "DUPLICATE", "DROP", "LATE_DELIVER"}

OrderlyPlans ==
  \A plan \in Plans : "REGISTER" \in DOMAIN plan.up => Orderly(plan.up["REGISTER"])

RegistrationsOrderly ==
  OrderlyPlans /\ "REGISTER" \in DOMAIN up =>
    /\ Orderly(up["REGISTER"].script)
    /\ up["REGISTER"].delayed = << >> /\ up["REGISTER"].held = None

(* No registration of w is still to be written to the authority.           *)
Settled(w) ==
  \/ "REGISTER" \notin DOMAIN up
  \/ OrderlyPlans /\ \A v \in Pids : v > w => Unborn(v)

(* On the way to the authority the failure of a worker is behind its       *)
(* registrations.                                                          *)
FailureComesLast ==
  \A w \in reported : authority.alive /\ Settled(w) =>
    /\ authority.current = w => \E j \in DOMAIN upLink : upLink[j] = Failure(w)
    /\ \A i \in DOMAIN upLink : Registration(upLink[i]) /\ upLink[i].pid = w =>
         \E j \in DOMAIN upLink : j > i /\ upLink[j] = Failure(w)

(* Only accepted workers have registered.                                  *)
AcceptedRegistrations == {m \in WorkerFrames : Registration(m) /\ Accepted(m.pid)}

RegisteredAreAccepted ==
  /\ authority.current # None => Accepted(authority.current)
  /\ \A i \in DOMAIN upLink : Registration(upLink[i]) => Accepted(upLink[i].pid)
  /\ "REGISTER" \in DOMAIN up => up["REGISTER"] \in Scheduler(AcceptedRegistrations)

(* The registrations on the way, the late ones behind those written, are   *)
(* in the order of the pids, and none is older than the current worker.    *)
RegistrationsInOrder ==
  OrderlyPlans =>
    /\ \A i, j \in DOMAIN upLink :
         Registration(upLink[i]) /\ Registration(upLink[j]) /\ i < j => upLink[i].pid <= upLink[j].pid
    /\ \A i \in DOMAIN upLink, j \in DOMAIN Late(up, "REGISTER") :
         Registration(upLink[i]) => upLink[i].pid <= Late(up, "REGISTER")[j].pid
    /\ \A i, j \in DOMAIN Late(up, "REGISTER") :
         i < j => Late(up, "REGISTER")[i].pid <= Late(up, "REGISTER")[j].pid
    /\ authority.current # None =>
         /\ \A i \in DOMAIN upLink :
              Registration(upLink[i]) => authority.current <= upLink[i].pid
         /\ \A i \in DOMAIN Late(up, "REGISTER") : authority.current <= Late(up, "REGISTER")[i].pid

(* What the authority has noted is the frame it reads next.                *)
NotedIsNext ==
  authority.noted => 1 \in DOMAIN upLink /\ \E w \in Pids : upLink[1] = Failure(w)

(* While there is only the first worker, a failure logged is its own: it   *)
(* is forgotten or is forgotten next, and nothing on the way makes it      *)
(* current again.                                                          *)
FirstIsForgotten ==
  /\ authority.logged => reported # {}
  /\ authority.logged /\ OrderlyPlans /\ (\A v \in Pids : v > 1 => Unborn(v)) =>
       /\ authority.current # 1 \/ authority.noted
       /\ authority.alive => \A i \in DOMAIN upLink : Registration(upLink[i]) => upLink[i].pid # 1

C8Inv ==
  /\ Types
  /\ PidsInOrder /\ ConnectionsFirst /\ AcceptedInOrder /\ BatchIsFresh
  /\ KnownHaveRegistered /\ ReportedHaveEnded /\ FailuresOnce
  /\ RegistrationsOrderly /\ FailureComesLast /\ RegisteredAreAccepted /\ RegistrationsInOrder
  /\ NotedIsNext /\ FirstIsForgotten

---------------------------------------------------------------------------
(* More frames only make more schedulers.                                  *)
LEMMA SchedulerGrows ==
  ASSUME NEW F, NEW G, F \subseteq G, NEW q \in Scheduler(F)
  PROVE  q \in Scheduler(G)
<1>1. Seq(F) \subseteq Seq(G)
  OBVIOUS
<1> QED
  BY <1>1 DEF Scheduler

(* Taking the next directive leaves the held frames as they are.           *)
LEMMA AdvancedKeeps ==
  ASSUME NEW F, NEW q \in Scheduler(F)
  PROVE  /\ Advanced(q) \in Scheduler(F) /\ NextAction(q) \in DeliveryAction
         /\ Advanced(q).delayed = q.delayed /\ Advanced(q).late = q.late
         /\ Advanced(q).held = q.held
         /\ Orderly(q.script) => /\ Orderly(Advanced(q).script)
                                 /\ NextAction(q) \in {"DELIVER", "DUPLICATE", "DROP", "LATE_DELIVER"}
<1>1. CASE q.script = << >>
  BY <1>1 DEF Advanced, NextAction, DeliveryAction
<1>2. CASE q.script # << >>
  <2>1. Tail(q.script) \in Seq(DeliveryAction) /\ Head(q.script) \in DeliveryAction
        /\ q.script \in Seq(DeliveryAction) /\ Head(q.script) = q.script[1]
    BY <1>2 DEF Scheduler
  <2>2. /\ Advanced(q) \in Scheduler(F) /\ Advanced(q).script = Tail(q.script)
        /\ Advanced(q).delayed = q.delayed /\ Advanced(q).late = q.late
        /\ Advanced(q).held = q.held
    BY <1>2, <2>1 DEF Advanced, Scheduler
  <2>3. Orderly(q.script) => Orderly(Tail(q.script)) /\ q.script[1] \in {"DELIVER", "DUPLICATE", "DROP", "LATE_DELIVER"}
    BY <1>2, <2>1 DEF Orderly
  <2> QED
    BY <1>2, <2>1, <2>2, <2>3 DEF NextAction
<1> QED
  BY <1>1, <1>2

(* submit invents no frame (c8_faults.py).                                 *)
LEMMA SubmitFrames ==
  ASSUME NEW F, NEW q \in Scheduler(F), NEW m \in F
  PROVE  Submit(q, m).queue \in Scheduler(F) /\ Submit(q, m).out \in Seq(F)
<1> DEFINE n == Advanced(q)
<1>1. n \in Scheduler(F) /\ NextAction(q) \in DeliveryAction /\ n.held = q.held
  BY AdvancedKeeps
<1>2. << >> \in Seq(F) /\ <<m>> \in Seq(F) /\ <<m, m>> \in Seq(F)
  OBVIOUS
<1>3. ASSUME NEW r \in Scheduler(F), NEW out \in Seq(F), NEW full
      PROVE  Answer(r, out, full).queue \in Scheduler(F) /\ Answer(r, out, full).out \in Seq(F)
  BY <1>3 DEF Answer
<1> HIDE DEF n
<1>4. /\ [n EXCEPT !.dropped = @ + 1] \in Scheduler(F)
      /\ [n EXCEPT !.delayed = Append(@, m)] \in Scheduler(F)
      /\ [n EXCEPT !.late = Append(@, m)] \in Scheduler(F)
      /\ [n EXCEPT !.held = m] \in Scheduler(F)
      /\ [n EXCEPT !.held = None] \in Scheduler(F)
  <2>1. /\ Append(n.delayed, m) \in Seq(F) /\ Append(n.late, m) \in Seq(F)
        /\ n.dropped + 1 \in Nat /\ m \in F \cup {None} /\ None \in F \cup {None}
    BY <1>1 DEF Scheduler
  <2> QED
    BY <1>1, <2>1 DEF Scheduler
<1>5. n.held # None => <<m, n.held>> \in Seq(F)
  BY <1>1 DEF Scheduler
<1>6. ASSUME NEW next \in Scheduler(F), NEW r,
             r = IF HasRoom(n) THEN Answer(next, << >>, FALSE) ELSE Answer(n, << >>, TRUE)
      PROVE  r.queue \in Scheduler(F) /\ r.out \in Seq(F)
  BY <1>1, <1>2, <1>3, <1>6
<1>7. CASE NextAction(q) \in {"DELIVER", "DUPLICATE", "DROP"}
  BY <1>1, <1>2, <1>3, <1>4, <1>7 DEF Submit, n
<1>8. CASE NextAction(q) = "DELAY"
  BY <1>4, <1>6, <1>8 DEF Submit, n
<1>9. CASE NextAction(q) = "LATE_DELIVER"
  BY <1>4, <1>6, <1>9 DEF Submit, n
<1>10. CASE NextAction(q) = "REORDER" /\ q.held = None
  BY <1>4, <1>6, <1>10 DEF Submit, n
<1>11. CASE NextAction(q) = "REORDER" /\ q.held # None
  BY <1>1, <1>3, <1>4, <1>5, <1>11 DEF Submit, Swap, n
<1> QED
  BY <1>1, <1>7, <1>8, <1>9, <1>10, <1>11 DEF DeliveryAction

(* Without delays and reorderings a frame is sent before or instead of     *)
(* being kept for later, and nothing else is kept.                         *)
LEMMA OrderlySubmit ==
  ASSUME NEW F, NEW q \in Scheduler(F), NEW m \in F,
         Orderly(q.script), q.delayed = << >>, q.held = None, q.late = << >>
  PROVE  /\ Orderly(Submit(q, m).queue.script)
         /\ Submit(q, m).queue.delayed = << >> /\ Submit(q, m).queue.held = None
         /\ \/ Submit(q, m).queue.late = << >> /\ Submit(q, m).out \in {<< >>, <<m>>, <<m, m>>}
            \/ Submit(q, m).queue.late = <<m>> /\ Submit(q, m).out = << >>
<1> DEFINE n == Advanced(q)
<1>1. /\ n \in Scheduler(F) /\ n.held = None /\ n.late = << >> /\ n.delayed = << >>
      /\ Orderly(n.script)
      /\ NextAction(q) \in {"DELIVER", "DUPLICATE", "DROP", "LATE_DELIVER"}
  BY AdvancedKeeps
<1> HIDE DEF n
<1>2. ASSUME NEW r, NEW out, NEW full, Submit(q, m) = Answer(r, out, full)
      PROVE  Submit(q, m).queue = r /\ Submit(q, m).out = out
  BY <1>2 DEF Answer
<1>3. CASE NextAction(q) \in {"DELIVER", "DUPLICATE"}
  <2>1. Submit(q, m) \in {Answer(n, <<m>>, FALSE), Answer(n, <<m, m>>, FALSE)}
    BY <1>3 DEF Submit, n
  <2>2. Submit(q, m).queue = n /\ Submit(q, m).out \in {<<m>>, <<m, m>>}
    BY <1>2, <2>1
  <2> QED
    BY <1>1, <2>2
<1>4. CASE NextAction(q) = "DROP"
  <2> DEFINE r == [n EXCEPT !.dropped = @ + 1]
  <2>1. r.script = n.script /\ r.delayed = n.delayed /\ r.late = n.late /\ r.held = n.held
    BY <1>1 DEF Scheduler
  <2>2. Submit(q, m) = Answer(r, << >>, FALSE)
    BY <1>4 DEF Submit, n
  <2>3. Submit(q, m).queue = r /\ Submit(q, m).out = << >>
    BY <1>2, <2>2
  <2> HIDE DEF r
  <2> QED
    BY <1>1, <2>1, <2>3
<1>5. CASE NextAction(q) = "LATE_DELIVER"
  <2> DEFINE r == [n EXCEPT !.late = Append(@, m)]
  <2>1. r.script = n.script /\ r.delayed = n.delayed /\ r.late = <<m>> /\ r.held = n.held
    BY <1>1 DEF Scheduler
  <2>2. Submit(q, m) \in {Answer(r, << >>, FALSE), Answer(n, << >>, TRUE)}
    BY <1>5 DEF Submit, n
  <2>3. Submit(q, m).queue \in {r, n} /\ Submit(q, m).out = << >>
        /\ (Submit(q, m).queue = r \/ Submit(q, m).queue = n)
    BY <1>2, <2>2
  <2> HIDE DEF r
  <2> QED
    BY <1>1, <2>1, <2>3
<1> QED
  BY <1>1, <1>3, <1>4, <1>5

---------------------------------------------------------------------------
(* Sequences written one behind the other, and the rest of a sequence.     *)
LEMMA Concatenated ==
  ASSUME NEW F, NEW s \in Seq(F), NEW t \in Seq(F)
  PROVE  /\ s \o t \in Seq(F)
         /\ DOMAIN (s \o t) = 1..Len(s) + Len(t)
         /\ \A i \in DOMAIN s : (s \o t)[i] = s[i]
         /\ \A i \in DOMAIN t : (s \o t)[Len(s) + i] = t[i]
         /\ \A i \in DOMAIN (s \o t) :
              i \notin DOMAIN s => i - Len(s) \in DOMAIN t /\ (s \o t)[i] = t[i - Len(s)]
OBVIOUS

LEMMA Shifted ==
  ASSUME NEW F, NEW s \in Seq(F), s # << >>
  PROVE  /\ Head(s) = s[1] /\ Head(s) \in F /\ 1 \in DOMAIN s
         /\ Tail(s) \in Seq(F) /\ Len(Tail(s)) = Len(s) - 1
         /\ \A i \in DOMAIN Tail(s) : i + 1 \in DOMAIN s /\ Tail(s)[i] = s[i + 1]
         /\ \A i \in DOMAIN s : i # 1 => i - 1 \in DOMAIN Tail(s) /\ Tail(s)[i - 1] = s[i]
OBVIOUS

(* None is no pid (the harness starts with worker_pid None).               *)
LEMMA NoneIsNoPid == None \notin Pids
BY SubstrateAssumption DEF Pids

(* What the link to the authority satisfies.                               *)
LinkInv ==
  /\ FailuresOnce /\ RegistrationsOrderly /\ FailureComesLast /\ RegisteredAreAccepted
  /\ RegistrationsInOrder /\ NotedIsNext /\ FirstIsForgotten

(* A step that writes nothing to the authority and lets it read nothing.   *)
LEMMA LinkUntouched ==
  ASSUME Types, LinkInv, UNCHANGED <<upLink, up, reported>>,
         authority'.current = authority.current, authority'.logged = authority.logged,
         authority'.noted = authority.noted, authority'.alive => authority.alive,
         \A v \in Pids : process'[v] = "unborn" => process[v] = "unborn",
         \A v \in Pids : Accepted(v) => socket'[v] \in {"open", "closed"}
  PROVE  LinkInv'
<1>1. FailuresOnce' /\ RegistrationsOrderly' /\ RegistrationsInOrder'
  BY DEF LinkInv, FailuresOnce, RegistrationsOrderly, RegistrationsInOrder, Late
<1>2. \A w \in Pids : Settled(w)' => Settled(w)
  BY DEF Settled, Unborn
<1>3. FailureComesLast'
  BY <1>2 DEF LinkInv, FailureComesLast, Types, HarnessTypes
<1>4. RegisteredAreAccepted'
  <2>1. AcceptedRegistrations \subseteq AcceptedRegistrations'
    BY DEF AcceptedRegistrations, Accepted, WorkerFrames
  <2>2. ASSUME "REGISTER" \in DOMAIN up
        PROVE  up["REGISTER"] \in Scheduler(AcceptedRegistrations')
    BY <2>1, <2>2, SchedulerGrows DEF LinkInv, RegisteredAreAccepted
  <2>3. Scheduler(AcceptedRegistrations)' = Scheduler(AcceptedRegistrations')
    BY DEF Scheduler
  <2>4. ASSUME NEW i \in DOMAIN upLink, Registration(upLink[i]) PROVE Accepted(upLink[i].pid)'
    <3>1. upLink[i].pid \in Pids
      <4>1. upLink[i] \in UpFrames
        BY DEF Types, LinkTypes
      <4> QED
        BY <2>4, <4>1 DEF UpFrames, WorkerFrames, Registration, Failure, Frame
    <3>2. Accepted(upLink[i].pid)
      BY <2>4 DEF LinkInv, RegisteredAreAccepted
    <3> QED
      BY <3>1, <3>2 DEF Accepted
  <2>5. authority.current # None => socket'[authority.current] \in {"open", "closed"}
    BY DEF LinkInv, RegisteredAreAccepted, Types, AuthorityTypes
  <2> QED
    BY <2>2, <2>3, <2>4, <2>5 DEF RegisteredAreAccepted, Accepted
<1>5. NotedIsNext' /\ FirstIsForgotten'
  BY DEF LinkInv, NotedIsNext, FirstIsForgotten, Unborn
<1> QED
  BY <1>1, <1>3, <1>4, <1>5 DEF LinkInv

(* A frame of upLink that registers names a pid.                           *)
LEMMA UpFrameIs ==
  ASSUME NEW m \in UpFrames
  PROVE  /\ Registration(m) => m \in WorkerFrames /\ m.pid \in Pids
         /\ \A w \in Pids : m = Failure(w) => ~Registration(m)
         /\ \/ m \in WorkerFrames
            \/ \E w \in Pids : m = Failure(w)
            \/ m = Frame("HARNESS_REGISTER", None)
BY DEF UpFrames, WorkerFrames, Registration, Failure, Frame

(* The harness writes frames of workers to the authority, in order, none   *)
(* from a worker that is settled (HandleWorker, FlushUp).                  *)
LEMMA FramesSent ==
  ASSUME Types, LinkInv, ReportedHaveEnded,
         UNCHANGED <<authority, reported, process, socket>>,
         NEW frames \in Seq(WorkerFrames),
         upLink' = (IF authority.alive THEN upLink \o frames ELSE upLink),
         RegisteredAreAccepted', RegistrationsOrderly', RegistrationsInOrder',
         DOMAIN up' = DOMAIN up,
         \A w \in reported : Settled(w) =>
            \A i \in DOMAIN frames : Registration(frames[i]) => frames[i].pid # w
  PROVE  LinkInv'
<1>0. upLink \in Seq(UpFrames) /\ frames \in Seq(UpFrames)
  BY DEF Types, LinkTypes, UpFrames
<1> DEFINE whole == upLink \o frames
<1>1. /\ whole \in Seq(UpFrames)
      /\ \A i \in DOMAIN upLink : i \in DOMAIN whole /\ whole[i] = upLink[i] /\ i \in 1..Len(upLink)
      /\ \A i \in DOMAIN whole : i \notin DOMAIN upLink =>
           i - Len(upLink) \in DOMAIN frames /\ whole[i] = frames[i - Len(upLink)]
  BY <1>0, Concatenated
<1>2. \A i \in DOMAIN frames, w \in Pids : frames[i] # Failure(w)
  BY DEF WorkerFrames, Failure, Frame, FromWorker
<1> HIDE DEF whole
<1>3. upLink' = upLink \/ (authority.alive /\ upLink' = whole)
  BY DEF whole
<1>4. FailuresOnce'
  <2>1. CASE upLink' = upLink
    BY <2>1 DEF LinkInv, FailuresOnce
  <2>2. CASE upLink' = whole
    <3>1. \A i \in DOMAIN whole, w \in Pids :
            whole[i] = Failure(w) => i \in DOMAIN upLink /\ upLink[i] = Failure(w)
      BY <1>1, <1>2
    <3> QED
      BY <2>2, <3>1 DEF LinkInv, FailuresOnce
  <2> QED
    BY <1>3, <2>1, <2>2
<1>5. \A w \in Pids : Settled(w)' = Settled(w)
  BY DEF Settled, Unborn
<1>6. FailureComesLast'
  <2>1. CASE upLink' = upLink
    BY <1>5, <2>1 DEF LinkInv, FailureComesLast, Types, HarnessTypes
  <2>2. CASE upLink' = whole
    <3> SUFFICES ASSUME NEW w \in reported', authority'.alive, Settled(w)'
                 PROVE  /\ authority'.current = w => \E j \in DOMAIN upLink' : upLink'[j] = Failure(w)
                        /\ \A i \in DOMAIN upLink' : Registration(upLink'[i]) /\ upLink'[i].pid = w =>
                             \E j \in DOMAIN upLink' : j > i /\ upLink'[j] = Failure(w)
      BY DEF FailureComesLast
    <3>0. w \in reported /\ authority.alive /\ Settled(w)
      BY <1>5 DEF Types, HarnessTypes
    <3>1. authority.current = w => \E j \in DOMAIN whole : whole[j] = Failure(w)
      BY <1>1, <3>0 DEF LinkInv, FailureComesLast
    <3>2. ASSUME NEW i \in DOMAIN whole, Registration(whole[i]), whole[i].pid = w
          PROVE  \E j \in DOMAIN whole : j > i /\ whole[j] = Failure(w)
      <4>1. i \in DOMAIN upLink
        BY <1>1, <3>0, <3>2
      <4> QED
        BY <1>1, <3>0, <3>2, <4>1 DEF LinkInv, FailureComesLast
    <3> QED
      BY <2>2, <3>1, <3>2
  <2> QED
    BY <1>3, <2>1, <2>2
<1>7. FirstIsForgotten'
  <2> SUFFICES ASSUME authority.logged, OrderlyPlans, \A v \in Pids : v > 1 => Unborn(v),
                      authority.alive, NEW i \in DOMAIN upLink', Registration(upLink'[i])
               PROVE  upLink'[i].pid # 1
    BY DEF LinkInv, FirstIsForgotten, Unborn
  <2>1. CASE i \in DOMAIN upLink
    BY <1>1, <1>3, <2>1 DEF LinkInv, FirstIsForgotten
  <2>2. CASE i \notin DOMAIN upLink
    <3>1. 1 \in reported
      <4>1. PICK w \in reported : TRUE
        BY DEF LinkInv, FirstIsForgotten
      <4>2. w \in Pids /\ ~Unborn(w)
        BY <4>1 DEF Types, HarnessTypes, ReportedHaveEnded, Ended, Unborn
      <4>3. w = 1
        BY <4>2 DEF Pids
      <4> QED
        BY <4>1, <4>3
    <3>2. Settled(1)
      BY DEF Settled
    <3>3. whole[i] = frames[i - Len(upLink)] /\ i - Len(upLink) \in DOMAIN frames /\ upLink' = whole
      BY <1>1, <1>3, <2>2
    <3> QED
      BY <3>1, <3>2, <3>3
  <2> QED
    BY <2>1, <2>2
<1>8. NotedIsNext'
  BY <1>1, <1>3 DEF LinkInv, NotedIsNext
<1> QED
  BY <1>4, <1>6, <1>7, <1>8 DEF LinkInv

(* The harness reports the failure of a worker (_disconnect_worker).       *)
LEMMA FailureSent ==
  ASSUME Types, LinkInv, UNCHANGED <<authority, process, up>>,
         NEW x \in Pids, x \notin reported, reported' = reported \cup {x},
         upLink' = (IF authority.alive THEN upLink \o <<Failure(x)>> ELSE upLink),
         \A v \in Pids : Accepted(v) => socket'[v] \in {"open", "closed"}
  PROVE  LinkInv'
<1> DEFINE whole == upLink \o <<Failure(x)>>
<1>0. upLink \in Seq(UpFrames) /\ Failure(x) \in UpFrames
  BY DEF Types, LinkTypes, UpFrames
<1>1. /\ whole \in Seq(UpFrames) /\ Len(upLink) + 1 \in DOMAIN whole
      /\ whole[Len(upLink) + 1] = Failure(x)
      /\ \A i \in DOMAIN upLink : i \in DOMAIN whole /\ whole[i] = upLink[i] /\ Len(upLink) + 1 > i
      /\ \A i \in DOMAIN whole : i \notin DOMAIN upLink => i = Len(upLink) + 1
  BY <1>0
<1>2. ~Registration(Failure(x)) /\ \A w \in Pids : Failure(x) = Failure(w) => x = w
  BY DEF Registration, Failure, Frame
<1> HIDE DEF whole
<1>3. upLink' = upLink \/ upLink' = whole
  BY DEF whole
<1>4. \A i \in DOMAIN upLink' :
        Registration(upLink'[i]) => i \in DOMAIN upLink /\ upLink'[i] = upLink[i]
  BY <1>1, <1>2, <1>3
<1>5. FailuresOnce'
  <2>1. CASE upLink' = upLink
    BY <2>1 DEF LinkInv, FailuresOnce
  <2>2. CASE upLink' = whole
    <3>1. \A i \in DOMAIN upLink : upLink[i] # Failure(x)
      BY DEF LinkInv, FailuresOnce
    <3>2. \A i \in DOMAIN whole, w \in Pids : whole[i] = Failure(w) =>
            \/ i \in DOMAIN upLink /\ upLink[i] = Failure(w) /\ w # x
            \/ i = Len(upLink) + 1 /\ w = x
      BY <1>1, <1>2, <3>1
    <3> QED
      BY <2>2, <3>2 DEF LinkInv, FailuresOnce
  <2> QED
    BY <1>3, <2>1, <2>2
<1>6. \A w \in Pids : Settled(w)' = Settled(w)
  BY DEF Settled, Unborn
<1>7. FailureComesLast'
  <2> SUFFICES ASSUME NEW w \in reported', authority.alive, Settled(w)
               PROVE  /\ authority.current = w => \E j \in DOMAIN whole : whole[j] = Failure(w)
                      /\ \A i \in DOMAIN whole : Registration(whole[i]) /\ whole[i].pid = w =>
                           \E j \in DOMAIN whole : j > i /\ whole[j] = Failure(w)
    BY <1>6, SMTT(30) DEF FailureComesLast, Types, HarnessTypes, whole
  <2>1. CASE w = x
    <3>1. \A i \in DOMAIN whole : Registration(whole[i]) => Len(upLink) + 1 > i
      BY <1>1, <1>2
    <3> QED
      BY <1>1, <2>1, <3>1
  <2>2. CASE w # x
    <3>1. w \in reported
      BY <2>2
    <3>2. authority.current = w => \E j \in DOMAIN whole : whole[j] = Failure(w)
      BY <1>1, <3>1 DEF LinkInv, FailureComesLast
    <3>3. ASSUME NEW i \in DOMAIN whole, Registration(whole[i]), whole[i].pid = w
          PROVE  \E j \in DOMAIN whole : j > i /\ whole[j] = Failure(w)
      <4>1. i \in DOMAIN upLink
        BY <1>1, <1>2, <3>3
      <4> QED
        BY <1>1, <3>1, <3>3, <4>1 DEF LinkInv, FailureComesLast
    <3> QED
      BY <3>2, <3>3
  <2> QED
    BY <2>1, <2>2
<1>8. RegistrationsOrderly' /\ RegistrationsInOrder'
  BY <1>4 DEF LinkInv, RegistrationsOrderly, RegistrationsInOrder, Late
<1>9. RegisteredAreAccepted'
  <2>1. AcceptedRegistrations \subseteq AcceptedRegistrations'
    BY DEF AcceptedRegistrations, Accepted, WorkerFrames
  <2>2. ASSUME "REGISTER" \in DOMAIN up
        PROVE  up["REGISTER"] \in Scheduler(AcceptedRegistrations')
    BY <2>1, <2>2, SchedulerGrows DEF LinkInv, RegisteredAreAccepted
  <2>3. Scheduler(AcceptedRegistrations)' = Scheduler(AcceptedRegistrations')
    BY DEF Scheduler
  <2>4. ASSUME NEW i \in DOMAIN upLink', Registration(upLink'[i])
        PROVE  socket'[upLink'[i].pid] \in {"open", "closed"}
    <3>1. upLink[i].pid \in Pids
      BY <1>0, <1>4, <2>4, UpFrameIs
    <3>2. Accepted(upLink[i].pid)
      BY <1>4, <2>4 DEF LinkInv, RegisteredAreAccepted
    <3> QED
      BY <1>4, <2>4, <3>1, <3>2
  <2>5. authority.current # None => socket'[authority.current] \in {"open", "closed"}
    BY DEF LinkInv, RegisteredAreAccepted, Types, AuthorityTypes
  <2> QED
    BY <2>2, <2>3, <2>4, <2>5 DEF RegisteredAreAccepted, Accepted
<1>10. FirstIsForgotten'
  BY <1>4 DEF LinkInv, FirstIsForgotten, Unborn
<1>11. NotedIsNext'
  BY <1>1, <1>3 DEF LinkInv, NotedIsNext
<1> QED
  BY <1>5, <1>7, <1>8, <1>9, <1>10, <1>11 DEF LinkInv

---------------------------------------------------------------------------
(* The states of the authority and the frames it may send.                 *)
Authorities ==
  [alive : BOOLEAN, registered : BOOLEAN, current : Pids \cup {None},
   generation : Nat, shutdown : BOOLEAN, logged : BOOLEAN, noted : BOOLEAN]
Answers == DownFrames \cup {Frame("HARNESS_REGISTERED", None)}

(* A write of the authority changes nothing but what it has decided, or    *)
(* ends it.                                                                *)
LEMMA AuthoritySends ==
  ASSUME NEW next \in Authorities, NEW frames \in Seq(Answers), AuthoritySend(frames, next),
         downLink \in Seq(Answers)
  PROVE  /\ authority' \in Authorities /\ downLink' \in Seq(Answers)
         /\ authority'.current = next.current /\ authority'.logged = next.logged
         /\ authority'.noted = next.noted
         /\ authority'.alive => next.alive
<1>1. downLink \o frames \in Seq(Answers)
  BY Concatenated
<1>2. [next EXCEPT !.alive = FALSE] \in Authorities
  BY DEF Authorities
<1>3. CASE authority' = next
  BY <1>1, <1>3 DEF AuthoritySend
<1>4. CASE authority' = [next EXCEPT !.alive = FALSE] /\ downLink' = downLink
  BY <1>2, <1>4 DEF Authorities
<1>5. CASE /\ authority' = next
           /\ downLink' = IF harness.status = "running" THEN downLink \o frames ELSE downLink
  BY <1>1, <1>5
<1> QED
  BY <1>4, <1>5 DEF AuthoritySend

(* What the authority makes of a frame: a registration makes its worker    *)
(* current, a failure or a shutdown that is acknowledged clears it.        *)
Read(m) ==
  /\ authority' \in Authorities /\ downLink' \in Seq(Answers)
  /\ authority'.alive => authority.alive
  /\ IF Registration(m) THEN authority'.current \in {authority.current, m.pid}
     ELSE /\ authority'.current \in {authority.current, None}
          /\ m.kind = "PROCESS_FAILURE" => authority'.current # m.pid
  /\ authority'.logged = authority.logged
  /\ authority'.noted = (authority.noted /\ m.kind # "PROCESS_FAILURE")

LEMMA AuthorityReads ==
  ASSUME Types, NEW m \in UpFrames, AuthorityHandles(m)
  PROVE  Read(m)
<1>1. authority \in Authorities /\ downLink \in Seq(Answers) /\ << >> \in Seq(Answers)
  BY DEF Types, AuthorityTypes, LinkTypes, Authorities, Answers
<1>2. CASE m.kind = "HARNESS_REGISTER"
  <2>1. /\ AuthoritySend(<<Frame("HARNESS_REGISTERED", None)>>, [authority EXCEPT !.registered = TRUE])
        /\ ~Registration(m)
    BY <1>2 DEF AuthorityHandles, Registration
  <2>2. /\ [authority EXCEPT !.registered = TRUE] \in Authorities
        /\ <<Frame("HARNESS_REGISTERED", None)>> \in Seq(Answers)
    <3>1. [authority EXCEPT !.registered = TRUE] \in Authorities
      BY <1>1 DEF Authorities
    <3>2. Frame("HARNESS_REGISTERED", None) \in Answers
      BY DEF Answers
    <3> QED
      BY <3>1, <3>2
  <2>3. /\ [authority EXCEPT !.registered = TRUE].current = authority.current
        /\ [authority EXCEPT !.registered = TRUE].logged = authority.logged
        /\ [authority EXCEPT !.registered = TRUE].noted = authority.noted
        /\ [authority EXCEPT !.registered = TRUE].alive = authority.alive
    BY <1>1 DEF Authorities
  <2>4. authority.noted \in BOOLEAN
    BY <1>1 DEF Authorities
  <2> QED
    BY <1>1, <1>2, <2>1, <2>2, <2>3, <2>4, AuthoritySends DEF Read
<1>3. CASE m.kind = "REGISTER" /\ ~authority.registered
  <2>1. authority' = authority /\ downLink' = downLink
    BY <1>3 DEF AuthorityHandles
  <2> QED
    BY <1>1, <1>3, <2>1 DEF Read, Registration, Authorities
<1>4. CASE m.kind = "REGISTER" /\ authority.registered
  <2> DEFINE out == <<Frame("REGISTERED", m.pid),
                      WorkFrame("WORK", m.pid, <<m.pid, authority.generation + 1>>)>>
  <2>1. AuthoritySend(out, Registered(m)) /\ Registration(m)
    BY <1>4 DEF AuthorityHandles, Registration
  <2>2. m.pid \in Pids
    BY <2>1, UpFrameIs
  <2>3. /\ Registered(m) \in Authorities /\ Registered(m).current = m.pid
        /\ Registered(m).logged = authority.logged /\ Registered(m).noted = authority.noted
        /\ Registered(m).alive = authority.alive
    <3>1. authority.generation + 1 \in Nat /\ m.pid \in Pids \cup {None}
      BY <1>1, <2>2 DEF Authorities
    <3>2. Registered(m) = [authority EXCEPT !.current = m.pid, !.generation = authority.generation + 1]
      BY DEF Registered
    <3> QED
      BY <1>1, <3>1, <3>2 DEF Authorities
  <2>4. out \in Seq(Answers)
    <3>1. authority.generation + 1 \in Nat
      BY <1>1 DEF Authorities
    <3>2. /\ Frame("REGISTERED", m.pid) \in Answers
          /\ WorkFrame("WORK", m.pid, <<m.pid, authority.generation + 1>>) \in Answers
      BY <2>2, <3>1 DEF Answers, DownFrames, Frame, WorkFrame, ToWorker, Works
    <3> QED
      BY <3>2
  <2>5. authority.noted \in BOOLEAN
    BY <1>1 DEF Authorities
  <2> HIDE DEF out
  <2> QED
    BY <1>1, <1>4, <2>1, <2>3, <2>4, <2>5, AuthoritySends DEF Read
<1>5. CASE m.kind = "COMPLETE"
  <2>1. PICK out \in {<< >>, <<Frame("SHUTDOWN", authority.current)>>} :
          /\ AuthoritySend(out, authority)
          /\ out # << >> => m.pid = authority.current
    BY <1>5 DEF AuthorityHandles
  <2>2. m.pid \in Pids /\ ~Registration(m)
    BY <1>5 DEF UpFrames, WorkerFrames, Failure, Frame, Registration
  <2>3. out \in Seq(Answers)
    <3>1. CASE out = << >>
      BY <1>1, <3>1
    <3>2. CASE out # << >>
      <4>1. Frame("SHUTDOWN", authority.current) \in Answers
        BY <2>1, <2>2, <3>2 DEF Answers, DownFrames, Frame, ToWorker, Works
      <4>2. out = <<Frame("SHUTDOWN", authority.current)>>
        BY <2>1, <3>2
      <4> QED
        BY <4>1, <4>2
    <3> QED
      BY <3>1, <3>2
  <2>4. authority.noted \in BOOLEAN
    BY <1>1 DEF Authorities
  <2> QED
    BY <1>1, <1>5, <2>1, <2>2, <2>3, <2>4, AuthoritySends DEF Read
<1>6. ASSUME NEW a \in Authorities, NEW p \in Pids
      PROVE  /\ Cleared(a, p) \in Authorities
             /\ Cleared(a, p).current \in {a.current, None} /\ Cleared(a, p).current # p
             /\ Cleared(a, p).logged = a.logged /\ Cleared(a, p).noted = a.noted
             /\ Cleared(a, p).alive = a.alive
  BY NoneIsNoPid DEF Cleared, Authorities
<1>7. CASE m.kind = "PROCESS_FAILURE"
  <2> DEFINE handled == [authority EXCEPT !.noted = FALSE]
  <2>1. AuthoritySend(<< >>, Cleared(handled, m.pid)) /\ ~Registration(m)
    BY <1>7 DEF AuthorityHandles, Registration
  <2>2. m.pid \in Pids
    BY <1>7 DEF UpFrames, WorkerFrames, FromWorker, Failure, Frame
  <2>3. /\ handled \in Authorities /\ handled.current = authority.current
        /\ handled.logged = authority.logged /\ handled.noted = FALSE
        /\ handled.alive = authority.alive
    BY <1>1 DEF Authorities
  <2> HIDE DEF handled
  <2>4. /\ Cleared(handled, m.pid) \in Authorities
        /\ Cleared(handled, m.pid).current \in {authority.current, None}
        /\ Cleared(handled, m.pid).current # m.pid
        /\ Cleared(handled, m.pid).logged = authority.logged
        /\ Cleared(handled, m.pid).noted = FALSE /\ Cleared(handled, m.pid).alive = authority.alive
    BY <1>6, <2>2, <2>3
  <2> QED
    BY <1>1, <1>7, <2>1, <2>4, AuthoritySends DEF Read
<1>8. CASE m.kind = "SHUTDOWN_ACK"
  <2>1. AuthoritySend(<< >>, Cleared(authority, m.pid)) /\ ~Registration(m)
    BY <1>8 DEF AuthorityHandles, Registration
  <2>2. m.pid \in Pids
    BY <1>8 DEF UpFrames, WorkerFrames, Failure, Frame
  <2>3. /\ Cleared(authority, m.pid) \in Authorities
        /\ Cleared(authority, m.pid).current \in {authority.current, None}
        /\ Cleared(authority, m.pid).logged = authority.logged
        /\ Cleared(authority, m.pid).noted = authority.noted
        /\ Cleared(authority, m.pid).alive = authority.alive
        /\ authority.noted \in BOOLEAN
    BY <1>1, <1>6, <2>2 DEF Authorities
  <2> QED
    BY <1>1, <1>8, <2>1, <2>3, AuthoritySends DEF Read
<1>9. m.kind \in {"HARNESS_REGISTER", "REGISTER", "COMPLETE", "PROCESS_FAILURE", "SHUTDOWN_ACK"}
  BY DEF UpFrames, WorkerFrames, FromWorker, Failure, Frame
<1> QED
  BY <1>2, <1>3, <1>4, <1>5, <1>7, <1>8, <1>9

(* The authority reads the oldest frame on its link (AuthorityReceive).    *)
LEMMA LinkRead ==
  ASSUME Types, LinkInv, ReportedHaveEnded, authority.alive, upLink # << >>,
         upLink' = Tail(upLink), Read(Head(upLink)), UNCHANGED <<harnessVars, workerVars>>
  PROVE  LinkInv'
<1> DEFINE rest == Tail(upLink)
           m == Head(upLink)
<1>1. /\ upLink \in Seq(UpFrames) /\ m = upLink[1] /\ m \in UpFrames /\ 1 \in DOMAIN upLink
      /\ rest \in Seq(UpFrames) /\ upLink' = rest /\ DOMAIN upLink \subseteq Int
      /\ \A i \in DOMAIN rest : i \in 1..Len(rest) /\ i + 1 \in DOMAIN upLink /\ rest[i] = upLink[i + 1]
      /\ \A i \in DOMAIN upLink : i # 1 => i - 1 \in DOMAIN rest /\ rest[i - 1] = upLink[i]
  BY Shifted DEF Types, LinkTypes
<1>2. UNCHANGED <<harness, up, down, reported, process, socket, toWorker, fromWorker>>
  BY DEF harnessVars, workerVars
<1>3. Read(m)
  OBVIOUS
<1> HIDE DEF rest, m
<1>4. \A i \in DOMAIN rest : Registration(rest[i]) => rest[i].pid \in Pids
  BY <1>1, UpFrameIs
<1>5. FailuresOnce'
  <2>1. \A i, j \in DOMAIN rest : i + 1 = j + 1 => i = j
    BY <1>1
  <2>2. \A w \in Pids : \A i \in DOMAIN rest : rest[i] = Failure(w) => w \in reported
    BY <1>1 DEF LinkInv, FailuresOnce
  <2>3. \A w \in Pids : \A i, j \in DOMAIN rest : rest[i] = Failure(w) /\ rest[j] = Failure(w) => i = j
    BY <1>1, <2>1 DEF LinkInv, FailuresOnce
  <2> QED
    BY <1>1, <1>2, <2>2, <2>3 DEF FailuresOnce
<1>6. \A w \in Pids : Settled(w)' = Settled(w)
  BY <1>2 DEF Settled, Unborn
<1>7. FailureComesLast'
  <2> SUFFICES ASSUME NEW w \in reported', authority'.alive, Settled(w)'
               PROVE  /\ authority'.current = w => \E j \in DOMAIN rest : rest[j] = Failure(w)
                      /\ \A i \in DOMAIN rest : Registration(rest[i]) /\ rest[i].pid = w =>
                           \E j \in DOMAIN rest : j > i /\ rest[j] = Failure(w)
    BY <1>1 DEF FailureComesLast
  <2>0. w \in reported /\ w \in Pids /\ Settled(w)
    BY <1>2, <1>6 DEF Types, HarnessTypes
  <2>1. ASSUME authority'.current = w PROVE \E j \in DOMAIN rest : rest[j] = Failure(w)
    <3>1. m # Failure(w)
      BY <1>3, <2>0, <2>1 DEF Read, Failure, Frame, Registration
    <3>2. CASE authority.current = w
      <4>1. PICK j \in DOMAIN upLink : upLink[j] = Failure(w)
        BY <2>0, <3>2 DEF LinkInv, FailureComesLast
      <4>2. j # 1
        BY <1>1, <3>1, <4>1
      <4> QED
        BY <1>1, <4>1, <4>2
    <3>3. CASE Registration(m) /\ m.pid = w
      <4>1. PICK j \in DOMAIN upLink : j > 1 /\ upLink[j] = Failure(w)
        BY <1>1, <2>0, <3>3 DEF LinkInv, FailureComesLast
      <4>2. j # 1
        BY <4>1
      <4> QED
        BY <1>1, <4>1, <4>2
    <3>4. authority.current = w \/ (Registration(m) /\ m.pid = w)
      BY <1>3, <2>0, <2>1, NoneIsNoPid DEF Read
    <3> QED
      BY <3>2, <3>3, <3>4
  <2>2. ASSUME NEW i \in DOMAIN rest, Registration(rest[i]), rest[i].pid = w
        PROVE  \E j \in DOMAIN rest : j > i /\ rest[j] = Failure(w)
    <3>1. i + 1 \in DOMAIN upLink /\ upLink[i + 1] = rest[i] /\ i \in Int /\ i > 0
      BY <1>1
    <3>2. PICK j \in DOMAIN upLink : j > i + 1 /\ upLink[j] = Failure(w)
      BY <2>0, <2>2, <3>1 DEF LinkInv, FailureComesLast
    <3>3. j # 1 /\ j - 1 > i
      BY <1>1, <3>1, <3>2
    <3> QED
      BY <1>1, <3>2, <3>3
  <2> QED
    BY <2>1, <2>2
<1>8. RegistrationsOrderly'
  BY <1>2 DEF LinkInv, RegistrationsOrderly
<1>9. RegisteredAreAccepted'
  <2>1. authority'.current # None => Accepted(authority'.current)
    BY <1>1, <1>3 DEF Read, LinkInv, RegisteredAreAccepted
  <2>2. \A i \in DOMAIN rest : Registration(rest[i]) => Accepted(rest[i].pid)
    BY <1>1 DEF LinkInv, RegisteredAreAccepted
  <2> QED
    BY <1>1, <1>2, <2>1, <2>2
    DEF LinkInv, RegisteredAreAccepted, Accepted, AcceptedRegistrations
<1>10. RegistrationsInOrder'
  <2> SUFFICES ASSUME OrderlyPlans
               PROVE  RegistrationsInOrder'
    BY DEF RegistrationsInOrder
  <2>0. /\ \A i, j \in DOMAIN upLink :
             Registration(upLink[i]) /\ Registration(upLink[j]) /\ i < j => upLink[i].pid <= upLink[j].pid
        /\ \A i \in DOMAIN upLink, j \in DOMAIN Late(up, "REGISTER") :
             Registration(upLink[i]) => upLink[i].pid <= Late(up, "REGISTER")[j].pid
        /\ \A i, j \in DOMAIN Late(up, "REGISTER") :
             i < j => Late(up, "REGISTER")[i].pid <= Late(up, "REGISTER")[j].pid
        /\ authority.current # None =>
             /\ \A i \in DOMAIN upLink :
                  Registration(upLink[i]) => authority.current <= upLink[i].pid
             /\ \A i \in DOMAIN Late(up, "REGISTER") : authority.current <= Late(up, "REGISTER")[i].pid
    BY DEF LinkInv, RegistrationsInOrder
  <2>1. \A i, j \in DOMAIN rest : i < j => i + 1 < j + 1
    BY <1>1
  <2>2. \A i, j \in DOMAIN rest :
          Registration(rest[i]) /\ Registration(rest[j]) /\ i < j => rest[i].pid <= rest[j].pid
    BY <1>1, <2>0, <2>1
  <2>3. \A i \in DOMAIN rest, j \in DOMAIN Late(up, "REGISTER") :
          Registration(rest[i]) => rest[i].pid <= Late(up, "REGISTER")[j].pid
    BY <1>1, <2>0
  <2>4. ASSUME authority'.current # None
        PROVE  /\ \A i \in DOMAIN rest : Registration(rest[i]) => authority'.current <= rest[i].pid
               /\ \A i \in DOMAIN Late(up, "REGISTER") : authority'.current <= Late(up, "REGISTER")[i].pid
    <3>1. CASE authority'.current = authority.current
      BY <1>1, <2>0, <2>4, <3>1
    <3>2. CASE Registration(m) /\ authority'.current = m.pid
      <4>1. \A i \in DOMAIN rest : 1 < i + 1
        BY <1>1
      <4> QED
        BY <1>1, <2>0, <3>2, <4>1
    <3> QED
      BY <1>3, <2>4, <3>1, <3>2 DEF Read
  <2>5. Late(up, "REGISTER")' = Late(up, "REGISTER")
    BY <1>2 DEF Late
  <2> QED
    BY <1>1, <2>0, <2>2, <2>3, <2>4, <2>5 DEF RegistrationsInOrder
<1>11. ~authority'.noted /\ NotedIsNext'
  <2>1. authority.noted => m.kind = "PROCESS_FAILURE"
    BY <1>1 DEF LinkInv, NotedIsNext, Failure, Frame
  <2>2. authority'.noted = (authority.noted /\ m.kind # "PROCESS_FAILURE")
    BY <1>3 DEF Read
  <2>3. authority'.noted = FALSE
    BY <2>1, <2>2, Zenon
  <2> QED
    BY <2>3 DEF NotedIsNext
<1>12. FirstIsForgotten'
  <2>1. authority'.logged => reported # {}
    BY <1>3 DEF Read, LinkInv, FirstIsForgotten
  <2> SUFFICES ASSUME authority.logged, OrderlyPlans, \A v \in Pids : v > 1 => Unborn(v)
               PROVE  /\ authority'.current # 1
                      /\ \A i \in DOMAIN rest : Registration(rest[i]) => rest[i].pid # 1
    BY <1>1, <1>2, <1>3, <2>1 DEF FirstIsForgotten, Read, Unborn
  <2>2. /\ authority.current # 1 \/ authority.noted
        /\ \A i \in DOMAIN upLink : Registration(upLink[i]) => upLink[i].pid # 1
    BY DEF LinkInv, FirstIsForgotten
  <2>3. CASE authority.noted
    <3>1. PICK w \in Pids : m = Failure(w)
      BY <1>1, <2>3 DEF LinkInv, NotedIsNext
    <3>2. w \in reported /\ ~Unborn(w)
      BY <1>1, <3>1 DEF LinkInv, FailuresOnce, ReportedHaveEnded, Ended, Unborn
    <3>3. w = 1
      BY <3>2 DEF Pids
    <3> QED
      BY <1>1, <1>3, <2>2, <3>1, <3>3 DEF Read, Registration, Failure, Frame
  <2>4. CASE authority.current # 1
    <3>1. None # 1
      BY SubstrateAssumption
    <3> QED
      BY <1>1, <1>3, <2>2, <2>4, <3>1 DEF Read
  <2> QED
    BY <2>2, <2>3, <2>4
<1> QED
  BY <1>5, <1>7, <1>8, <1>9, <1>10, <1>11, <1>12 DEF LinkInv

(* The authority logs the failure it handles next (AuthorityNotes).        *)
LEMMA LinkNoted ==
  ASSUME Types, LinkInv, ReportedHaveEnded, authority.alive,
         NEW w \in Pids, 1 \in DOMAIN upLink, upLink[1] = Failure(w),
         authority'.current = authority.current, authority'.alive = authority.alive,
         authority'.noted, UNCHANGED <<upLink, up, reported, process, socket>>
  PROVE  LinkInv'
<1>1. FailuresOnce' /\ RegistrationsOrderly' /\ RegistrationsInOrder' /\ NotedIsNext'
  BY DEF LinkInv, FailuresOnce, RegistrationsOrderly, RegistrationsInOrder, Late, NotedIsNext
<1>2. \A v \in Pids : Settled(v)' = Settled(v)
  BY DEF Settled, Unborn
<1>3. FailureComesLast'
  BY <1>2 DEF LinkInv, FailureComesLast, Types, HarnessTypes
<1>4. RegisteredAreAccepted'
  BY DEF LinkInv, RegisteredAreAccepted, Accepted, AcceptedRegistrations
<1>5. w \in reported /\ ~Unborn(w)
  BY DEF LinkInv, FailuresOnce, ReportedHaveEnded, Ended, Unborn
<1>6. FirstIsForgotten'
  <2> SUFFICES ASSUME OrderlyPlans, \A v \in Pids : v > 1 => Unborn(v),
                      NEW i \in DOMAIN upLink, Registration(upLink[i]), upLink[i].pid = 1
               PROVE  FALSE
    BY <1>5 DEF FirstIsForgotten, Unborn
  <2>1. w = 1 /\ Settled(1)
    BY <1>5 DEF Pids, Settled
  <2>2. PICK j \in DOMAIN upLink : j > i /\ upLink[j] = Failure(1)
    BY <1>5, <2>1 DEF LinkInv, FailureComesLast
  <2>3. j = 1
    BY <2>1, <2>2 DEF LinkInv, FailuresOnce
  <2>4. DOMAIN upLink = 1..Len(upLink)
    BY DEF Types, LinkTypes
  <2> QED
    BY <2>2, <2>3, <2>4
<1> QED
  BY <1>1, <1>3, <1>4, <1>6 DEF LinkInv

---------------------------------------------------------------------------
OfKind(F, kind) == {m \in F : m.kind = kind}

(* The harness submits a frame to the scheduler of its kind, if there is   *)
(* one: the others stay as they are (Scheduled, Updated).                  *)
After(q, kind, m) == Updated(q, kind, Scheduled(q, kind, m))
Sent(q, kind, m) == Scheduled(q, kind, m).out

LEMMA ScheduledFrames ==
  ASSUME NEW F, NEW q, Schedulers(q, F), NEW m \in F, NEW kind, kind = m.kind
  PROVE  /\ Schedulers(After(q, kind, m), F) /\ DOMAIN After(q, kind, m) = DOMAIN q
         /\ Sent(q, kind, m) \in Seq(OfKind(F, kind))
         /\ \A k \in DOMAIN q : k # kind => After(q, kind, m)[k] = q[k]
         /\ kind \in DOMAIN q => /\ After(q, kind, m)[kind] = Submit(q[kind], m).queue
                                 /\ Sent(q, kind, m) = Submit(q[kind], m).out
         /\ kind \notin DOMAIN q => Sent(q, kind, m) = <<m>> /\ After(q, kind, m) = q
<1>1. CASE kind \notin DOMAIN q
  <2>1. Sent(q, kind, m) = <<m>> /\ After(q, kind, m) = q
    BY <1>1 DEF Sent, After, Scheduled, Updated, Answer
  <2>2. m \in OfKind(F, kind)
    BY DEF OfKind
  <2>3. <<m>> \in Seq(OfKind(F, kind))
    BY <2>2
  <2> QED
    BY <1>1, <2>1, <2>3
<1>2. CASE kind \in DOMAIN q
  <2> DEFINE r == Submit(q[kind], m)
  <2>1. Sent(q, kind, m) = r.out /\ After(q, kind, m) = [q EXCEPT ![kind] = r.queue]
    BY <1>2 DEF Sent, After, Scheduled, Updated
  <2>2. q[kind] \in Scheduler(OfKind(F, kind)) /\ m \in OfKind(F, kind)
    BY <1>2 DEF Schedulers, OfKind
  <2>3. r.queue \in Scheduler(OfKind(F, kind)) /\ r.out \in Seq(OfKind(F, kind))
    BY <2>2, SubmitFrames
  <2>4. q = [k \in DOMAIN q |-> q[k]] /\ \A k \in DOMAIN q : q[k] \in Scheduler(OfKind(F, k))
    BY DEF Schedulers, OfKind
  <2>5. /\ DOMAIN After(q, kind, m) = DOMAIN q /\ After(q, kind, m)[kind] = r.queue
        /\ \A k \in DOMAIN q : k # kind => After(q, kind, m)[k] = q[k]
        /\ After(q, kind, m) = [k \in DOMAIN After(q, kind, m) |-> After(q, kind, m)[k]]
    <3> HIDE DEF r
    <3> QED
      BY <1>2, <2>1, <2>4
  <2>6. Schedulers(After(q, kind, m), F)
    <3>1. \A k \in DOMAIN After(q, kind, m) : After(q, kind, m)[k] \in Scheduler(OfKind(F, k))
      <4> HIDE DEF r
      <4> QED
        BY <2>3, <2>4, <2>5
    <3> QED
      BY <2>5, <3>1 DEF Schedulers, OfKind
  <2> QED
    BY <1>2, <2>1, <2>3, <2>5, <2>6
<1> QED
  BY <1>1, <1>2

(* Flushing the late or the delayed frames leaves the others.              *)
LEMMA Flushed ==
  ASSUME NEW F, NEW q \in Scheduler(F)
  PROVE  /\ FlushLate(q).queue \in Scheduler(F) /\ FlushLate(q).queue.late = << >>
         /\ FlushLate(q).queue.script = q.script /\ FlushLate(q).queue.held = q.held
         /\ FlushLate(q).queue.delayed = q.delayed
         /\ FlushDelayed(q).queue \in Scheduler(F) /\ FlushDelayed(q).queue.delayed = << >>
         /\ FlushDelayed(q).queue.script = q.script /\ FlushDelayed(q).queue.held = q.held
         /\ FlushDelayed(q).queue.late = q.late
         /\ q.late \in Seq(F) /\ q.delayed \in Seq(F)
<1>1. << >> \in Seq(F)
  OBVIOUS
<1> QED
  BY <1>1 DEF Scheduler, FlushLate, FlushDelayed, Answer

(* All schedulers of a direction at once.                                  *)
LEMMA AllFlushed ==
  ASSUME NEW F, NEW q, Schedulers(q, F)
  PROVE  /\ Schedulers([kind \in DOMAIN q |-> FlushLate(q[kind]).queue], F)
         /\ Schedulers([kind \in DOMAIN q |-> FlushDelayed(q[kind]).queue], F)
         /\ \A kind : /\ Late(q, kind) \in Seq(OfKind(F, kind))
                      /\ DelayedOf(q, kind) \in Seq(OfKind(F, kind))
<1>1. \A kind \in DOMAIN q : q[kind] \in Scheduler(OfKind(F, kind))
  BY DEF Schedulers, OfKind
<1>2. \A kind \in DOMAIN q : /\ FlushLate(q[kind]).queue \in Scheduler(OfKind(F, kind))
                             /\ FlushDelayed(q[kind]).queue \in Scheduler(OfKind(F, kind))
                             /\ q[kind].late \in Seq(OfKind(F, kind))
                             /\ q[kind].delayed \in Seq(OfKind(F, kind))
  BY <1>1, Flushed
<1>3. \A kind : << >> \in Seq(OfKind(F, kind))
  OBVIOUS
<1> QED
  BY <1>2, <1>3 DEF Schedulers, OfKind, Late, DelayedOf

(* What is written of registrations, completions and acknowledgements, one *)
(* kind after the other: the registrations come first.                     *)
LEMMA KindsInTurn ==
  ASSUME NEW s \in Seq(OfKind(WorkerFrames, "REGISTER")),
         NEW t \in Seq(OfKind(WorkerFrames, "COMPLETE")),
         NEW u \in Seq(OfKind(WorkerFrames, "SHUTDOWN_ACK"))
  PROVE  /\ s \o t \o u \in Seq(WorkerFrames)
         /\ \A i \in DOMAIN s : i \in DOMAIN (s \o t \o u) /\ (s \o t \o u)[i] = s[i]
         /\ \A i \in DOMAIN (s \o t \o u) :
              Registration((s \o t \o u)[i]) => i \in DOMAIN s /\ (s \o t \o u)[i] = s[i]
<1>1. s \in Seq(WorkerFrames) /\ t \in Seq(WorkerFrames) /\ u \in Seq(WorkerFrames)
  BY DEF OfKind
<1>2. /\ \A i \in DOMAIN t : ~Registration(t[i])
      /\ \A i \in DOMAIN u : ~Registration(u[i])
  BY DEF OfKind, Registration
<1> DEFINE st == s \o t
<1>3. /\ st \in Seq(WorkerFrames)
      /\ DOMAIN st = 1..Len(s) + Len(t)
      /\ \A i \in DOMAIN s : i \in DOMAIN st /\ st[i] = s[i]
      /\ \A i \in DOMAIN st : i \notin DOMAIN s => i - Len(s) \in DOMAIN t /\ st[i] = t[i - Len(s)]
  BY <1>1, Concatenated
<1> HIDE DEF st
<1> DEFINE stu == st \o u
<1>4. /\ stu \in Seq(WorkerFrames)
      /\ \A i \in DOMAIN st : i \in DOMAIN stu /\ stu[i] = st[i]
      /\ \A i \in DOMAIN stu : i \notin DOMAIN st => i - Len(st) \in DOMAIN u /\ stu[i] = u[i - Len(st)]
  BY <1>1, <1>3, Concatenated
<1> HIDE DEF stu
<1>5. \A i \in DOMAIN stu : Registration(stu[i]) => i \in DOMAIN s /\ stu[i] = s[i]
  BY <1>2, <1>3, <1>4
<1> QED
  BY <1>3, <1>4, <1>5 DEF st, stu

---------------------------------------------------------------------------
(* What is written and kept of registrations is from accepted workers.     *)
LEMMA AcceptedSent ==
  ASSUME Types, LinkInv, UNCHANGED <<authority, socket>>,
         NEW frames \in Seq(WorkerFrames),
         upLink' = (IF authority.alive THEN upLink \o frames ELSE upLink),
         \A i \in DOMAIN frames : Registration(frames[i]) => Accepted(frames[i].pid),
         "REGISTER" \in DOMAIN up' => up'["REGISTER"] \in Scheduler(AcceptedRegistrations)
  PROVE  RegisteredAreAccepted'
<1> DEFINE whole == upLink \o frames
<1>1. upLink \in Seq(UpFrames) /\ frames \in Seq(UpFrames)
  BY DEF Types, LinkTypes, UpFrames
<1>2. \A i \in DOMAIN whole :
        \/ i \in DOMAIN upLink /\ whole[i] = upLink[i]
        \/ i - Len(upLink) \in DOMAIN frames /\ whole[i] = frames[i - Len(upLink)]
  BY <1>1, Concatenated
<1> HIDE DEF whole
<1>3. upLink' = upLink \/ upLink' = whole
  BY DEF whole
<1>4. \A i \in DOMAIN upLink' : Registration(upLink'[i]) => Accepted(upLink'[i].pid)
  BY <1>2, <1>3 DEF LinkInv, RegisteredAreAccepted
<1>5. Scheduler(AcceptedRegistrations)' = Scheduler(AcceptedRegistrations)
  BY DEF Scheduler, AcceptedRegistrations, Accepted
<1> QED
  BY <1>4, <1>5 DEF LinkInv, RegisteredAreAccepted, Accepted

(* What is written and kept of registrations is in order, and not older    *)
(* than what was written before.                                           *)
LEMMA OrderedSent ==
  ASSUME Types, LinkInv, UNCHANGED authority,
         NEW frames \in Seq(WorkerFrames),
         upLink' = (IF authority.alive THEN upLink \o frames ELSE upLink),
         NEW late, late = Late(up, "REGISTER")',
         OrderlyPlans =>
           /\ \A i, j \in DOMAIN frames :
                Registration(frames[i]) /\ Registration(frames[j]) /\ i < j => frames[i].pid <= frames[j].pid
           /\ \A i \in DOMAIN frames, j \in DOMAIN late :
                Registration(frames[i]) => frames[i].pid <= late[j].pid
           /\ \A i, j \in DOMAIN late : i < j => late[i].pid <= late[j].pid
           /\ \A i \in DOMAIN upLink, j \in DOMAIN frames :
                Registration(upLink[i]) /\ Registration(frames[j]) => upLink[i].pid <= frames[j].pid
           /\ \A i \in DOMAIN upLink, j \in DOMAIN late :
                Registration(upLink[i]) => upLink[i].pid <= late[j].pid
           /\ authority.current # None =>
                /\ \A i \in DOMAIN frames : Registration(frames[i]) => authority.current <= frames[i].pid
                /\ \A i \in DOMAIN late : authority.current <= late[i].pid
  PROVE  RegistrationsInOrder'
<1> DEFINE whole == upLink \o frames
<1> SUFFICES ASSUME OrderlyPlans PROVE RegistrationsInOrder'
  BY DEF RegistrationsInOrder
<1>1. upLink \in Seq(UpFrames) /\ frames \in Seq(UpFrames)
  BY DEF Types, LinkTypes, UpFrames
<1>2. /\ \A i \in DOMAIN whole :
           \/ i \in DOMAIN upLink /\ whole[i] = upLink[i] /\ i \in 1..Len(upLink)
           \/ /\ i - Len(upLink) \in DOMAIN frames /\ whole[i] = frames[i - Len(upLink)]
              /\ i > Len(upLink) /\ i \in Int
      /\ Len(upLink) \in Nat
  BY <1>1, Concatenated
<1> HIDE DEF whole
<1>3. upLink' = upLink \/ upLink' = whole
  BY DEF whole
<1>4. /\ \A i, j \in DOMAIN upLink :
           Registration(upLink[i]) /\ Registration(upLink[j]) /\ i < j => upLink[i].pid <= upLink[j].pid
      /\ authority.current # None => \A i \in DOMAIN upLink :
           Registration(upLink[i]) => authority.current <= upLink[i].pid
  BY DEF LinkInv, RegistrationsInOrder
<1>5. CASE upLink' = upLink
  BY <1>4, <1>5 DEF RegistrationsInOrder
<1>6. CASE upLink' = whole
  <2>1. ASSUME NEW i \in DOMAIN whole, NEW j \in DOMAIN whole,
               Registration(whole[i]), Registration(whole[j]), i < j
        PROVE  whole[i].pid <= whole[j].pid
    <3>1. CASE i \in DOMAIN upLink /\ j \in DOMAIN upLink
      BY <1>2, <1>4, <2>1, <3>1
    <3>2. CASE i \in 1..Len(upLink) /\ j > Len(upLink)
      BY <1>2, <2>1, <3>2
    <3>3. CASE i > Len(upLink) /\ j > Len(upLink)
      <4>1. i \notin 1..Len(upLink) /\ j \notin 1..Len(upLink)
        BY <3>3
      <4>2. i - Len(upLink) < j - Len(upLink)
        BY <1>2, <2>1, <4>1
      <4> QED
        BY <1>2, <2>1, <4>1, <4>2
    <3> QED
      BY <1>2, <2>1, <3>1, <3>2, <3>3
  <2>2. \A i \in DOMAIN whole, j \in DOMAIN late :
          Registration(whole[i]) => whole[i].pid <= late[j].pid
    BY <1>2
  <2>3. authority.current # None =>
          \A i \in DOMAIN whole : Registration(whole[i]) => authority.current <= whole[i].pid
    BY <1>2, <1>4
  <2> QED
    BY <1>6, <2>1, <2>2, <2>3 DEF RegistrationsInOrder
<1> QED
  BY <1>3, <1>5, <1>6

(* Frames without registrations, when nothing changes about those kept.    *)
LEMMA OthersSent ==
  ASSUME Types, LinkInv, ReportedHaveEnded,
         UNCHANGED <<authority, reported, process, socket>>,
         NEW frames \in Seq(WorkerFrames),
         upLink' = (IF authority.alive THEN upLink \o frames ELSE upLink),
         \A i \in DOMAIN frames : ~Registration(frames[i]),
         DOMAIN up' = DOMAIN up,
         "REGISTER" \in DOMAIN up => up'["REGISTER"] = up["REGISTER"]
  PROVE  LinkInv'
<1>1. Late(up, "REGISTER")' = Late(up, "REGISTER")
  BY DEF Late
<1>2. RegistrationsOrderly'
  BY DEF LinkInv, RegistrationsOrderly
<1>3. RegisteredAreAccepted'
  <2>1. "REGISTER" \in DOMAIN up' => up'["REGISTER"] \in Scheduler(AcceptedRegistrations)
    BY DEF LinkInv, RegisteredAreAccepted
  <2> QED
    BY <2>1, AcceptedSent
<1>4. RegistrationsInOrder'
  <2> DEFINE late == Late(up, "REGISTER")
  <2>1. OrderlyPlans =>
           /\ \A i, j \in DOMAIN late : i < j => late[i].pid <= late[j].pid
           /\ \A i \in DOMAIN upLink, j \in DOMAIN late :
                Registration(upLink[i]) => upLink[i].pid <= late[j].pid
           /\ authority.current # None => \A i \in DOMAIN late : authority.current <= late[i].pid
    BY DEF LinkInv, RegistrationsInOrder
  <2>2. late = Late(up, "REGISTER")'
    BY <1>1
  <2> HIDE DEF late
  <2> QED
    BY <2>1, <2>2, OrderedSent
<1> QED
  BY <1>2, <1>3, <1>4, FramesSent

---------------------------------------------------------------------------
(* The three processes and their connections, without the frames on the    *)
(* link to the authority.                                                  *)
ProcessInv ==
  /\ PidsInOrder /\ ConnectionsFirst /\ AcceptedInOrder /\ BatchIsFresh
  /\ KnownHaveRegistered /\ ReportedHaveEnded

(* The worker whose registration the harness reads is the newest accepted, *)
(* and no failure of a settled worker is behind it.                        *)
LEMMA ReadIsNewest ==
  ASSUME Types, ProcessInv, NEW v \in Pids, harness.worker = v
  PROVE  /\ \A w \in Pids : Accepted(w) => w <= v
         /\ Accepted(v) /\ v \notin reported
         /\ \A w \in reported : ~(\A x \in Pids : x > w => Unborn(x))
<1>1. socket[v] = "open" /\ Accepted(v)
  BY DEF ProcessInv, AcceptedInOrder, Accepted
<1>2. \A w \in Pids : Accepted(w) => w <= v
  BY <1>1 DEF ProcessInv, AcceptedInOrder
<1>3. \A w \in reported : w # v /\ Accepted(w) /\ w \in Pids
  BY <1>1 DEF ProcessInv, ReportedHaveEnded, Accepted, Types, HarnessTypes
<1>4. ~Unborn(v)
  BY <1>1 DEF ProcessInv, ConnectionsFirst, Unborn
<1>5. ASSUME NEW w \in reported PROVE v > w
  <2>1. w <= v /\ w # v
    BY <1>2, <1>3
  <2>2. v \in Int /\ w \in Int
    BY <1>3 DEF Pids
  <2> QED
    BY <2>1, <2>2
<1> QED
  BY <1>1, <1>2, <1>3, <1>4, <1>5

(* What a registration of v makes the harness write and keep: the late     *)
(* registrations before it, and itself once, twice, later or not at all.   *)
LEMMA RegistrationWritten ==
  ASSUME Types, LinkInv, NEW m \in WorkerFrames, Registration(m), Accepted(m.pid),
         NEW frames, frames = AllLate \o Sent(WithoutLate, "REGISTER", m),
         up' = After(WithoutLate, "REGISTER", m), UNCHANGED socket
  PROVE  /\ frames \in Seq(WorkerFrames) /\ DOMAIN up' = DOMAIN up
         /\ \A i \in DOMAIN frames : Registration(frames[i]) => Accepted(frames[i].pid)
         /\ "REGISTER" \in DOMAIN up' => up'["REGISTER"] \in Scheduler(AcceptedRegistrations)
         /\ RegistrationsOrderly'
         /\ OrderlyPlans \/ "REGISTER" \notin DOMAIN up =>
              /\ \A i \in DOMAIN frames : Registration(frames[i]) =>
                   \/ i \in DOMAIN Late(up, "REGISTER") /\ frames[i] = Late(up, "REGISTER")[i]
                   \/ i \notin DOMAIN Late(up, "REGISTER") /\ frames[i].pid = m.pid
              /\ \/ Late(up, "REGISTER")' = << >>
                 \/ /\ Late(up, "REGISTER")' = <<m>>
                    /\ \A i \in DOMAIN frames : Registration(frames[i]) => i \in DOMAIN Late(up, "REGISTER")
<1> DEFINE base == WithoutLate
           out == Sent(base, "REGISTER", m)
           late == Late(up, "REGISTER")
<1>1. Schedulers(up, WorkerFrames) /\ m.kind = "REGISTER" /\ m \in AcceptedRegistrations
  BY DEF Types, HarnessTypes, Registration, AcceptedRegistrations
<1>2. /\ Schedulers(base, WorkerFrames) /\ DOMAIN base = DOMAIN up
      /\ "REGISTER" \in DOMAIN up => base["REGISTER"] = FlushLate(up["REGISTER"]).queue
      /\ late \in Seq(OfKind(WorkerFrames, "REGISTER"))
      /\ Late(up, "COMPLETE") \in Seq(OfKind(WorkerFrames, "COMPLETE"))
      /\ Late(up, "SHUTDOWN_ACK") \in Seq(OfKind(WorkerFrames, "SHUTDOWN_ACK"))
  BY <1>1, AllFlushed DEF WithoutLate
<1>3. /\ Schedulers(up', WorkerFrames) /\ DOMAIN up' = DOMAIN base
      /\ out \in Seq(OfKind(WorkerFrames, "REGISTER"))
      /\ "REGISTER" \in DOMAIN base => /\ up'["REGISTER"] = Submit(base["REGISTER"], m).queue
                                       /\ out = Submit(base["REGISTER"], m).out
      /\ "REGISTER" \notin DOMAIN base => out = <<m>> /\ up' = base
  BY <1>1, <1>2, ScheduledFrames
<1>4. /\ AllLate \in Seq(WorkerFrames)
      /\ \A i \in DOMAIN late : i \in DOMAIN AllLate /\ AllLate[i] = late[i]
      /\ \A i \in DOMAIN AllLate : Registration(AllLate[i]) => i \in DOMAIN late /\ AllLate[i] = late[i]
  BY <1>2, KindsInTurn DEF AllLate
<1>5. out \in Seq(WorkerFrames) /\ frames = AllLate \o out
  BY <1>3 DEF OfKind
<1> HIDE DEF base, out, late
<1>6. /\ frames \in Seq(WorkerFrames)
      /\ \A i \in DOMAIN AllLate : i \in DOMAIN frames /\ frames[i] = AllLate[i]
      /\ \A i \in DOMAIN frames : i \notin DOMAIN AllLate =>
           i - Len(AllLate) \in DOMAIN out /\ frames[i] = out[i - Len(AllLate)]
  <2> DEFINE whole == AllLate \o out
  <2>1. /\ whole \in Seq(WorkerFrames) /\ DOMAIN whole = 1..Len(AllLate) + Len(out)
        /\ \A i \in DOMAIN AllLate : whole[i] = AllLate[i]
        /\ \A i \in DOMAIN whole : i \notin DOMAIN AllLate =>
             i - Len(AllLate) \in DOMAIN out /\ whole[i] = out[i - Len(AllLate)]
    BY <1>4, <1>5, Concatenated
  <2>2. /\ DOMAIN AllLate = 1..Len(AllLate) /\ Len(AllLate) \in Nat
        /\ Len(out) \in Nat
    BY <1>4, <1>5
  <2>3. frames = whole
    BY <1>5
  <2> HIDE DEF whole
  <2>4. \A i \in DOMAIN AllLate : i \in DOMAIN whole
    BY <2>1, <2>2
  <2> QED
    BY <2>1, <2>3, <2>4, Zenon
<1>7. \A i \in DOMAIN frames : Registration(frames[i]) =>
        \/ i \in DOMAIN late /\ frames[i] = late[i]
        \/ /\ i \notin DOMAIN late /\ i - Len(AllLate) \in DOMAIN out
           /\ frames[i] = out[i - Len(AllLate)]
  BY <1>4, <1>6
<1>8. ASSUME "REGISTER" \in DOMAIN up
      PROVE  /\ late \in Seq(AcceptedRegistrations) /\ late = up["REGISTER"].late
             /\ base["REGISTER"] \in Scheduler(AcceptedRegistrations)
             /\ base["REGISTER"].late = << >>
             /\ base["REGISTER"].script = up["REGISTER"].script
             /\ base["REGISTER"].delayed = up["REGISTER"].delayed
             /\ base["REGISTER"].held = up["REGISTER"].held
  <2>1. up["REGISTER"] \in Scheduler(AcceptedRegistrations)
    BY <1>8 DEF LinkInv, RegisteredAreAccepted
  <2> QED
    BY <1>2, <1>8, <2>1, Flushed DEF late, Late
<1>9. "REGISTER" \notin DOMAIN up => late = << >>
  BY DEF late, Late
<1>10. ASSUME "REGISTER" \in DOMAIN up
       PROVE  /\ up'["REGISTER"] \in Scheduler(AcceptedRegistrations)
              /\ out \in Seq(AcceptedRegistrations)
  BY <1>1, <1>2, <1>3, <1>8, <1>10, SubmitFrames
<1>11. /\ \A i \in DOMAIN late : Accepted(late[i].pid)
       /\ \A i \in DOMAIN out : Accepted(out[i].pid)
  <2>1. CASE "REGISTER" \in DOMAIN up
    BY <1>8, <1>10, <2>1 DEF AcceptedRegistrations
  <2>2. CASE "REGISTER" \notin DOMAIN up
    BY <1>2, <1>3, <1>9, <2>2
  <2> QED
    BY <2>1, <2>2
<1>12. \A i \in DOMAIN frames : Registration(frames[i]) => Accepted(frames[i].pid)
  BY <1>7, <1>11
<1>13. ASSUME OrderlyPlans, "REGISTER" \in DOMAIN up
       PROVE  /\ Orderly(up'["REGISTER"].script)
              /\ up'["REGISTER"].delayed = << >> /\ up'["REGISTER"].held = None
              /\ \/ up'["REGISTER"].late = << >> /\ out \in {<< >>, <<m>>, <<m, m>>}
                 \/ up'["REGISTER"].late = <<m>> /\ out = << >>
  <2>1. /\ Orderly(up["REGISTER"].script) /\ up["REGISTER"].delayed = << >>
        /\ up["REGISTER"].held = None
    BY <1>13 DEF LinkInv, RegistrationsOrderly
  <2> QED
    BY <1>1, <1>2, <1>3, <1>8, <1>13, <2>1, OrderlySubmit
<1>14. RegistrationsOrderly'
  BY <1>2, <1>3, <1>13 DEF RegistrationsOrderly
<1>15. ASSUME OrderlyPlans \/ "REGISTER" \notin DOMAIN up
       PROVE  /\ \A i \in DOMAIN out : out[i] = m
              /\ \/ Late(up, "REGISTER")' = << >>
                 \/ Late(up, "REGISTER")' = <<m>> /\ out = << >>
  <2>1. CASE "REGISTER" \in DOMAIN up
    <3>1. Late(up, "REGISTER")' = up'["REGISTER"].late
      BY <1>2, <1>3, <2>1 DEF Late
    <3>2. \A i \in DOMAIN out : out[i] = m
      BY <1>13, <1>15, <2>1
    <3> QED
      BY <1>13, <1>15, <2>1, <3>1, <3>2
  <2>2. CASE "REGISTER" \notin DOMAIN up
    BY <1>2, <1>3, <2>2 DEF Late
  <2> QED
    BY <2>1, <2>2
<1>16. ASSUME OrderlyPlans \/ "REGISTER" \notin DOMAIN up
       PROVE  /\ \A i \in DOMAIN frames : Registration(frames[i]) =>
                   \/ i \in DOMAIN late /\ frames[i] = late[i]
                   \/ i \notin DOMAIN late /\ frames[i].pid = m.pid
              /\ \/ Late(up, "REGISTER")' = << >>
                 \/ /\ Late(up, "REGISTER")' = <<m>>
                    /\ \A i \in DOMAIN frames : Registration(frames[i]) => i \in DOMAIN late
  <2>1. out = << >> => DOMAIN out = {}
    OBVIOUS
  <2> QED
    BY <1>7, <1>15, <1>16, <2>1
<1> QED
  BY <1>2, <1>3, <1>6, <1>10, <1>12, <1>14, <1>16 DEF late

(* The first frame a worker has sent that the harness has not read.        *)
LEMMA WorkerFrameRead ==
  ASSUME Types, HandleWorker
  PROVE  /\ harness.worker \in Pids
         /\ fromWorker[harness.worker] \in Seq(WorkerFrames) /\ fromWorker[harness.worker] # << >>
         /\ Head(fromWorker[harness.worker]) \in WorkerFrames
         /\ Head(fromWorker[harness.worker]).pid = harness.worker
         /\ Head(fromWorker[harness.worker]) = fromWorker[harness.worker][1]
<1>1. harness.worker \in Pids /\ fromWorker[harness.worker] # << >>
  BY DEF Types, HarnessTypes, HandleWorker
<1>2. fromWorker[harness.worker] \in Seq(WorkerFrames)
  BY <1>1 DEF Types, WorkerTypes
<1>3. /\ Head(fromWorker[harness.worker]) = fromWorker[harness.worker][1]
      /\ Head(fromWorker[harness.worker]) \in WorkerFrames
      /\ 1 \in DOMAIN fromWorker[harness.worker]
  BY <1>1, <1>2, Shifted
<1> QED
  BY <1>1, <1>2, <1>3 DEF Types, WorkerTypes

(* A write to the authority reaches it unless it has ended.                *)
LEMMA SentUp ==
  ASSUME NEW frames, NEW next, SendUp(frames, next)
  PROVE  /\ upLink' = (IF authority.alive THEN upLink \o frames ELSE upLink)
         /\ harness' = next \/ harness' = [next EXCEPT !.status = "crashed"]
BY DEF SendUp

(* What the harness does with a frame of its worker, by the kind.          *)
LEMMA WorkerFrameHandled ==
  ASSUME Types, HandleWorker, NEW m, m = Head(fromWorker[harness.worker])
  PROVE  /\ UNCHANGED <<authority, downLink, down, reported, process, socket, toWorker>>
         /\ fromWorker' = [fromWorker EXCEPT ![harness.worker] = Tail(fromWorker[harness.worker])]
         /\ m.kind = "REGISTER" =>
              /\ up' = After(WithoutLate, "REGISTER", m)
              /\ SendUp(AllLate \o Sent(WithoutLate, "REGISTER", m),
                        [harness EXCEPT !.batch = Rest, !.pid = m.pid])
         /\ m.kind # "REGISTER" =>
              /\ up' = After(up, m.kind, m)
              /\ SendUp(Sent(up, m.kind, m), [harness EXCEPT !.batch = Rest])
<1>1. /\ UNCHANGED <<authority, downLink, down, reported, process, socket, toWorker>>
      /\ fromWorker' = [fromWorker EXCEPT ![harness.worker] = Tail(fromWorker[harness.worker])]
  BY DEF HandleWorker
<1>2. ASSUME m.kind = "REGISTER"
      PROVE  /\ up' = After(WithoutLate, "REGISTER", m)
             /\ SendUp(AllLate \o Sent(WithoutLate, "REGISTER", m),
                       [harness EXCEPT !.batch = Rest, !.pid = m.pid])
  BY <1>2 DEF HandleWorker, LateFirst, After, Sent
<1>3. ASSUME m.kind # "REGISTER"
      PROVE  /\ up' = After(up, m.kind, m)
             /\ SendUp(Sent(up, m.kind, m), [harness EXCEPT !.batch = Rest])
  <2>1. [harness EXCEPT !.batch = Rest, !.pid = harness.pid] = [harness EXCEPT !.batch = Rest]
    BY DEF Types, HarnessTypes
  <2>2. /\ up' = After(up, m.kind, m)
        /\ SendUp(Sent(up, m.kind, m), [harness EXCEPT !.batch = Rest, !.pid = harness.pid])
    BY <1>3 DEF HandleWorker, LateFirst, After, Sent
  <2> QED
    BY <2>1, <2>2
<1> QED
  BY <1>1, <1>2, <1>3

(* The harness reads a frame of its worker: the link to the authority.     *)
LEMMA WorkerFrameLink ==
  ASSUME Types, LinkInv, ProcessInv, HandleWorker
  PROVE  LinkInv'
<1> DEFINE m == Head(fromWorker[harness.worker])
           v == harness.worker
<1>1. v \in Pids /\ m \in WorkerFrames /\ m.pid = v
  BY WorkerFrameRead
<1>2. UNCHANGED <<authority, downLink, down, reported, process, socket, toWorker>>
  BY WorkerFrameHandled
<1>3. /\ \A w \in Pids : Accepted(w) => w <= v
      /\ Accepted(v) /\ v \notin reported
      /\ \A w \in reported : ~(\A x \in Pids : x > w => Unborn(x))
  BY <1>1, ReadIsNewest
<1>4. ReportedHaveEnded
  BY DEF ProcessInv
<1>5. CASE m.kind # "REGISTER"
  <2> DEFINE frames == Sent(up, m.kind, m)
  <2>1. up' = After(up, m.kind, m) /\ upLink' = (IF authority.alive THEN upLink \o frames ELSE upLink)
    BY <1>5, WorkerFrameHandled, SentUp
  <2>2. Schedulers(up, WorkerFrames)
    BY DEF Types, HarnessTypes
  <2>3. /\ frames \in Seq(OfKind(WorkerFrames, m.kind)) /\ DOMAIN up' = DOMAIN up
        /\ "REGISTER" \in DOMAIN up => up'["REGISTER"] = up["REGISTER"]
    BY <1>1, <1>5, <2>1, <2>2, ScheduledFrames
  <2>4. frames \in Seq(WorkerFrames) /\ \A i \in DOMAIN frames : ~Registration(frames[i])
    BY <1>5, <2>3 DEF OfKind, Registration
  <2> HIDE DEF frames, m
  <2> QED
    BY <1>2, <1>4, <2>1, <2>3, <2>4, OthersSent
<1>6. CASE m.kind = "REGISTER"
  <2> DEFINE frames == AllLate \o Sent(WithoutLate, "REGISTER", m)
             late == Late(up, "REGISTER")
  <2>1. /\ up' = After(WithoutLate, "REGISTER", m)
        /\ upLink' = (IF authority.alive THEN upLink \o frames ELSE upLink)
    BY <1>6, WorkerFrameHandled, SentUp
  <2>2. Registration(m) /\ Accepted(m.pid)
    BY <1>1, <1>3, <1>6 DEF Registration
  <2>3. /\ frames \in Seq(WorkerFrames) /\ DOMAIN up' = DOMAIN up
        /\ \A i \in DOMAIN frames : Registration(frames[i]) => Accepted(frames[i].pid)
        /\ "REGISTER" \in DOMAIN up' => up'["REGISTER"] \in Scheduler(AcceptedRegistrations)
        /\ RegistrationsOrderly'
        /\ OrderlyPlans \/ "REGISTER" \notin DOMAIN up =>
              /\ \A i \in DOMAIN frames : Registration(frames[i]) =>
                   \/ i \in DOMAIN late /\ frames[i] = late[i]
                   \/ i \notin DOMAIN late /\ frames[i].pid = m.pid
              /\ \/ Late(up, "REGISTER")' = << >>
                 \/ /\ Late(up, "REGISTER")' = <<m>>
                    /\ \A i \in DOMAIN frames : Registration(frames[i]) => i \in DOMAIN late
    <3> HIDE DEF m
    <3> QED
      BY <1>1, <1>2, <2>1, <2>2, RegistrationWritten
  <2>4. late \in Seq(WorkerFrames) /\ \A i \in DOMAIN late : Accepted(late[i].pid) /\ late[i].pid \in Pids
    <3>1. CASE "REGISTER" \notin DOMAIN up
      BY <3>1 DEF Late
    <3>2. CASE "REGISTER" \in DOMAIN up
      <4>1. up["REGISTER"] \in Scheduler(AcceptedRegistrations) /\ late = up["REGISTER"].late
        BY <3>2 DEF LinkInv, RegisteredAreAccepted, Late
      <4>2. late \in Seq(AcceptedRegistrations)
        BY <4>1 DEF Scheduler
      <4>3. AcceptedRegistrations \subseteq WorkerFrames
        BY DEF AcceptedRegistrations
      <4> HIDE DEF late
      <4>4. late \in Seq(WorkerFrames) /\ \A i \in DOMAIN late : late[i] \in AcceptedRegistrations
        BY <4>2, <4>3
      <4> QED
        BY <4>4 DEF AcceptedRegistrations, WorkerFrames
    <3> QED
      BY <3>1, <3>2
  <2>5. \A i \in DOMAIN late : late[i].pid <= v
    BY <1>3, <2>4
  <2>6. \A i \in DOMAIN upLink : Registration(upLink[i]) => upLink[i].pid <= v
    <3>1. \A i \in DOMAIN upLink : upLink[i] \in UpFrames
      BY DEF Types, LinkTypes
    <3> QED
      BY <1>3, <3>1, UpFrameIs DEF LinkInv, RegisteredAreAccepted
  <2>7. authority.current # None => authority.current <= v
    BY <1>3 DEF LinkInv, RegisteredAreAccepted, Types, AuthorityTypes
  <2> HIDE DEF frames, late
  <2>8. RegisteredAreAccepted'
    BY <1>2, <2>1, <2>3, AcceptedSent
  <2>9. \A w \in reported : Settled(w) =>
          \A i \in DOMAIN frames : Registration(frames[i]) => frames[i].pid # w
    <3> SUFFICES ASSUME NEW w \in reported, Settled(w), NEW i \in DOMAIN frames, Registration(frames[i])
                 PROVE  frames[i].pid # w
      OBVIOUS
    <3>1. "REGISTER" \notin DOMAIN up
      BY <1>3 DEF Settled
    <3>2. late = << >>
      BY <3>1 DEF late, Late
    <3> QED
      BY <1>1, <1>3, <2>3, <3>1, <3>2
  <2>10. RegistrationsInOrder'
    <3> DEFINE later == Late(up, "REGISTER")'
    <3>0. later = Late(up, "REGISTER")'
      OBVIOUS
    <3>1. ASSUME OrderlyPlans
          PROVE  /\ \A i \in DOMAIN frames : Registration(frames[i]) =>
                      \/ i \in DOMAIN late /\ frames[i] = late[i]
                      \/ i \notin DOMAIN late /\ frames[i].pid = v
                 /\ \A j \in DOMAIN later : j = 1 /\ later[j].pid = v
                 /\ \A i \in DOMAIN frames : Registration(frames[i]) => frames[i].pid <= v
      <4>1. v <= v
        BY <1>1 DEF Pids
      <4>2. /\ \A i \in DOMAIN frames : Registration(frames[i]) =>
                 \/ i \in DOMAIN late /\ frames[i] = late[i]
                 \/ i \notin DOMAIN late /\ frames[i].pid = v
            /\ later = << >> \/ later = <<m>>
        BY <1>1, <2>3, <3>1
      <4>3. \A j \in DOMAIN later : j = 1 /\ later[j].pid = v
        BY <1>1, <4>2
      <4> HIDE DEF later
      <4> QED
        BY <2>5, <4>1, <4>2, <4>3
    <3> HIDE DEF later
    <3>2. OrderlyPlans =>
           /\ \A i, j \in DOMAIN late : i < j => late[i].pid <= late[j].pid
           /\ \A i \in DOMAIN upLink, j \in DOMAIN late :
                Registration(upLink[i]) => upLink[i].pid <= late[j].pid
           /\ authority.current # None => \A i \in DOMAIN late : authority.current <= late[i].pid
      BY DEF LinkInv, RegistrationsInOrder, late
    <3>3. DOMAIN late = 1..Len(late) /\ DOMAIN frames = 1..Len(frames)
          /\ Len(late) \in Nat /\ Len(frames) \in Nat
      BY <2>3, <2>4
    <3>4. ASSUME OrderlyPlans, NEW i \in DOMAIN frames, NEW j \in DOMAIN frames,
                 Registration(frames[i]), Registration(frames[j]), i < j
          PROVE  frames[i].pid <= frames[j].pid
      <4>1. CASE j \in DOMAIN late
        <5>1. i \in DOMAIN late
          BY <3>3, <3>4, <4>1
        <5> QED
          BY <3>1, <3>2, <3>4, <4>1, <5>1
      <4>2. CASE j \notin DOMAIN late
        BY <3>1, <3>4, <4>2
      <4> QED
        BY <4>1, <4>2
    <3>5. ASSUME OrderlyPlans, NEW i \in DOMAIN upLink, NEW j \in DOMAIN frames,
                 Registration(upLink[i]), Registration(frames[j])
          PROVE  upLink[i].pid <= frames[j].pid
      BY <2>6, <3>1, <3>2, <3>5
    <3>6. ASSUME OrderlyPlans, authority.current # None, NEW i \in DOMAIN frames, Registration(frames[i])
          PROVE  authority.current <= frames[i].pid
      BY <2>7, <3>1, <3>2, <3>6
    <3>7. OrderlyPlans =>
           /\ \A i, j \in DOMAIN frames :
                Registration(frames[i]) /\ Registration(frames[j]) /\ i < j => frames[i].pid <= frames[j].pid
           /\ \A i \in DOMAIN frames, j \in DOMAIN later :
                Registration(frames[i]) => frames[i].pid <= later[j].pid
           /\ \A i, j \in DOMAIN later : i < j => later[i].pid <= later[j].pid
           /\ \A i \in DOMAIN upLink, j \in DOMAIN frames :
                Registration(upLink[i]) /\ Registration(frames[j]) => upLink[i].pid <= frames[j].pid
           /\ \A i \in DOMAIN upLink, j \in DOMAIN later :
                Registration(upLink[i]) => upLink[i].pid <= later[j].pid
           /\ authority.current # None =>
                /\ \A i \in DOMAIN frames : Registration(frames[i]) => authority.current <= frames[i].pid
                /\ \A i \in DOMAIN later : authority.current <= later[i].pid
      BY <2>6, <2>7, <3>1, <3>4, <3>5, <3>6
    <3> QED
      BY <1>2, <2>1, <2>3, <3>0, <3>7, OrderedSent
  <2> QED
    BY <1>2, <1>4, <2>1, <2>3, <2>8, <2>9, <2>10, FramesSent
<1> QED
  BY <1>5, <1>6

(* The harness sends the delayed frames: the link to the authority.        *)
LEMMA FlushUpLink ==
  ASSUME Types, LinkInv, ReportedHaveEnded, FlushUp
  PROVE  LinkInv'
<1> DEFINE delayed == DelayedOf(up, "REGISTER")
           frames == delayed \o DelayedOf(up, "COMPLETE") \o DelayedOf(up, "SHUTDOWN_ACK")
           late == Late(up, "REGISTER")
<1>1. /\ UNCHANGED <<authority, reported, process, socket>> /\ DOMAIN up' = DOMAIN up
      /\ up' = [kind \in DOMAIN up |-> FlushDelayed(up[kind]).queue]
      /\ upLink' = (IF authority.alive THEN upLink \o frames ELSE upLink)
  <2>1. /\ UNCHANGED <<authority, reported, process, socket>>
        /\ up' = [kind \in DOMAIN up |-> FlushDelayed(up[kind]).queue]
        /\ SendUp(frames, [harness EXCEPT !.batch = Rest])
    BY DEF FlushUp, workerVars
  <2> HIDE DEF frames
  <2> QED
    BY <2>1, SentUp
<1>2. Schedulers(up, WorkerFrames)
  BY DEF Types, HarnessTypes
<1>3. /\ delayed \in Seq(OfKind(WorkerFrames, "REGISTER"))
      /\ DelayedOf(up, "COMPLETE") \in Seq(OfKind(WorkerFrames, "COMPLETE"))
      /\ DelayedOf(up, "SHUTDOWN_ACK") \in Seq(OfKind(WorkerFrames, "SHUTDOWN_ACK"))
  BY <1>2, AllFlushed
<1>4. /\ frames \in Seq(WorkerFrames)
      /\ \A i \in DOMAIN frames : Registration(frames[i]) => i \in DOMAIN delayed /\ frames[i] = delayed[i]
  <2> HIDE DEF delayed
  <2> QED
    BY <1>3, KindsInTurn
<1>5. ASSUME "REGISTER" \in DOMAIN up
      PROVE  /\ delayed \in Seq(AcceptedRegistrations) /\ delayed = up["REGISTER"].delayed
             /\ up'["REGISTER"] \in Scheduler(AcceptedRegistrations)
             /\ up'["REGISTER"].delayed = << >> /\ up'["REGISTER"].late = up["REGISTER"].late
             /\ up'["REGISTER"].script = up["REGISTER"].script
             /\ up'["REGISTER"].held = up["REGISTER"].held
  <2>1. up["REGISTER"] \in Scheduler(AcceptedRegistrations)
    BY <1>5 DEF LinkInv, RegisteredAreAccepted
  <2> QED
    BY <1>1, <1>5, <2>1, Flushed DEF DelayedOf
<1>6. Late(up, "REGISTER")' = late
  BY <1>1, <1>5 DEF Late
<1>7. OrderlyPlans \/ "REGISTER" \notin DOMAIN up => delayed = << >>
  BY <1>5 DEF LinkInv, RegistrationsOrderly, DelayedOf
<1>8. "REGISTER" \notin DOMAIN up => delayed = << >>
  BY DEF DelayedOf
<1> HIDE DEF frames
<1>9. RegistrationsOrderly'
  BY <1>1, <1>5 DEF LinkInv, RegistrationsOrderly
<1>10. RegisteredAreAccepted'
  <2>1. \A i \in DOMAIN frames : Registration(frames[i]) => Accepted(frames[i].pid)
    <3>1. CASE "REGISTER" \in DOMAIN up
      <4>1. \A i \in DOMAIN delayed : Accepted(delayed[i].pid)
        BY <1>5, <3>1 DEF AcceptedRegistrations
      <4> QED
        BY <1>4, <4>1
    <3>2. CASE "REGISTER" \notin DOMAIN up
      BY <1>4, <1>8, <3>2
    <3> QED
      BY <3>1, <3>2
  <2>2. "REGISTER" \in DOMAIN up' => up'["REGISTER"] \in Scheduler(AcceptedRegistrations)
    BY <1>1, <1>5
  <2> HIDE DEF delayed, late
  <2> QED
    BY <1>1, <1>4, <2>1, <2>2, AcceptedSent
<1>11. OrderlyPlans \/ "REGISTER" \notin DOMAIN up => \A i \in DOMAIN frames : ~Registration(frames[i])
  BY <1>4, <1>7
<1>12. RegistrationsInOrder'
  <2>1. OrderlyPlans =>
           /\ \A i, j \in DOMAIN late : i < j => late[i].pid <= late[j].pid
           /\ \A i \in DOMAIN upLink, j \in DOMAIN late :
                Registration(upLink[i]) => upLink[i].pid <= late[j].pid
           /\ authority.current # None => \A i \in DOMAIN late : authority.current <= late[i].pid
    BY DEF LinkInv, RegistrationsInOrder
  <2> HIDE DEF delayed, late
  <2> QED
    BY <1>1, <1>4, <1>6, <1>11, <2>1, OrderedSent
<1>13. \A w \in reported : Settled(w) =>
          \A i \in DOMAIN frames : Registration(frames[i]) => frames[i].pid # w
  BY <1>11 DEF Settled
<1> HIDE DEF delayed, late
<1> QED
  BY <1>1, <1>4, <1>9, <1>10, <1>12, <1>13, FramesSent

---------------------------------------------------------------------------
(* A set of natural numbers has a least one.                               *)
LEMMA LeastOf ==
  ASSUME NEW S \in SUBSET Nat, S # {}
  PROVE  \E m \in S : \A n \in S : m <= n
<1> DEFINE R == OpToRel(<, Nat)
<1>1. IsWellFoundedOn(R, Nat)
  BY NatLessThanWellFounded, Zenon
<1>2. \E x \in S : \A y \in S : ~(<<y, x>> \in R)
  <2> HIDE DEF R
  <2> QED
    BY <1>1, WFMin, Zenon
<1>3. \A x, y \in Nat : <<y, x>> \in R <=> y < x
  BY DEF OpToRel
<1> HIDE DEF R
<1>4. PICK x \in S : \A y \in S : ~(<<y, x>> \in R)
  BY <1>2
<1>5. \A y \in S : ~(y < x)
  BY <1>3, <1>4
<1> QED
  BY <1>5

(* The harness a loop iteration starts from, and the states it may be in.  *)
Statuses == {"running", "stopped", "exited", "crashed", "assertion"}
Harnesses ==
  [status : Statuses, worker : Pids \cup {None}, pid : Pids \cup {None},
   shutdownExpected : BOOLEAN, batch : Seq(Keys)]

(* Once a key of the batch is handled it is gone from the batch.           *)
LEMMA RestIsFresh ==
  ASSUME Types, BatchIsFresh, NEW key, Handling(key)
  PROVE  /\ Rest \in Seq(Keys) /\ \A i, j \in DOMAIN Rest : Rest[i] = Rest[j] => i = j
         /\ \A i \in DOMAIN Rest : Rest[i] # key
         /\ \A i \in DOMAIN Rest : \E j \in DOMAIN harness.batch : harness.batch[j] = Rest[i]
         /\ \E j \in DOMAIN harness.batch : harness.batch[j] = key
<1>1. harness.batch \in Seq(Keys) /\ harness.batch # << >> /\ Head(harness.batch) = key
  BY DEF Types, HarnessTypes, Handling
<1>2. /\ Rest \in Seq(Keys) /\ harness.batch[1] = key /\ 1 \in DOMAIN harness.batch
      /\ DOMAIN Rest \subseteq Int /\ 0 \notin DOMAIN Rest
      /\ \A i \in DOMAIN Rest : i + 1 \in DOMAIN harness.batch /\ Rest[i] = harness.batch[i + 1]
  BY <1>1, Shifted DEF Rest
<1>3. \A i, j \in DOMAIN harness.batch : harness.batch[i] = harness.batch[j] => i = j
  BY DEF BatchIsFresh
<1>4. ASSUME NEW i \in DOMAIN Rest, NEW j \in DOMAIN Rest, Rest[i] = Rest[j]
      PROVE  i = j
  <2>1. i + 1 = j + 1
    BY <1>2, <1>3, <1>4
  <2> QED
    BY <1>2, <2>1
<1>5. ASSUME NEW i \in DOMAIN Rest PROVE Rest[i] # key
  <2>1. i + 1 # 1
    BY <1>2, <1>5
  <2> QED
    BY <1>2, <1>3, <1>5, <2>1
<1> QED
  BY <1>2, <1>4, <1>5

(* A harness that still has to handle the rest of its batch, with another  *)
(* worker or none: the batch is fresh.                                     *)
LEMMA RestStaysFresh ==
  ASSUME Types, BatchIsFresh, NEW key, Handling(key),
         harness'.batch = Rest,
         key = "listener" \/ \A v \in Pids : socket[v] = "backlog" => socket'[v] = "backlog",
         \/ harness'.pid = None \/ key = "worker"
         \/ /\ harness'.pid = harness.pid /\ harness.pid # None
            /\ process' = process /\ fromWorker' = fromWorker
  PROVE  BatchIsFresh'
<1>1. /\ Rest \in Seq(Keys) /\ \A i, j \in DOMAIN Rest : Rest[i] = Rest[j] => i = j
      /\ \A i \in DOMAIN Rest : Rest[i] # key
      /\ \A i \in DOMAIN Rest : \E j \in DOMAIN harness.batch : harness.batch[j] = Rest[i]
  BY RestIsFresh
<1>2. (\E i \in DOMAIN Rest : Rest[i] = "listener") => Backlog' # {}
  <2> SUFFICES ASSUME NEW i \in DOMAIN Rest, Rest[i] = "listener" PROVE Backlog' # {}
    OBVIOUS
  <2>1. Backlog # {} /\ key # "listener"
    BY <1>1 DEF BatchIsFresh
  <2> QED
    BY <2>1 DEF Backlog
<1>3. (\E i \in DOMAIN Rest : Rest[i] = "worker") /\ harness'.pid # None =>
        fromWorker'[harness'.pid] # << >> \/ process'[harness'.pid] \in {"killed", "exited"}
  <2> SUFFICES ASSUME NEW i \in DOMAIN Rest, Rest[i] = "worker", harness'.pid # None
               PROVE  fromWorker'[harness'.pid] # << >> \/ process'[harness'.pid] \in {"killed", "exited"}
    OBVIOUS
  <2>1. /\ key # "worker" /\ \E j \in DOMAIN harness.batch : harness.batch[j] = "worker"
        /\ harness'.pid = harness.pid /\ harness.pid # None
        /\ process' = process /\ fromWorker' = fromWorker
    BY <1>1
  <2> QED
    BY <2>1 DEF BatchIsFresh, Ended
<1> QED
  BY <1>1, <1>2, <1>3 DEF BatchIsFresh, Ended

(* The worker the harness is connected to.                                 *)
LEMMA WorkerIsConnected ==
  ASSUME Types, ProcessInv, harness.worker # None
  PROVE  /\ harness.worker \in Pids /\ socket[harness.worker] = "open"
         /\ harness.worker \notin reported
         /\ \A v \in Pids : socket[v] = "open" => v = harness.worker
         /\ ~Unborn(harness.worker) /\ process[harness.worker] # "started"
<1>1. harness.worker \in Pids
  BY DEF Types, HarnessTypes
<1>2. socket[harness.worker] = "open" /\ \A v \in Pids : socket[v] = "open" => v = harness.worker
  BY <1>1 DEF ProcessInv, AcceptedInOrder
<1>3. harness.worker \notin reported
  BY <1>1, <1>2 DEF ProcessInv, ReportedHaveEnded
<1>4. process[harness.worker] \notin {"unborn", "started"}
  BY <1>1, <1>2 DEF ProcessInv, ConnectionsFirst
<1> QED
  BY <1>1, <1>2, <1>3, <1>4 DEF Unborn

(* Closing the socket of the worker and reporting its failure.             *)
LEMMA DisconnectKeeps ==
  ASSUME Types, LinkInv, ProcessInv, NEW key, Handling(key), NEW h \in Harnesses,
         h.worker = harness.worker, h.worker # None, h.pid = harness.pid, h.batch = Rest,
         h.pid # None => Ended(h.pid), Disconnect(h), Schedulers(down', DownFrames),
         downLink' \in Seq(DownFrames \cup {Frame("HARNESS_REGISTERED", None)}),
         UNCHANGED <<authority, orchestrator, process, up, toWorker, fromWorker>>
  PROVE  C8Inv'
<1> DEFINE w == harness.worker
           frames == IF IsFailure(h) THEN <<Failure(h.pid)>> ELSE << >>
<1>1. /\ w \in Pids /\ socket[w] = "open" /\ w \notin reported
      /\ \A v \in Pids : socket[v] = "open" => v = w
      /\ ~Unborn(w) /\ process[w] # "started"
  BY WorkerIsConnected
<1>2. /\ socket' = [socket EXCEPT ![w] = "closed"]
      /\ reported' = IF IsFailure(h) THEN reported \cup {h.pid} ELSE reported
      /\ SendUp(frames, NoWorker(h))
  BY DEF Disconnect, Failure
<1>3. /\ upLink' = (IF authority.alive THEN upLink \o frames ELSE upLink)
      /\ harness' = NoWorker(h) \/ harness' = [NoWorker(h) EXCEPT !.status = "crashed"]
  <2> DEFINE next == NoWorker(h)
  <2>1. SendUp(frames, next)
    BY <1>2
  <2> HIDE DEF frames, next
  <2>2. /\ upLink' = (IF authority.alive THEN upLink \o frames ELSE upLink)
        /\ harness' = next \/ harness' = [next EXCEPT !.status = "crashed"]
    BY <2>1, SentUp
  <2> QED
    BY <2>2 DEF next
<1>4. /\ harness' \in Harnesses /\ harness'.worker = None /\ harness'.pid = None
      /\ harness'.batch = Rest
  <2>1. /\ NoWorker(h) \in Harnesses /\ NoWorker(h).worker = None /\ NoWorker(h).pid = None
        /\ NoWorker(h).batch = Rest
    BY DEF NoWorker, Harnesses
  <2> HIDE DEF Harnesses
  <2>2. ASSUME NEW g \in Harnesses
        PROVE  /\ [g EXCEPT !.status = "crashed"] \in Harnesses
               /\ [g EXCEPT !.status = "crashed"].worker = g.worker
               /\ [g EXCEPT !.status = "crashed"].pid = g.pid
               /\ [g EXCEPT !.status = "crashed"].batch = g.batch
    BY <2>2 DEF Harnesses, Statuses
  <2> QED
    BY <1>3, <2>1, <2>2
<1>5. IsFailure(h) => h.pid = w
  BY DEF IsFailure, Types, HarnessTypes
<1>6. /\ socket' \in [Pids -> {"none", "backlog", "open", "closed"}] /\ socket'[w] = "closed"
      /\ \A v \in Pids : v # w => socket'[v] = socket[v]
  BY <1>1, <1>2 DEF Types, WorkerTypes
<1>7. upLink' \in Seq(UpFrames)
  <2>1. frames \in Seq(UpFrames)
    <3>1. IsFailure(h) => Failure(h.pid) \in UpFrames
      BY <1>1, <1>5 DEF UpFrames
    <3> QED
      BY <3>1
  <2> HIDE DEF frames
  <2>2. upLink \in Seq(UpFrames)
    BY DEF Types, LinkTypes
  <2> QED
    BY <1>3, <2>1, <2>2, Concatenated
<1>8. reported' \subseteq Pids
  BY <1>1, <1>2, <1>5 DEF Types, HarnessTypes
<1>9. Types'
  <2>1. HarnessTypes'
    BY <1>4, <1>8 DEF Types, HarnessTypes, Harnesses, Statuses, Schedulers
  <2>2. LinkTypes'
    BY <1>7 DEF LinkTypes
  <2>3. WorkerTypes'
    BY <1>6 DEF Types, WorkerTypes
  <2> QED
    BY <2>1, <2>2, <2>3 DEF Types, AuthorityTypes, OrchestratorTypes
<1>10. LinkInv'
  <2>1. \A v \in Pids : Accepted(v) => socket'[v] \in {"open", "closed"}
    BY <1>6 DEF Accepted
  <2>2. CASE IsFailure(h)
    BY <1>1, <1>2, <1>3, <1>5, <2>1, <2>2, FailureSent
  <2>3. CASE ~IsFailure(h)
    <3>1. upLink' = upLink
      BY <1>3, <2>3 DEF Types, LinkTypes
    <3> QED
      BY <1>2, <2>1, <2>3, <3>1, LinkUntouched
  <2> QED
    BY <2>2, <2>3
<1>11. ProcessInv'
  <2>1. PidsInOrder'
    BY DEF ProcessInv, PidsInOrder, Unborn, Alive
  <2>2. ConnectionsFirst'
    BY <1>1, <1>6 DEF ProcessInv, ConnectionsFirst, Unborn
  <2>3. \A v \in Pids : /\ Accepted(v)' <=> Accepted(v)
                        /\ socket'[v] = "backlog" <=> socket[v] = "backlog"
                        /\ socket'[v] # "open"
    BY <1>1, <1>6 DEF Accepted
  <2>4. AcceptedInOrder'
    BY <1>4, <2>3, NoneIsNoPid DEF ProcessInv, AcceptedInOrder
  <2>5. BatchIsFresh'
    BY <1>4, <2>3, RestStaysFresh DEF ProcessInv
  <2>6. KnownHaveRegistered'
    BY <1>4 DEF KnownHaveRegistered
  <2>7. ReportedHaveEnded'
    <3> SUFFICES ASSUME NEW v \in reported'
                 PROVE  Ended(v) /\ socket'[v] = "closed" /\ ~Registers(fromWorker[v])
      BY DEF ReportedHaveEnded, Ended
    <3>1. CASE v \in reported
      BY <1>1, <1>6, <3>1 DEF ProcessInv, ReportedHaveEnded, Types, HarnessTypes
    <3>2. CASE v \notin reported
      <4>1. v = h.pid /\ IsFailure(h)
        BY <1>2, <3>2
      <4>2. v = w /\ h.pid = harness.pid /\ harness.pid # None
        BY <1>5, <4>1 DEF IsFailure
      <4> QED
        BY <1>6, <4>1, <4>2 DEF ProcessInv, KnownHaveRegistered
    <3> QED
      BY <3>1, <3>2
  <2> QED
    BY <2>1, <2>2, <2>4, <2>5, <2>6, <2>7 DEF ProcessInv
<1> QED
  BY <1>9, <1>10, <1>11 DEF C8Inv, ProcessInv, LinkInv

(* The harness goes on with the worker it has, and writes nothing to the   *)
(* authority.                                                              *)
LEMMA HarnessMoves ==
  ASSUME Types, LinkInv, ProcessInv, harness' \in Harnesses,
         harness'.worker = harness.worker, harness'.pid = harness.pid, BatchIsFresh',
         Schedulers(down', DownFrames), toWorker' \in [Pids -> Seq(DownFrames)],
         downLink' \in Seq(DownFrames \cup {Frame("HARNESS_REGISTERED", None)}),
         orchestrator' = orchestrator \/ (OrchestratorTypes' /\ orchestrator'.phase # "restarting"),
         UNCHANGED <<authority, process, up, fromWorker, upLink, socket, reported>>
  PROVE  C8Inv'
<1>1. Types'
  <2>1. HarnessTypes'
    BY DEF Types, HarnessTypes, Harnesses, Statuses, Schedulers
  <2>2. LinkTypes' /\ WorkerTypes' /\ AuthorityTypes'
    BY DEF Types, LinkTypes, WorkerTypes, AuthorityTypes
  <2>3. OrchestratorTypes'
    BY DEF Types, OrchestratorTypes
  <2> QED
    BY <2>1, <2>2, <2>3 DEF Types
<1>2. LinkInv'
  BY LinkUntouched DEF Accepted
<1>3. ProcessInv'
  <2>1. PidsInOrder'
    BY DEF ProcessInv, PidsInOrder, Unborn, Alive
  <2>2. ConnectionsFirst'
    BY DEF ProcessInv, ConnectionsFirst
  <2>3. AcceptedInOrder'
    BY DEF ProcessInv, AcceptedInOrder, Accepted
  <2>4. KnownHaveRegistered' /\ ReportedHaveEnded'
    BY DEF ProcessInv, KnownHaveRegistered, ReportedHaveEnded, Ended
  <2> QED
    BY <2>1, <2>2, <2>3, <2>4 DEF ProcessInv
<1> QED
  BY <1>1, <1>2, <1>3 DEF C8Inv, ProcessInv, LinkInv

(* The harness writes frames to its worker.                                *)
LEMMA SendDownKeeps ==
  ASSUME Types, LinkInv, ProcessInv, NEW key, Handling(key), key # "worker",
         NEW h \in Harnesses,
         h.worker = harness.worker, h.worker # None, h.pid = harness.pid, h.batch = Rest,
         NEW frames \in Seq(DownFrames), SendDown(frames, h), Schedulers(down', DownFrames),
         downLink' \in Seq(DownFrames \cup {Frame("HARNESS_REGISTERED", None)}),
         UNCHANGED <<authority, orchestrator, process, up, fromWorker>>
  PROVE  C8Inv'
<1>1. CASE /\ harness' = h
           /\ toWorker' = [toWorker EXCEPT ![h.worker] = @ \o frames]
           /\ UNCHANGED <<upLink, socket, reported>>
  <2>1. toWorker' \in [Pids -> Seq(DownFrames)]
    <3>1. h.worker \in Pids /\ toWorker \in [Pids -> Seq(DownFrames)]
      BY DEF Types, WorkerTypes, Harnesses
    <3>2. toWorker[h.worker] \o frames \in Seq(DownFrames)
      BY <3>1, Concatenated
    <3> QED
      BY <1>1, <3>1, <3>2
  <2>2. BatchIsFresh'
    BY <1>1, RestStaysFresh DEF ProcessInv
  <2> QED
    BY <1>1, <2>1, <2>2, HarnessMoves
<1>2. CASE Ended(h.worker) /\ Disconnect(h) /\ UNCHANGED toWorker
  <2>1. h.pid # None => Ended(h.pid)
    BY <1>2 DEF Types, HarnessTypes
  <2> QED
    BY <1>2, <2>1, DisconnectKeeps
<1> QED
  BY <1>1, <1>2 DEF SendDown

---------------------------------------------------------------------------
(* The steps of the harness.                                               *)
LEMMA HandleAuthorityKeeps ==
  ASSUME Types, LinkInv, ProcessInv, HandleAuthority, UNCHANGED orchestrator
  PROVE  C8Inv'
<1> DEFINE m == Head(downLink)
           answer == Scheduled(down, m.kind, m)
           next == [harness EXCEPT !.batch = Rest,
                      !.shutdownExpected = @ \/ (m.kind = "SHUTDOWN" /\ harness.worker # None)]
           Down == DownFrames \cup {Frame("HARNESS_REGISTERED", None)}
<1>1. /\ downLink \in Seq(Down) /\ downLink # << >> /\ downLink' = Tail(downLink)
      /\ UNCHANGED <<authority, up, process, fromWorker>> /\ Handling("authority")
  BY DEF HandleAuthority, Types, LinkTypes
<1>2. downLink' \in Seq(Down) /\ m \in Down
  BY <1>1, Shifted
<1>3. Rest \in Seq(Keys)
  BY <1>1, RestIsFresh DEF ProcessInv
<1>4. /\ next \in Harnesses /\ next.worker = harness.worker /\ next.pid = harness.pid
      /\ next.batch = Rest
  BY <1>3 DEF Types, HarnessTypes, Harnesses, Statuses
<1>5. Schedulers(down, DownFrames)
  BY DEF Types, HarnessTypes
<1> HIDE DEF next
<1>6. CASE m.kind \in ToWorker /\ harness.worker # None
  <2>1. down' = After(down, m.kind, m) /\ SendDown(Sent(down, m.kind, m), next)
    BY <1>6 DEF HandleAuthority, next, After, Sent
  <2>2. m \in DownFrames
    BY <1>2, <1>6 DEF Frame, ToWorker
  <2> HIDE DEF m, Down
  <2>3. /\ Schedulers(down', DownFrames)
        /\ Sent(down, m.kind, m) \in Seq(OfKind(DownFrames, m.kind))
    BY <1>5, <2>1, <2>2, ScheduledFrames
  <2>4. Sent(down, m.kind, m) \in Seq(DownFrames)
    BY <2>3 DEF OfKind
  <2> QED
    BY <1>1, <1>2, <1>4, <1>6, <2>1, <2>3, <2>4, SendDownKeeps DEF Down
<1>7. CASE ~(m.kind \in ToWorker /\ harness.worker # None)
  <2>1. harness' = next /\ UNCHANGED <<upLink, down, socket, toWorker, reported>>
    BY <1>7 DEF HandleAuthority, next
  <2>2. toWorker' \in [Pids -> Seq(DownFrames)]
    BY <2>1 DEF Types, WorkerTypes
  <2>3. BatchIsFresh'
    BY <1>1, <1>4, <2>1, RestStaysFresh DEF ProcessInv
  <2>4. Schedulers(down', DownFrames)
    BY <1>5, <2>1 DEF Schedulers
  <2> HIDE DEF m
  <2> QED
    BY <1>1, <1>2, <1>4, <2>1, <2>2, <2>3, <2>4, HarnessMoves
<1> QED
  BY <1>6, <1>7

LEMMA FlushDownKeeps ==
  ASSUME Types, LinkInv, ProcessInv, NEW kind \in ToWorker, FlushDown(kind), UNCHANGED orchestrator
  PROVE  C8Inv'
<1> DEFINE next == [harness EXCEPT !.batch = Rest]
<1>1. /\ Handling(kind) /\ UNCHANGED <<authority, downLink, up, process, fromWorker>>
      /\ kind \notin {"worker", "listener"}
  BY DEF FlushDown, ToWorker
<1>2. Rest \in Seq(Keys)
  BY <1>1, RestIsFresh DEF ProcessInv
<1>3. /\ next \in Harnesses /\ next.worker = harness.worker /\ next.pid = harness.pid
      /\ next.batch = Rest
  BY <1>2 DEF Types, HarnessTypes, Harnesses, Statuses
<1>4. Schedulers(down, DownFrames)
  BY DEF Types, HarnessTypes
<1>5. downLink' \in Seq(DownFrames \cup {Frame("HARNESS_REGISTERED", None)})
  BY <1>1 DEF Types, LinkTypes
<1> HIDE DEF next
<1>6. CASE harness.worker = None
  <2>1. harness' = next /\ UNCHANGED <<upLink, down, reported, socket, toWorker>>
    BY <1>6 DEF FlushDown, next
  <2>2. toWorker' \in [Pids -> Seq(DownFrames)] /\ Schedulers(down', DownFrames)
    BY <1>4, <2>1 DEF Types, WorkerTypes, Schedulers
  <2>3. BatchIsFresh'
    BY <1>1, <1>3, <2>1, RestStaysFresh DEF ProcessInv
  <2> QED
    BY <1>1, <1>3, <1>5, <2>1, <2>2, <2>3, HarnessMoves
<1>7. CASE harness.worker # None
  <2>1. /\ down' = [k \in DOMAIN down |-> IF k = kind THEN FlushDelayed(down[k]).queue ELSE down[k]]
        /\ SendDown(DelayedOf(down, kind), next)
    BY <1>7 DEF FlushDown, next
  <2>2. DelayedOf(down, kind) \in Seq(DownFrames)
    <3>1. DelayedOf(down, kind) \in Seq(OfKind(DownFrames, kind))
      BY <1>4, AllFlushed
    <3> QED
      BY <3>1 DEF OfKind
  <2>3. Schedulers(down', DownFrames)
    <3> DEFINE flushed == [k \in DOMAIN down |-> FlushDelayed(down[k]).queue]
    <3>1. Schedulers(flushed, DownFrames)
      BY <1>4, AllFlushed
    <3> QED
      BY <1>4, <2>1, <3>1 DEF Schedulers
  <2> QED
    BY <1>1, <1>3, <1>5, <1>7, <2>1, <2>2, <2>3, SendDownKeeps
<1> QED
  BY <1>6, <1>7

LEMMA WorkerGoneKeeps ==
  ASSUME Types, LinkInv, ProcessInv, WorkerGone, UNCHANGED orchestrator
  PROVE  C8Inv'
<1> DEFINE h == [harness EXCEPT !.batch = Rest]
<1>1. /\ Handling("worker") /\ harness.worker # None /\ fromWorker[harness.worker] = << >>
      /\ Disconnect(h) /\ UNCHANGED <<authority, downLink, up, down, process, toWorker, fromWorker>>
  BY DEF WorkerGone
<1>2. /\ Rest \in Seq(Keys)
      /\ \E j \in DOMAIN harness.batch : harness.batch[j] = "worker"
  BY <1>1, RestIsFresh DEF ProcessInv
<1>3. /\ h \in Harnesses /\ h.worker = harness.worker /\ h.pid = harness.pid /\ h.batch = Rest
  BY <1>2 DEF Types, HarnessTypes, Harnesses, Statuses
<1>4. h.pid # None => Ended(h.pid)
  <2> SUFFICES ASSUME harness.pid # None PROVE Ended(harness.pid)
    BY <1>3
  <2>1. harness.pid = harness.worker
    BY DEF Types, HarnessTypes
  <2> QED
    BY <1>1, <1>2, <2>1 DEF ProcessInv, BatchIsFresh
<1>5. Schedulers(down', DownFrames) /\ downLink' \in Seq(DownFrames \cup {Frame("HARNESS_REGISTERED", None)})
  BY <1>1 DEF Types, HarnessTypes, LinkTypes, Schedulers
<1> HIDE DEF h
<1> QED
  BY <1>1, <1>3, <1>4, <1>5, DisconnectKeeps

(* The harness ends, or is stopped.                                        *)
LEMMA HarnessEnds ==
  ASSUME Types, LinkInv, ProcessInv, NEW status \in Statuses,
         harness' = [harness EXCEPT !.status = status],
         orchestrator' = orchestrator \/ orchestrator' = [orchestrator EXCEPT !.phase = "stopped"],
         UNCHANGED <<authority, upLink, downLink, up, down, reported, workerVars>>
  PROVE  C8Inv'
<1>1. /\ harness' \in Harnesses /\ harness'.worker = harness.worker
      /\ harness'.pid = harness.pid /\ harness'.batch = harness.batch
  BY DEF Types, HarnessTypes, Harnesses, Statuses
<1>2. UNCHANGED <<process, socket, toWorker, fromWorker>>
  BY DEF workerVars
<1>3. BatchIsFresh'
  BY <1>1, <1>2 DEF ProcessInv, BatchIsFresh, Backlog, Ended
<1>4. Schedulers(down', DownFrames) /\ toWorker' \in [Pids -> Seq(DownFrames)]
      /\ downLink' \in Seq(DownFrames \cup {Frame("HARNESS_REGISTERED", None)})
  BY <1>2 DEF Types, HarnessTypes, WorkerTypes, LinkTypes, Schedulers
<1>5. orchestrator' = orchestrator \/ (OrchestratorTypes' /\ orchestrator'.phase # "restarting")
  BY DEF Types, OrchestratorTypes
<1> QED
  BY <1>1, <1>2, <1>3, <1>4, <1>5, HarnessMoves

LEMMA SelectKeeps ==
  ASSUME Types, LinkInv, ProcessInv, Select, UNCHANGED orchestrator
  PROVE  C8Inv'
<1>1. /\ UNCHANGED <<authority, upLink, downLink, up, down, reported, process, socket, toWorker,
                     fromWorker>>
  BY DEF Select, workerVars
<1>2. PICK batch : /\ harness' = [harness EXCEPT !.batch = batch]
                   /\ \/ batch \in Orders(ReadyKeys)
                      \/ batch = <<"flushUp", "REGISTERED", "WORK", "SHUTDOWN">>
  BY DEF Select
<1>3. /\ batch \in Seq(Keys)
      /\ \A i, j \in DOMAIN batch : batch[i] = batch[j] => i = j
      /\ (\E i \in DOMAIN batch : batch[i] = "listener") => Backlog # {}
      /\ (\E i \in DOMAIN batch : batch[i] = "worker") /\ harness.pid # None =>
           fromWorker[harness.pid] # << >> \/ Ended(harness.pid)
  <2>1. CASE batch \in Orders(ReadyKeys)
    <3>1. IsFiniteSet(ReadyKeys)
      <4>1. /\ IsFiniteSet({"listener"}) /\ IsFiniteSet({"authority"}) /\ IsFiniteSet({"worker"})
        BY FS_Singleton
      <4>2. IsFiniteSet({"listener"} \cup {"authority"} \cup {"worker"})
        BY <4>1, FS_Union
      <4>3. ReadyKeys \subseteq {"listener"} \cup {"authority"} \cup {"worker"}
        BY DEF ReadyKeys
      <4> QED
        BY <4>2, <4>3, FS_Subset
    <3> DEFINE n == Cardinality(ReadyKeys)
    <3>2. n \in Nat /\ batch \in [1..n -> ReadyKeys]
          /\ \A i, j \in DOMAIN batch : batch[i] = batch[j] => i = j
      BY <2>1, <3>1, FS_CardinalityType DEF Orders
    <3> HIDE DEF n
    <3>3. ReadyKeys \subseteq Keys
      BY DEF ReadyKeys, Keys
    <3>4. batch \in Seq(Keys) /\ \A i \in DOMAIN batch : batch[i] \in ReadyKeys
      BY <3>2, <3>3
    <3>5. "listener" \in ReadyKeys => Backlog # {}
      BY DEF ReadyKeys
    <3>6. "worker" \in ReadyKeys =>
            harness.worker # None /\ (fromWorker[harness.worker] # << >> \/ Ended(harness.worker))
      BY DEF ReadyKeys
    <3>7. harness.pid # None => harness.pid = harness.worker
      BY DEF Types, HarnessTypes
    <3> QED
      BY <3>2, <3>4, <3>5, <3>6, <3>7
  <2>2. CASE batch = <<"flushUp", "REGISTERED", "WORK", "SHUTDOWN">>
    BY <2>2 DEF Keys, ToWorker
  <2> QED
    BY <1>2, <2>1, <2>2
<1>4. /\ harness' \in Harnesses /\ harness'.worker = harness.worker
      /\ harness'.pid = harness.pid /\ harness'.batch = batch
  BY <1>2, <1>3 DEF Types, HarnessTypes, Harnesses, Statuses
<1>5. BatchIsFresh'
  BY <1>1, <1>3, <1>4 DEF BatchIsFresh, Backlog, Ended
<1>6. Schedulers(down', DownFrames) /\ toWorker' \in [Pids -> Seq(DownFrames)]
      /\ downLink' \in Seq(DownFrames \cup {Frame("HARNESS_REGISTERED", None)})
  BY <1>1 DEF Types, HarnessTypes, WorkerTypes, LinkTypes, Schedulers
<1> QED
  BY <1>1, <1>4, <1>5, <1>6, HarnessMoves

(* A write to the authority by a harness that becomes h.                   *)
WrittenUp(frames, h) ==
  /\ upLink' = (IF authority.alive THEN upLink \o frames ELSE upLink)
  /\ harness' = h \/ harness' = [h EXCEPT !.status = "crashed"]

LEMMA WritesUp ==
  ASSUME Types, ProcessInv, NEW key, Handling(key),
         NEW h \in Harnesses, h.worker = harness.worker, h.pid = harness.pid, h.batch = Rest,
         NEW frames \in Seq(WorkerFrames), WrittenUp(frames, h), Schedulers(up', WorkerFrames),
         UNCHANGED <<orchestrator, authority, downLink, down, reported, process, socket, toWorker,
                     fromWorker>>
  PROVE  Types' /\ ProcessInv'
<1>1. /\ harness' \in Harnesses /\ harness'.worker = harness.worker
      /\ harness'.pid = harness.pid /\ harness'.batch = Rest
  BY DEF WrittenUp, Harnesses, Statuses
<1>2. upLink' \in Seq(UpFrames)
  <2>1. upLink \in Seq(UpFrames) /\ frames \in Seq(UpFrames)
    BY DEF Types, LinkTypes, UpFrames
  <2> QED
    BY <2>1, Concatenated DEF WrittenUp
<1>3. Types'
  <2>1. HarnessTypes'
    BY <1>1 DEF Types, HarnessTypes, Harnesses, Statuses, Schedulers
  <2>2. LinkTypes' /\ WorkerTypes' /\ AuthorityTypes' /\ OrchestratorTypes'
    BY <1>2 DEF Types, LinkTypes, WorkerTypes, AuthorityTypes, OrchestratorTypes
  <2> QED
    BY <2>1, <2>2 DEF Types
<1>4. BatchIsFresh'
  BY <1>1, RestStaysFresh DEF ProcessInv
<1>5. ProcessInv'
  <2>1. PidsInOrder' /\ ConnectionsFirst'
    BY DEF ProcessInv, PidsInOrder, Unborn, Alive, ConnectionsFirst
  <2>2. AcceptedInOrder'
    BY <1>1 DEF ProcessInv, AcceptedInOrder, Accepted
  <2>3. KnownHaveRegistered' /\ ReportedHaveEnded'
    BY <1>1 DEF ProcessInv, KnownHaveRegistered, ReportedHaveEnded, Ended
  <2> QED
    BY <1>4, <2>1, <2>2, <2>3 DEF ProcessInv
<1> QED
  BY <1>3, <1>5

(* Flushing the delayed frames of the workers.                             *)
LEMMA FlushUpKeeps ==
  ASSUME Types, LinkInv, ProcessInv, FlushUp, UNCHANGED orchestrator
  PROVE  C8Inv'
<1> DEFINE frames == DelayedOf(up, "REGISTER") \o DelayedOf(up, "COMPLETE")
                       \o DelayedOf(up, "SHUTDOWN_ACK")
           next == [harness EXCEPT !.batch = Rest]
<1>1. /\ Handling("flushUp") /\ SendUp(frames, next)
      /\ up' = [kind \in DOMAIN up |-> FlushDelayed(up[kind]).queue]
      /\ UNCHANGED <<authority, downLink, down, reported, process, socket, toWorker, fromWorker>>
  BY DEF FlushUp, workerVars
<1>2. Rest \in Seq(Keys)
  BY <1>1, RestIsFresh DEF ProcessInv
<1>3. /\ next \in Harnesses /\ next.worker = harness.worker /\ next.pid = harness.pid
      /\ next.batch = Rest
  BY <1>2 DEF Types, HarnessTypes, Harnesses, Statuses
<1>4. frames \in Seq(WorkerFrames) /\ Schedulers(up', WorkerFrames)
  <2>1. Schedulers(up, WorkerFrames)
    BY DEF Types, HarnessTypes
  <2>2. /\ DelayedOf(up, "REGISTER") \in Seq(OfKind(WorkerFrames, "REGISTER"))
        /\ DelayedOf(up, "COMPLETE") \in Seq(OfKind(WorkerFrames, "COMPLETE"))
        /\ DelayedOf(up, "SHUTDOWN_ACK") \in Seq(OfKind(WorkerFrames, "SHUTDOWN_ACK"))
        /\ Schedulers([kind \in DOMAIN up |-> FlushDelayed(up[kind]).queue], WorkerFrames)
    BY <2>1, AllFlushed
  <2> QED
    BY <1>1, <2>2, KindsInTurn
<1> HIDE DEF frames, next
<1>5. WrittenUp(frames, next)
  BY <1>1, SentUp DEF WrittenUp
<1>6. LinkInv'
  BY FlushUpLink DEF ProcessInv
<1>7. Types' /\ ProcessInv'
  BY <1>1, <1>3, <1>4, <1>5, WritesUp
<1> QED
  BY <1>6, <1>7 DEF C8Inv, ProcessInv, LinkInv

(* A frame of the worker read: it was the first, and no registration is    *)
(* behind it.                                                              *)
LEMMA FrameTaken ==
  ASSUME Types, ProcessInv, NEW w \in Pids, fromWorker[w] # << >>,
         fromWorker' = [fromWorker EXCEPT ![w] = Tail(fromWorker[w])]
  PROVE  /\ fromWorker' \in [Pids -> Seq(WorkerFrames)]
         /\ \A v \in Pids : \A i \in DOMAIN fromWorker'[v] : fromWorker'[v][i].pid = v
         /\ \A v \in Pids : v # w => fromWorker'[v] = fromWorker[v]
         /\ ~Registers(fromWorker'[w])
         /\ process[w] \in {"serving", "killed", "exited"} /\ socket[w] # "none"
         /\ \A v \in Pids : \A i \in DOMAIN fromWorker'[v] :
              Registration(fromWorker'[v][i]) => i = 1
         /\ \A v \in Pids : ~Registers(fromWorker[v]) => ~Registers(fromWorker'[v])
<1> DEFINE s == fromWorker[w]
           rest == Tail(s)
<1>1. /\ fromWorker \in [Pids -> Seq(WorkerFrames)] /\ s \in Seq(WorkerFrames)
      /\ \A v \in Pids : \A i \in DOMAIN fromWorker[v] : fromWorker[v][i].pid = v
  BY DEF Types, WorkerTypes
<1>2. /\ rest \in Seq(WorkerFrames) /\ DOMAIN rest \subseteq Int /\ 0 \notin DOMAIN rest
      /\ \A i \in DOMAIN rest : i + 1 \in DOMAIN s /\ rest[i] = s[i + 1]
  BY <1>1, Shifted
<1>3. \A i \in DOMAIN s : Registration(s[i]) => i = 1
  BY DEF ProcessInv, ConnectionsFirst
<1>4. process[w] \in Progress
  BY DEF Types, WorkerTypes
<1>5. process[w] \in {"serving", "killed", "exited"} /\ socket[w] # "none"
  BY <1>4 DEF ProcessInv, ConnectionsFirst, Progress
<1> HIDE DEF rest
<1>6. \A i \in DOMAIN rest : ~Registration(rest[i])
  <2> SUFFICES ASSUME NEW i \in DOMAIN rest PROVE ~Registration(rest[i])
    OBVIOUS
  <2>1. i + 1 # 1
    BY <1>2
  <2> QED
    BY <1>2, <1>3, <2>1
<1>7. fromWorker'[w] = rest /\ \A v \in Pids : v # w => fromWorker'[v] = fromWorker[v]
  BY <1>1 DEF rest
<1>8. fromWorker' \in [Pids -> Seq(WorkerFrames)]
  BY <1>1, <1>2 DEF rest
<1>9. ~Registers(rest)
  BY <1>6 DEF Registers
<1>10. \A i \in DOMAIN rest : rest[i].pid = w
  BY <1>1, <1>2
<1>11. \A v \in Pids : \A i \in DOMAIN fromWorker'[v] : Registration(fromWorker'[v][i]) => i = 1
  BY <1>6, <1>7 DEF ProcessInv, ConnectionsFirst
<1> HIDE DEF s
<1> QED
  BY <1>1, <1>5, <1>7, <1>8, <1>9, <1>10, <1>11

LEMMA HandleWorkerKeeps ==
  ASSUME Types, LinkInv, ProcessInv, HandleWorker, UNCHANGED orchestrator
  PROVE  C8Inv'
<1> DEFINE w == harness.worker
           m == Head(fromWorker[w])
<1>1. /\ Handling("worker") /\ w # None /\ w \in Pids /\ fromWorker[w] # << >>
      /\ m \in WorkerFrames /\ m.pid = w
  BY WorkerFrameRead DEF HandleWorker
<1>2. /\ UNCHANGED <<authority, downLink, down, reported, process, socket, toWorker>>
      /\ fromWorker' = [fromWorker EXCEPT ![w] = Tail(fromWorker[w])]
  BY WorkerFrameHandled
<1>3. /\ Rest \in Seq(Keys) /\ \A i \in DOMAIN Rest : Rest[i] # "worker"
  BY <1>1, RestIsFresh DEF ProcessInv
<1>4. Schedulers(up, WorkerFrames)
  BY DEF Types, HarnessTypes
<1>5. PICK h, frames :
        /\ h \in Harnesses /\ h.worker = w /\ h.batch = Rest
        /\ h.pid = w \/ (h.pid = harness.pid /\ m.kind # "REGISTER")
        /\ frames \in Seq(WorkerFrames) /\ Schedulers(up', WorkerFrames) /\ WrittenUp(frames, h)
  <2>1. CASE m.kind = "REGISTER"
    <3> DEFINE frames == AllLate \o Sent(WithoutLate, "REGISTER", m)
               h == [harness EXCEPT !.batch = Rest, !.pid = m.pid]
    <3>1. up' = After(WithoutLate, "REGISTER", m) /\ SendUp(frames, h)
      BY <2>1, WorkerFrameHandled
    <3>2. Schedulers(WithoutLate, WorkerFrames) /\ AllLate \in Seq(WorkerFrames)
      <4>1. /\ Late(up, "REGISTER") \in Seq(OfKind(WorkerFrames, "REGISTER"))
            /\ Late(up, "COMPLETE") \in Seq(OfKind(WorkerFrames, "COMPLETE"))
            /\ Late(up, "SHUTDOWN_ACK") \in Seq(OfKind(WorkerFrames, "SHUTDOWN_ACK"))
            /\ Schedulers(WithoutLate, WorkerFrames)
        BY <1>4, AllFlushed DEF WithoutLate
      <4> QED
        BY <4>1, KindsInTurn DEF AllLate
    <3>3. /\ Schedulers(up', WorkerFrames)
          /\ Sent(WithoutLate, "REGISTER", m) \in Seq(OfKind(WorkerFrames, "REGISTER"))
      <4> HIDE DEF m
      <4> QED
        BY <1>1, <2>1, <3>1, <3>2, ScheduledFrames
    <3>4. Sent(WithoutLate, "REGISTER", m) \in Seq(WorkerFrames)
      BY <3>3 DEF OfKind
    <3>5. frames \in Seq(WorkerFrames)
      BY <3>2, <3>4, Concatenated
    <3>6. h \in Harnesses /\ h.worker = w /\ h.batch = Rest /\ h.pid = w
      BY <1>1, <1>3 DEF Types, HarnessTypes, Harnesses, Statuses
    <3> HIDE DEF frames, h
    <3>7. WrittenUp(frames, h)
      BY <3>1, SentUp DEF WrittenUp
    <3> QED
      BY <3>3, <3>5, <3>6, <3>7
  <2>2. CASE m.kind # "REGISTER"
    <3> DEFINE frames == Sent(up, m.kind, m)
               h == [harness EXCEPT !.batch = Rest]
    <3>1. up' = After(up, m.kind, m) /\ SendUp(frames, h)
      BY <2>2, WorkerFrameHandled
    <3>2. Schedulers(up', WorkerFrames) /\ frames \in Seq(OfKind(WorkerFrames, m.kind))
      <4> HIDE DEF m
      <4> QED
        BY <1>1, <1>4, <3>1, ScheduledFrames
    <3>3. frames \in Seq(WorkerFrames)
      BY <3>2 DEF OfKind
    <3>4. h \in Harnesses /\ h.worker = w /\ h.batch = Rest /\ h.pid = harness.pid
      BY <1>3 DEF Types, HarnessTypes, Harnesses, Statuses
    <3> HIDE DEF frames, h
    <3>5. WrittenUp(frames, h)
      BY <3>1, SentUp DEF WrittenUp
    <3> QED
      BY <2>2, <3>2, <3>3, <3>4, <3>5
  <2> QED
    BY <2>1, <2>2
<1>6. /\ harness' \in Harnesses /\ harness'.worker = w /\ harness'.batch = Rest
      /\ harness'.pid = h.pid
  BY <1>5 DEF WrittenUp, Harnesses, Statuses
<1>7. /\ fromWorker' \in [Pids -> Seq(WorkerFrames)]
      /\ \A v \in Pids : \A i \in DOMAIN fromWorker'[v] : fromWorker'[v][i].pid = v
      /\ \A v \in Pids : v # w => fromWorker'[v] = fromWorker[v]
      /\ ~Registers(fromWorker'[w])
      /\ process[w] \in {"serving", "killed", "exited"} /\ socket[w] # "none"
      /\ \A v \in Pids : \A i \in DOMAIN fromWorker'[v] :
           Registration(fromWorker'[v][i]) => i = 1
      /\ \A v \in Pids : ~Registers(fromWorker[v]) => ~Registers(fromWorker'[v])
  BY <1>1, <1>2, FrameTaken
<1> HIDE DEF m
<1>8. Types'
  <2>1. upLink' \in Seq(UpFrames)
    <3>1. upLink \in Seq(UpFrames) /\ frames \in Seq(UpFrames)
      BY <1>5 DEF Types, LinkTypes, UpFrames
    <3> QED
      BY <1>5, <3>1, Concatenated DEF WrittenUp
  <2>2. harness'.pid \in {harness'.worker, None}
    BY <1>5, <1>6 DEF Types, HarnessTypes
  <2>3. HarnessTypes'
    BY <1>2, <1>5, <1>6, <2>2 DEF Types, HarnessTypes, Harnesses, Statuses, Schedulers
  <2>4. WorkerTypes'
    BY <1>2, <1>7 DEF Types, WorkerTypes
  <2> QED
    BY <1>2, <2>1, <2>3, <2>4 DEF Types, LinkTypes, AuthorityTypes, OrchestratorTypes
<1>9. LinkInv'
  BY WorkerFrameLink
<1>10. ProcessInv'
  <2>1. PidsInOrder'
    BY <1>2 DEF ProcessInv, PidsInOrder, Unborn, Alive
  <2>2. ConnectionsFirst'
    BY <1>2, <1>7 DEF ProcessInv, ConnectionsFirst
  <2>3. AcceptedInOrder'
    BY <1>2, <1>6 DEF ProcessInv, AcceptedInOrder, Accepted
  <2>4. BatchIsFresh'
    BY <1>1, <1>2, <1>6, RestStaysFresh DEF ProcessInv
  <2>5. KnownHaveRegistered'
    <3>1. harness'.pid # None => harness'.pid = w
      BY <1>5, <1>6 DEF Types, HarnessTypes
    <3> QED
      BY <1>2, <1>7, <3>1 DEF KnownHaveRegistered
  <2>6. ReportedHaveEnded'
    BY <1>2, <1>7 DEF ProcessInv, ReportedHaveEnded, Ended, Types, HarnessTypes
  <2> QED
    BY <2>1, <2>2, <2>3, <2>4, <2>5, <2>6 DEF ProcessInv
<1> QED
  BY <1>8, <1>9, <1>10 DEF C8Inv, ProcessInv, LinkInv

LEMMA HandleListenerKeeps ==
  ASSUME Types, LinkInv, ProcessInv, HandleListener, UNCHANGED orchestrator
  PROVE  C8Inv'
<1> DEFINE w == CHOOSE v \in Backlog : \A u \in Backlog : v <= u
<1>1. /\ Handling("listener")
      /\ UNCHANGED <<authority, upLink, downLink, up, down, reported, process, toWorker, fromWorker>>
      /\ socket' = [v \in Pids |-> IF v = w THEN "open"
                                   ELSE IF v = harness.worker THEN "closed" ELSE socket[v]]
      /\ harness' = [NoWorker(harness) EXCEPT !.worker = w, !.batch = Rest]
  BY DEF HandleListener
<1>2. /\ Rest \in Seq(Keys) /\ Backlog # {}
  BY <1>1, RestIsFresh DEF ProcessInv, BatchIsFresh
<1>3. w \in Pids /\ socket[w] = "backlog" /\ \A u \in Pids : socket[u] = "backlog" => w <= u
  <2>1. Backlog \in SUBSET Nat
    BY DEF Backlog, Pids
  <2>2. \E v \in Backlog : \A u \in Backlog : v <= u
    BY <1>2, <2>1, LeastOf
  <2>3. w \in Backlog /\ \A u \in Backlog : w <= u
    BY <2>2
  <2> QED
    BY <2>3 DEF Backlog
<1> HIDE DEF w
<1>4. /\ harness' \in Harnesses /\ harness'.worker = w /\ harness'.pid = None
      /\ harness'.batch = Rest
  BY <1>1, <1>2, <1>3 DEF NoWorker, Types, HarnessTypes, Harnesses, Statuses
<1>5. \A v \in Pids : socket[v] = "open" <=> v = harness.worker
  BY DEF ProcessInv, AcceptedInOrder
<1>6. /\ socket' \in [Pids -> {"none", "backlog", "open", "closed"}]
      /\ \A v \in Pids : /\ socket'[v] = "open" <=> v = w
                         /\ socket'[v] = "backlog" <=> socket[v] = "backlog" /\ v # w
                         /\ socket'[v] = "none" <=> socket[v] = "none"
                         /\ Accepted(v)' <=> Accepted(v) \/ v = w
                         /\ socket[v] = "closed" => socket'[v] = "closed"
  <2>1. socket \in [Pids -> {"none", "backlog", "open", "closed"}]
    BY DEF Types, WorkerTypes
  <2>2. socket' \in [Pids -> {"none", "backlog", "open", "closed"}]
    BY <1>1, <2>1
  <2> SUFFICES ASSUME NEW v \in Pids
               PROVE  /\ socket'[v] = "open" <=> v = w
                      /\ socket'[v] = "backlog" <=> socket[v] = "backlog" /\ v # w
                      /\ socket'[v] = "none" <=> socket[v] = "none"
                      /\ Accepted(v)' <=> Accepted(v) \/ v = w
                      /\ socket[v] = "closed" => socket'[v] = "closed"
    BY <2>2
  <2>3. CASE v = w
    BY <1>1, <1>3, <2>3 DEF Accepted
  <2>4. CASE v # w /\ v = harness.worker
    BY <1>1, <1>5, <2>4 DEF Accepted
  <2>5. CASE v # w /\ v # harness.worker
    BY <1>1, <1>5, <2>5 DEF Accepted
  <2> QED
    BY <2>3, <2>4, <2>5
<1>7. Types'
  <2>1. HarnessTypes'
    BY <1>1, <1>4 DEF Types, HarnessTypes, Harnesses, Statuses, Schedulers
  <2>2. WorkerTypes'
    BY <1>1, <1>6 DEF Types, WorkerTypes
  <2> QED
    BY <1>1, <2>1, <2>2 DEF Types, LinkTypes, AuthorityTypes, OrchestratorTypes
<1>8. LinkInv'
  <2>1. \A v \in Pids : Accepted(v) => socket'[v] \in {"open", "closed"}
    BY <1>6 DEF Accepted
  <2> QED
    BY <1>1, <2>1, LinkUntouched
<1>9. ProcessInv'
  <2>1. PidsInOrder'
    BY <1>1 DEF ProcessInv, PidsInOrder, Unborn, Alive
  <2>2. ConnectionsFirst'
    BY <1>1, <1>6 DEF ProcessInv, ConnectionsFirst
  <2>3. AcceptedInOrder'
    <3>1. \A v \in Pids : Accepted(v) => v < w
      BY <1>3 DEF ProcessInv, AcceptedInOrder
    <3>2. \A u \in Pids : socket[u] = "backlog" /\ u # w => w < u
      BY <1>3 DEF Pids
    <3>3. \A v, u \in Pids : (Accepted(v) \/ v = w) /\ socket[u] = "backlog" /\ u # w => v < u
      BY <3>2 DEF ProcessInv, AcceptedInOrder
    <3>4. \A v \in Pids : Accepted(v) \/ v = w => v <= w
      BY <1>3, <3>1 DEF Pids
    <3> QED
      BY <1>4, <1>6, <3>3, <3>4 DEF AcceptedInOrder
  <2>4. BatchIsFresh'
    BY <1>1, <1>4, RestStaysFresh DEF ProcessInv
  <2>5. KnownHaveRegistered'
    BY <1>4 DEF KnownHaveRegistered
  <2>6. ReportedHaveEnded'
    BY <1>1, <1>6 DEF ProcessInv, ReportedHaveEnded, Ended, Types, HarnessTypes
  <2> QED
    BY <2>1, <2>2, <2>3, <2>4, <2>5, <2>6 DEF ProcessInv
<1> QED
  BY <1>7, <1>8, <1>9 DEF C8Inv, ProcessInv, LinkInv

---------------------------------------------------------------------------
(* The steps of the orchestrator and of the workers.                       *)
LEMMA NewestIs ==
  ASSUME ProcessInv
  PROVE  Newest \in 0..MaxWorkers /\ \A v \in Pids : Unborn(v) <=> v > Newest
<1> DEFINE Bound(w) == /\ w # 0 => process[w] # "unborn"
                       /\ \A v \in Pids : v > w => process[v] = "unborn"
<1>1. MaxWorkers \in Nat /\ Pids \cup {0} = 0..MaxWorkers
  BY SubstrateAssumption DEF Pids
<1>2. PICK n \in 0..MaxWorkers : \A v \in Pids : Unborn(v) <=> v > n
  BY DEF ProcessInv, PidsInOrder
<1>3. Bound(n)
  BY <1>1, <1>2 DEF Unborn, Pids
<1>4. Newest \in 0..MaxWorkers /\ Bound(Newest)
  <2>1. \E w \in Pids \cup {0} : Bound(w)
    BY <1>1, <1>3
  <2> QED
    BY <1>1, <2>1 DEF Newest
<1>5. Newest = n
  <2>1. ~(Newest < n)
    BY <1>1, <1>2, <1>4 DEF Unborn, Pids
  <2>2. ~(Newest > n)
    BY <1>1, <1>2, <1>4 DEF Unborn, Pids
  <2> QED
    BY <1>1, <1>4, <2>1, <2>2
<1> QED
  BY <1>1, <1>2, <1>5

(* A worker goes on, is started or ends; the harness and the authority     *)
(* stay as they are.                                                       *)
WorkersGoOn ==
  \A v \in Pids :
    /\ process'[v] = "unborn" => Unborn(v)
    /\ Ended(v) => process'[v] \in {"killed", "exited"}
    /\ process[v] = "serving" => process'[v] \in {"serving", "killed", "exited"}
    /\ process[v] \in {"serving", "killed", "exited"} /\ ~Registers(fromWorker[v]) =>
         ~Registers(fromWorker'[v])
    /\ fromWorker[v] # << >> => fromWorker'[v] # << >>

LEMMA WorkersMove ==
  ASSUME Types, LinkInv, ProcessInv, WorkerTypes', OrchestratorTypes', PidsInOrder', ConnectionsFirst',
         AcceptedInOrder', WorkersGoOn,
         \A v \in Pids : socket'[v] = socket[v] \/ socket[v] = "none",
         UNCHANGED <<authority, upLink, downLink, harness, up, down, reported>>
  PROVE  C8Inv'
<1>1. Types'
  BY DEF Types, AuthorityTypes, HarnessTypes, LinkTypes, Schedulers
<1>2. LinkInv'
  <2>1. \A v \in Pids : Accepted(v) => socket'[v] \in {"open", "closed"}
    BY DEF Accepted
  <2>2. \A v \in Pids : process'[v] = "unborn" => process[v] = "unborn"
    BY DEF WorkersGoOn, Unborn
  <2> QED
    BY <2>1, <2>2, LinkUntouched
<1>3. harness.pid \in Pids \cup {None} /\ reported \subseteq Pids
  BY DEF Types, HarnessTypes
<1>4. BatchIsFresh'
  <2>1. Backlog # {} => Backlog' # {}
    BY DEF Backlog
  <2>2. ASSUME harness.pid # None, fromWorker[harness.pid] # << >> \/ Ended(harness.pid)
        PROVE  fromWorker'[harness.pid] # << >> \/ process'[harness.pid] \in {"killed", "exited"}
    BY <1>3, <2>2 DEF WorkersGoOn
  <2> QED
    BY <2>1, <2>2 DEF ProcessInv, BatchIsFresh, Ended
<1>5. KnownHaveRegistered'
  BY <1>3 DEF ProcessInv, KnownHaveRegistered, WorkersGoOn, Ended
<1>6. ReportedHaveEnded'
  <2> SUFFICES ASSUME NEW v \in reported
               PROVE  /\ process'[v] \in {"killed", "exited"} /\ socket'[v] = "closed"
                      /\ ~Registers(fromWorker'[v])
    BY DEF ReportedHaveEnded, Ended
  <2>1. Ended(v) /\ socket[v] = "closed" /\ ~Registers(fromWorker[v]) /\ v \in Pids
    BY <1>3 DEF ProcessInv, ReportedHaveEnded
  <2>2. process[v] \in {"serving", "killed", "exited"}
    BY <2>1 DEF Ended
  <2> QED
    BY <2>1, <2>2 DEF WorkersGoOn
<1> QED
  BY <1>1, <1>2, <1>4, <1>5, <1>6 DEF C8Inv, ProcessInv, LinkInv

(* A new worker is started, when no other lives.                           *)
LEMMA LaunchKeeps ==
  ASSUME Types, LinkInv, ProcessInv, NEW w \in Pids, Launch(w),
         orchestrator' = [orchestrator EXCEPT !.phase = "running"]
  PROVE  C8Inv'
<1>1. /\ UNCHANGED <<authority, upLink, downLink, harness, up, down, reported, socket, toWorker,
                     fromWorker>>
      /\ \A v \in Pids : ~Alive(v)
      /\ w = Newest + 1 /\ process' = [process EXCEPT ![w] = "started"]
  BY DEF Launch, harnessVars
<1>2. Newest \in 0..MaxWorkers /\ \A v \in Pids : Unborn(v) <=> v > Newest
  BY NewestIs
<1>3. MaxWorkers \in Nat /\ process \in [Pids -> Progress]
  BY SubstrateAssumption DEF Types, WorkerTypes
<1>4. /\ process' \in [Pids -> Progress] /\ process[w] = "unborn" /\ process'[w] = "started"
      /\ \A v \in Pids : v # w => process'[v] = process[v]
  BY <1>1, <1>2, <1>3 DEF Progress, Unborn, Pids
<1>5. WorkerTypes' /\ OrchestratorTypes' /\ orchestrator'.phase = "running"
  BY <1>1, <1>4 DEF Types, WorkerTypes, OrchestratorTypes
<1>6. PidsInOrder'
  <2>1. \A v \in Pids : process'[v] = "unborn" <=> v > w
    <3> SUFFICES ASSUME NEW v \in Pids PROVE process'[v] = "unborn" <=> v > w
      OBVIOUS
    <3>1. v > Newest <=> v > w \/ v = w
      BY <1>1, <1>2, <1>3 DEF Pids
    <3>2. ~(w > w)
      BY <1>3 DEF Pids
    <3> QED
      BY <1>2, <1>4, <3>1, <3>2 DEF Unborn
  <2>2. w \in 0..MaxWorkers
    BY <1>3 DEF Pids
  <2>3. \A v \in Pids : process'[v] \in {"started", "connected", "serving"} => v = w
    BY <1>1, <1>4 DEF Alive
  <2>4. \A v \in Pids : ~(v > v)
    BY <1>3 DEF Pids
  <2>5. \A v, u \in Pids : process'[u] \in {"started", "connected", "serving"} /\ v > u => process'[v] = "unborn"
    BY <2>1, <2>3
  <2>6. \E n \in 0..MaxWorkers : \A v \in Pids : process'[v] = "unborn" <=> v > n
    BY <2>1, <2>2
  <2> QED
    BY <1>5, <2>5, <2>6 DEF PidsInOrder, Unborn, Alive
<1>7. ConnectionsFirst'
  <2> SUFFICES ASSUME NEW v \in Pids
               PROVE  /\ process'[v] \in {"unborn", "started"} => socket[v] = "none"
                      /\ process'[v] \in {"unborn", "started", "connected"} \/ socket[v] = "none" =>
                           fromWorker[v] = << >>
                      /\ process'[v] \in {"connected", "serving"} => socket[v] # "none"
                      /\ \A i \in DOMAIN fromWorker[v] : Registration(fromWorker[v][i]) => i = 1
    BY <1>1 DEF ConnectionsFirst
  <2>1. CASE v = w
    BY <1>4, <2>1 DEF ProcessInv, ConnectionsFirst
  <2>2. CASE v # w
    BY <1>4, <2>2 DEF ProcessInv, ConnectionsFirst
  <2> QED
    BY <2>1, <2>2
<1>8. AcceptedInOrder'
  BY <1>1 DEF ProcessInv, AcceptedInOrder, Accepted
<1>9. WorkersGoOn
  BY <1>1, <1>4 DEF WorkersGoOn, Unborn, Ended
<1> QED
  BY <1>1, <1>5, <1>6, <1>7, <1>8, <1>9, WorkersMove

(* Worker processes end: killed by a signal, by a restart or by an         *)
(* exception.                                                              *)
LEMMA KilledKeeps ==
  ASSUME Types, LinkInv, ProcessInv, process' \in [Pids -> Progress],
         \A v \in Pids : process'[v] = process[v] \/ (Alive(v) /\ process'[v] = "killed"),
         OrchestratorTypes',
         orchestrator'.phase = "restarting" =>
           orchestrator' = orchestrator \/ orchestrator'.replaced = Newest,
         UNCHANGED <<authority, upLink, downLink, harness, up, down, reported, socket, toWorker,
                     fromWorker>>
  PROVE  C8Inv'
<1>1. Newest \in 0..MaxWorkers /\ \A v \in Pids : Unborn(v) <=> v > Newest
  BY NewestIs
<1>2. WorkerTypes'
  BY DEF Types, WorkerTypes
<1>3. \A v \in Pids : /\ process'[v] = "unborn" <=> process[v] = "unborn"
                      /\ process'[v] \in {"started", "connected", "serving"} => process'[v] = process[v]
  BY DEF Alive
<1>4. PidsInOrder'
  <2>1. \E n \in 0..MaxWorkers : \A v \in Pids : process'[v] = "unborn" <=> v > n
    BY <1>3 DEF ProcessInv, PidsInOrder, Unborn
  <2>2. \A v, w \in Pids : process'[w] \in {"started", "connected", "serving"} /\ v > w =>
          process'[v] = "unborn"
    BY <1>3 DEF ProcessInv, PidsInOrder, Unborn, Alive
  <2>3. orchestrator'.phase = "restarting" =>
          \A v \in Pids : orchestrator'.replaced # None /\ v > orchestrator'.replaced =>
            process'[v] = "unborn"
    BY <1>1, <1>3 DEF ProcessInv, PidsInOrder, Unborn
  <2> QED
    BY <2>1, <2>2, <2>3 DEF PidsInOrder, Unborn, Alive
<1>5. ConnectionsFirst'
  <2> SUFFICES ASSUME NEW v \in Pids
               PROVE  /\ process'[v] \in {"unborn", "started"} => socket[v] = "none"
                      /\ process'[v] \in {"unborn", "started", "connected"} \/ socket[v] = "none" =>
                           fromWorker[v] = << >>
                      /\ process'[v] \in {"connected", "serving"} => socket[v] # "none"
                      /\ \A i \in DOMAIN fromWorker[v] : Registration(fromWorker[v][i]) => i = 1
    BY DEF ConnectionsFirst
  <2> QED
    BY DEF ProcessInv, ConnectionsFirst
<1>6. AcceptedInOrder'
  BY DEF ProcessInv, AcceptedInOrder, Accepted
<1>7. WorkersGoOn
  BY DEF WorkersGoOn, Unborn, Ended, Alive
<1> QED
  BY <1>2, <1>4, <1>5, <1>6, <1>7, WorkersMove

LEMMA RestartKeeps ==
  ASSUME Types, LinkInv, ProcessInv, RestartWorker
  PROVE  C8Inv'
<1>1. /\ Newest # 0 /\ orchestrator' = [phase |-> "restarting", replaced |-> Newest]
      /\ process' = [process EXCEPT ![Newest] = IF Alive(Newest) THEN "killed" ELSE @]
      /\ UNCHANGED <<authority, upLink, downLink, harness, up, down, reported, socket, toWorker,
                     fromWorker>>
  BY DEF RestartWorker, harnessVars
<1>2. Newest \in Pids
  BY <1>1, NewestIs, SubstrateAssumption DEF Pids
<1>3. process \in [Pids -> Progress]
  BY DEF Types, WorkerTypes
<1>4. /\ process' \in [Pids -> Progress]
      /\ \A v \in Pids : process'[v] = process[v] \/ (Alive(v) /\ process'[v] = "killed")
  BY <1>1, <1>2, <1>3 DEF Progress
<1>5. OrchestratorTypes' /\ orchestrator'.replaced = Newest
  BY <1>1, <1>2 DEF OrchestratorTypes
<1> QED
  BY <1>1, <1>4, <1>5, KilledKeeps

(* terminate_worker, and an exception in the worker.                       *)
LEMMA WorkerEndsKeeps ==
  ASSUME Types, LinkInv, ProcessInv, NEW w \in Pids,
         TerminateWorker(w) \/ (WorkerFails(w) /\ UNCHANGED orchestrator)
  PROVE  C8Inv'
<1>1. /\ UNCHANGED <<orchestrator, authority, upLink, downLink, harness, up, down, reported, socket,
                     toWorker, fromWorker>>
      /\ Alive(w) /\ process' = [process EXCEPT ![w] = "killed"]
  BY DEF TerminateWorker, WorkerFails, harnessVars, Alive
<1>2. process \in [Pids -> Progress]
  BY DEF Types, WorkerTypes
<1>3. /\ process' \in [Pids -> Progress]
      /\ \A v \in Pids : process'[v] = process[v] \/ (Alive(v) /\ process'[v] = "killed")
  BY <1>1, <1>2 DEF Progress
<1>4. OrchestratorTypes'
  BY <1>1 DEF Types, OrchestratorTypes
<1> QED
  BY <1>1, <1>3, <1>4, KilledKeeps

(* A worker that goes from one stage to the next, and may write.           *)
LEMMA StageKeeps ==
  ASSUME Types, LinkInv, ProcessInv, NEW w \in Pids, Alive(w),
         process' \in [Pids -> Progress], ~Unborn(w)', process'[w] # "started",
         \A v \in Pids : v # w =>
           process'[v] = process[v] /\ fromWorker'[v] = fromWorker[v] /\ socket'[v] = socket[v],
         process[w] = "serving" => process'[w] \in {"serving", "killed", "exited"},
         WorkerTypes', socket'[w] = socket[w] \/ (socket[w] = "none" /\ socket'[w] = "backlog"),
         socket'[w] # "none", process'[w] = "connected" => fromWorker'[w] = << >>,
         \A i \in DOMAIN fromWorker'[w] : Registration(fromWorker'[w][i]) => i = 1,
         process[w] = "serving" /\ ~Registers(fromWorker[w]) => ~Registers(fromWorker'[w]),
         fromWorker[w] # << >> => fromWorker'[w] # << >>,
         UNCHANGED <<orchestrator, authority, upLink, downLink, harness, up, down, reported>>
  PROVE  C8Inv'
<1>1. \A v \in Pids : process'[v] = "unborn" <=> process[v] = "unborn"
  BY DEF Unborn, Alive
<1>2. PidsInOrder'
  <2>1. \E n \in 0..MaxWorkers : \A v \in Pids : process'[v] = "unborn" <=> v > n
    BY <1>1 DEF ProcessInv, PidsInOrder, Unborn
  <2>2. \A v \in Pids : process'[v] \in {"started", "connected", "serving"} => Alive(v)
    BY DEF Alive
  <2>3. \A v, u \in Pids : process'[u] \in {"started", "connected", "serving"} /\ v > u =>
          process'[v] = "unborn"
    BY <1>1, <2>2 DEF ProcessInv, PidsInOrder, Unborn
  <2>4. orchestrator'.phase = "restarting" =>
          \A v \in Pids : orchestrator'.replaced # None /\ v > orchestrator'.replaced =>
            process'[v] = "unborn"
    BY <1>1 DEF ProcessInv, PidsInOrder, Unborn
  <2> QED
    BY <2>1, <2>3, <2>4 DEF PidsInOrder, Unborn, Alive
<1>3. ConnectionsFirst'
  <2> SUFFICES ASSUME NEW v \in Pids
               PROVE  /\ process'[v] \in {"unborn", "started"} => socket'[v] = "none"
                      /\ process'[v] \in {"unborn", "started", "connected"} \/ socket'[v] = "none" =>
                           fromWorker'[v] = << >>
                      /\ process'[v] \in {"connected", "serving"} => socket'[v] # "none"
                      /\ \A i \in DOMAIN fromWorker'[v] : Registration(fromWorker'[v][i]) => i = 1
    BY DEF ConnectionsFirst
  <2>1. CASE v = w
    BY <2>1 DEF Unborn
  <2>2. CASE v # w
    BY <2>2 DEF ProcessInv, ConnectionsFirst
  <2> QED
    BY <2>1, <2>2
<1>4. AcceptedInOrder'
  <2>1. \A v \in Pids : Accepted(v)' <=> Accepted(v)
    BY DEF Accepted
  <2>2. \A v \in Pids : socket'[v] = "open" <=> socket[v] = "open"
    OBVIOUS
  <2>3. \A v \in Pids : Accepted(v) /\ v # w => v < w
    <3> SUFFICES ASSUME NEW v \in Pids, Accepted(v), v # w PROVE v < w
      OBVIOUS
    <3>1. ~Unborn(v)
      BY DEF ProcessInv, ConnectionsFirst, Unborn, Accepted
    <3>2. ~(v > w)
      BY <3>1 DEF ProcessInv, PidsInOrder
    <3> QED
      BY <3>2 DEF Pids
  <2>4. ASSUME NEW v \in Pids, NEW u \in Pids, Accepted(v), socket'[u] = "backlog" PROVE v < u
    <3>1. CASE u = w
      <4>1. v # w
        BY <2>4, <3>1 DEF Accepted
      <4> QED
        BY <2>3, <2>4, <3>1, <4>1
    <3>2. CASE u # w
      BY <2>4, <3>2 DEF ProcessInv, AcceptedInOrder
    <3> QED
      BY <3>1, <3>2
  <2> QED
    BY <2>1, <2>2, <2>4 DEF ProcessInv, AcceptedInOrder
<1>5. WorkersGoOn
  <2> SUFFICES ASSUME NEW v \in Pids
               PROVE  /\ process'[v] = "unborn" => Unborn(v)
                      /\ Ended(v) => process'[v] \in {"killed", "exited"}
                      /\ process[v] = "serving" => process'[v] \in {"serving", "killed", "exited"}
                      /\ process[v] \in {"serving", "killed", "exited"} /\ ~Registers(fromWorker[v]) =>
                           ~Registers(fromWorker'[v])
                      /\ fromWorker[v] # << >> => fromWorker'[v] # << >>
    BY DEF WorkersGoOn
  <2>1. CASE v = w
    BY <2>1 DEF Alive, Unborn, Ended
  <2>2. CASE v # w
    BY <2>2 DEF Unborn, Ended
  <2> QED
    BY <2>1, <2>2
<1>6. OrchestratorTypes' /\ \A v \in Pids : socket'[v] = socket[v] \/ socket[v] = "none"
  BY DEF Types, OrchestratorTypes
<1> QED
  BY <1>2, <1>3, <1>4, <1>5, <1>6, WorkersMove

LEMMA WorkerConnectKeeps ==
  ASSUME Types, LinkInv, ProcessInv, NEW w \in Pids, WorkerConnect(w), UNCHANGED orchestrator
  PROVE  C8Inv'
<1>1. /\ process[w] = "started" /\ process' = [process EXCEPT ![w] = "connected"]
      /\ socket' = [socket EXCEPT ![w] = "backlog"]
      /\ UNCHANGED <<authority, upLink, downLink, harness, up, down, reported, toWorker, fromWorker>>
  BY DEF WorkerConnect, harnessVars
<1>2. socket[w] = "none" /\ fromWorker[w] = << >>
  BY <1>1 DEF ProcessInv, ConnectionsFirst
<1>3. process \in [Pids -> Progress] /\ socket \in [Pids -> {"none", "backlog", "open", "closed"}]
  BY DEF Types, WorkerTypes
<1>4. /\ process' \in [Pids -> Progress] /\ process'[w] = "connected"
      /\ socket' \in [Pids -> {"none", "backlog", "open", "closed"}] /\ socket'[w] = "backlog"
      /\ \A v \in Pids : v # w =>
           process'[v] = process[v] /\ fromWorker'[v] = fromWorker[v] /\ socket'[v] = socket[v]
  BY <1>1, <1>3 DEF Progress
<1>5. WorkerTypes'
  BY <1>1, <1>4 DEF Types, WorkerTypes
<1>6. \A i \in DOMAIN fromWorker'[w] : Registration(fromWorker'[w][i]) => i = 1
  BY <1>1, <1>2
<1> QED
  BY <1>1, <1>2, <1>4, <1>5, <1>6, StageKeeps DEF Alive, Unborn

(* What a worker writes comes behind what it wrote before.                 *)
Behind(w, m) ==
  /\ fromWorker' \in [Pids -> Seq(WorkerFrames)]
  /\ \A v \in Pids : v # w => fromWorker'[v] = fromWorker[v]
  /\ \A v \in Pids : \A i \in DOMAIN fromWorker'[v] : fromWorker'[v][i].pid = v
  /\ fromWorker'[w] # << >>
  /\ \A i \in DOMAIN fromWorker'[w] :
       \/ i \in DOMAIN fromWorker[w] /\ fromWorker'[w][i] = fromWorker[w][i]
       \/ i = Len(fromWorker[w]) + 1 /\ fromWorker'[w][i] = m

LEMMA WorkerWrites ==
  ASSUME Types, NEW w \in Pids, NEW m \in WorkerFrames, m.pid = w,
         fromWorker' = [fromWorker EXCEPT ![w] = Append(fromWorker[w], m)]
  PROVE  Behind(w, m)
<1>1. /\ fromWorker \in [Pids -> Seq(WorkerFrames)] /\ fromWorker[w] \in Seq(WorkerFrames)
      /\ \A v \in Pids : \A i \in DOMAIN fromWorker[v] : fromWorker[v][i].pid = v
  BY DEF Types, WorkerTypes
<1>2. ASSUME NEW s \in Seq(WorkerFrames)
      PROVE  /\ Append(s, m) \in Seq(WorkerFrames) /\ Append(s, m) # << >>
             /\ \A i \in DOMAIN Append(s, m) :
                  \/ i \in DOMAIN s /\ Append(s, m)[i] = s[i]
                  \/ i = Len(s) + 1 /\ Append(s, m)[i] = m
  <2>1. /\ Append(s, m) \in Seq(WorkerFrames) /\ DOMAIN Append(s, m) = 1..Len(s) + 1
        /\ DOMAIN s = 1..Len(s) /\ Len(s) \in Nat /\ Append(s, m)[Len(s) + 1] = m
        /\ \A i \in 1..Len(s) : Append(s, m)[i] = s[i]
    OBVIOUS
  <2>2. Append(s, m) # << >>
    <3>1. Len(Append(s, m)) = Len(s) + 1 /\ Len(s) + 1 # 0
      OBVIOUS
    <3>2. Len(<< >>) = 0
      OBVIOUS
    <3> QED
      BY <3>1, <3>2
  <2> QED
    BY <2>1, <2>2
<1> DEFINE longer == Append(fromWorker[w], m)
<1>3. /\ longer \in Seq(WorkerFrames) /\ longer # << >>
      /\ \A i \in DOMAIN longer :
           \/ i \in DOMAIN fromWorker[w] /\ longer[i] = fromWorker[w][i]
           \/ i = Len(fromWorker[w]) + 1 /\ longer[i] = m
  BY <1>1, <1>2
<1> HIDE DEF longer
<1>4. /\ fromWorker' \in [Pids -> Seq(WorkerFrames)] /\ fromWorker'[w] = longer
      /\ \A v \in Pids : v # w => fromWorker'[v] = fromWorker[v]
  BY <1>1, <1>3 DEF longer
<1>5. \A v \in Pids : \A i \in DOMAIN fromWorker'[v] : fromWorker'[v][i].pid = v
  <2> SUFFICES ASSUME NEW v \in Pids, NEW i \in DOMAIN fromWorker'[v] PROVE fromWorker'[v][i].pid = v
    OBVIOUS
  <2>1. CASE v # w
    BY <1>1, <1>4, <2>1
  <2>2. CASE v = w
    BY <1>1, <1>3, <1>4, <2>2
  <2> QED
    BY <2>1, <2>2
<1> QED
  BY <1>3, <1>4, <1>5 DEF Behind

LEMMA WorkerRegisterKeeps ==
  ASSUME Types, LinkInv, ProcessInv, NEW w \in Pids, WorkerRegister(w), UNCHANGED orchestrator
  PROVE  C8Inv'
<1> DEFINE m == Frame("REGISTER", w)
<1>1. /\ process[w] = "connected" /\ process' = [process EXCEPT ![w] = "serving"]
      /\ fromWorker' = [fromWorker EXCEPT ![w] = Append(fromWorker[w], m)]
      /\ UNCHANGED <<authority, upLink, downLink, harness, up, down, reported, socket, toWorker>>
  BY DEF WorkerRegister, harnessVars
<1>2. fromWorker[w] = << >> /\ socket[w] # "none"
  BY <1>1 DEF ProcessInv, ConnectionsFirst
<1>3. m \in WorkerFrames /\ m.pid = w
  BY DEF Frame, WorkerFrames, FromWorker, Works
<1> HIDE DEF m
<1>4. Behind(w, m)
  BY <1>1, <1>3, WorkerWrites
<1>5. process \in [Pids -> Progress]
  BY DEF Types, WorkerTypes
<1>6. /\ process' \in [Pids -> Progress] /\ process'[w] = "serving"
      /\ \A v \in Pids : v # w =>
           process'[v] = process[v] /\ fromWorker'[v] = fromWorker[v] /\ socket'[v] = socket[v]
  BY <1>1, <1>4, <1>5 DEF Progress, Behind
<1>7. WorkerTypes'
  BY <1>1, <1>4, <1>6 DEF Types, WorkerTypes, Behind
<1>8. fromWorker'[w] # << >> /\ \A i \in DOMAIN fromWorker'[w] : i = 1
  BY <1>2, <1>4 DEF Behind
<1>9. Alive(w) /\ ~Unborn(w)'
  BY <1>1, <1>6 DEF Alive, Unborn
<1> QED
  BY <1>1, <1>2, <1>6, <1>7, <1>8, <1>9, StageKeeps

LEMMA WorkerReceiveKeeps ==
  ASSUME Types, LinkInv, ProcessInv, NEW w \in Pids, WorkerReceive(w), UNCHANGED orchestrator
  PROVE  C8Inv'
<1> DEFINE m == Head(toWorker[w])
           completion == WorkFrame("COMPLETE", w, m.work)
           acknowledgement == Frame("SHUTDOWN_ACK", w)
<1>1. /\ process[w] = "serving" /\ toWorker[w] # << >>
      /\ process' = [process EXCEPT ![w] = IF m.kind = "SHUTDOWN" THEN "exited" ELSE @]
      /\ toWorker' = [toWorker EXCEPT ![w] = Tail(toWorker[w])]
      /\ \/ fromWorker' = [fromWorker EXCEPT ![w] = Append(fromWorker[w], completion)]
         \/ fromWorker' = [fromWorker EXCEPT ![w] = Append(fromWorker[w], acknowledgement)]
         \/ fromWorker' = fromWorker
      /\ UNCHANGED <<authority, upLink, downLink, harness, up, down, reported, socket>>
  <2>1. fromWorker = [fromWorker EXCEPT ![w] = fromWorker[w]]
    BY DEF Types, WorkerTypes
  <2> QED
    BY <2>1 DEF WorkerReceive, harnessVars
<1>2. socket[w] # "none" /\ \A i \in DOMAIN fromWorker[w] : Registration(fromWorker[w][i]) => i = 1
  BY <1>1 DEF ProcessInv, ConnectionsFirst
<1>3. /\ toWorker \in [Pids -> Seq(DownFrames)] /\ process \in [Pids -> Progress]
      /\ fromWorker \in [Pids -> Seq(WorkerFrames)]
      /\ \A v \in Pids : \A i \in DOMAIN fromWorker[v] : fromWorker[v][i].pid = v
  BY DEF Types, WorkerTypes
<1>4. m \in DownFrames /\ Tail(toWorker[w]) \in Seq(DownFrames)
  <2>1. toWorker[w] \in Seq(DownFrames)
    BY <1>3
  <2> QED
    BY <1>1, <2>1, Shifted
<1>5. /\ completion \in WorkerFrames /\ acknowledgement \in WorkerFrames
      /\ completion.pid = w /\ acknowledgement.pid = w
      /\ ~Registration(completion) /\ ~Registration(acknowledgement)
  BY <1>4 DEF Frame, WorkFrame, DownFrames, WorkerFrames, FromWorker, Works, Registration
<1> HIDE DEF m, completion, acknowledgement
<1>6. /\ fromWorker' \in [Pids -> Seq(WorkerFrames)]
      /\ \A v \in Pids : v # w => fromWorker'[v] = fromWorker[v]
      /\ \A v \in Pids : \A i \in DOMAIN fromWorker'[v] : fromWorker'[v][i].pid = v
      /\ fromWorker[w] # << >> => fromWorker'[w] # << >>
      /\ \A i \in DOMAIN fromWorker'[w] : Registration(fromWorker'[w][i]) =>
           i \in DOMAIN fromWorker[w] /\ fromWorker'[w][i] = fromWorker[w][i]
  <2>1. CASE Behind(w, completion)
    BY <1>5, <2>1 DEF Behind
  <2>2. CASE Behind(w, acknowledgement)
    BY <1>5, <2>2 DEF Behind
  <2>3. CASE fromWorker' = fromWorker
    BY <1>3, <2>3
  <2>4. Behind(w, completion) \/ Behind(w, acknowledgement) \/ fromWorker' = fromWorker
    BY <1>1, <1>5, WorkerWrites
  <2> QED
    BY <2>1, <2>2, <2>3, <2>4
<1>7. /\ process' \in [Pids -> Progress] /\ process'[w] \in {"serving", "exited"}
      /\ \A v \in Pids : v # w =>
           process'[v] = process[v] /\ fromWorker'[v] = fromWorker[v] /\ socket'[v] = socket[v]
  BY <1>1, <1>3, <1>6 DEF Progress
<1>8. WorkerTypes'
  <2>1. toWorker' \in [Pids -> Seq(DownFrames)]
    BY <1>1, <1>3, <1>4
  <2> QED
    BY <1>1, <1>6, <1>7, <2>1 DEF Types, WorkerTypes
<1>9. \A i \in DOMAIN fromWorker'[w] : Registration(fromWorker'[w][i]) => i = 1
  BY <1>2, <1>6
<1>10. ~Registers(fromWorker[w]) => ~Registers(fromWorker'[w])
  BY <1>6 DEF Registers
<1>11. process'[w] # "connected" /\ process'[w] # "started" /\ ~Unborn(w)' /\ Alive(w) /\ socket'[w] # "none"
       /\ socket'[w] = socket[w] /\ process'[w] \in {"serving", "killed", "exited"}
  BY <1>1, <1>2, <1>7 DEF Unborn, Alive
<1> QED
  BY <1>1, <1>6, <1>7, <1>8, <1>9, <1>10, <1>11, StageKeeps

---------------------------------------------------------------------------
(* The steps of the authority, and the end of a restart that fails.        *)
LEMMA AuthorityMoves ==
  ASSUME Types, ProcessInv, LinkInv', authority' \in Authorities,
         upLink' \in Seq(UpFrames), downLink' \in Seq(Answers),
         UNCHANGED <<orchestrator, harnessVars, workerVars>>
  PROVE  C8Inv'
<1>1. UNCHANGED <<orchestrator, harness, up, down, reported, process, socket, toWorker, fromWorker>>
  BY DEF harnessVars, workerVars
<1>2. Types'
  BY <1>1, SMTT(30) DEF Types, AuthorityTypes, Authorities, HarnessTypes, LinkTypes, Answers, WorkerTypes,
              OrchestratorTypes, Schedulers
<1>3. ProcessInv'
  <2>1. PidsInOrder' /\ ConnectionsFirst' /\ AcceptedInOrder'
    BY <1>1 DEF ProcessInv, PidsInOrder, Unborn, Alive, ConnectionsFirst, AcceptedInOrder, Accepted
  <2>2. BatchIsFresh' /\ KnownHaveRegistered' /\ ReportedHaveEnded'
    BY <1>1 DEF ProcessInv, BatchIsFresh, Backlog, Ended, KnownHaveRegistered, ReportedHaveEnded
  <2> QED
    BY <2>1, <2>2 DEF ProcessInv
<1> QED
  BY <1>2, <1>3 DEF C8Inv, ProcessInv, LinkInv

LEMMA AuthorityReceiveKeeps ==
  ASSUME Types, LinkInv, ProcessInv, AuthorityReceive, UNCHANGED orchestrator
  PROVE  C8Inv'
<1>1. /\ authority.alive /\ upLink # << >> /\ AuthorityHandles(Head(upLink))
      /\ upLink' = Tail(upLink) /\ UNCHANGED <<harnessVars, workerVars>>
  BY DEF AuthorityReceive
<1>2. upLink \in Seq(UpFrames)
  BY DEF Types, LinkTypes
<1>3. Head(upLink) \in UpFrames /\ Tail(upLink) \in Seq(UpFrames)
  BY <1>1, <1>2, Shifted
<1>4. Read(Head(upLink))
  BY <1>1, <1>3, AuthorityReads
<1>5. ReportedHaveEnded
  BY DEF ProcessInv
<1>6. LinkInv'
  BY <1>1, <1>4, <1>5, LinkRead
<1> QED
  BY <1>1, <1>3, <1>4, <1>6, AuthorityMoves DEF Read

LEMMA AuthorityNotesKeeps ==
  ASSUME Types, LinkInv, ProcessInv, AuthorityNotes, UNCHANGED orchestrator
  PROVE  C8Inv'
<1>1. /\ authority.alive /\ upLink # << >> /\ Head(upLink).kind = "PROCESS_FAILURE"
      /\ authority' = [authority EXCEPT !.logged = TRUE, !.noted = TRUE]
      /\ UNCHANGED <<upLink, downLink, harnessVars, workerVars>>
  BY DEF AuthorityNotes
<1>2. /\ authority' \in Authorities /\ authority'.current = authority.current
      /\ authority'.alive = authority.alive /\ authority'.noted
  BY <1>1 DEF Types, AuthorityTypes, Authorities
<1>3. upLink \in Seq(UpFrames) /\ downLink \in Seq(Answers)
  BY DEF Types, LinkTypes, Answers
<1>4. 1 \in DOMAIN upLink /\ upLink[1] = Head(upLink) /\ Head(upLink) \in UpFrames
  BY <1>1, <1>3, Shifted
<1>5. PICK w \in Pids : upLink[1] = Failure(w)
  BY <1>1, <1>4 DEF UpFrames, WorkerFrames, FromWorker, Failure, Frame
<1>6. UNCHANGED <<up, reported, process, socket>>
  BY <1>1 DEF harnessVars, workerVars
<1>7. ReportedHaveEnded
  BY DEF ProcessInv
<1>8. LinkInv'
  BY <1>1, <1>2, <1>4, <1>5, <1>6, <1>7, LinkNoted
<1> QED
  BY <1>1, <1>2, <1>3, <1>8, AuthorityMoves

LEMMA AuthorityEndsKeeps ==
  ASSUME Types, LinkInv, ProcessInv, (AuthorityLeaves /\ UNCHANGED orchestrator) \/ StopAuthority
  PROVE  C8Inv'
<1>1. /\ authority' = [authority EXCEPT !.alive = FALSE]
      /\ UNCHANGED <<orchestrator, upLink, downLink, harnessVars, workerVars>>
  BY DEF AuthorityLeaves, StopAuthority
<1>2. /\ authority' \in Authorities /\ authority'.current = authority.current
      /\ authority'.logged = authority.logged /\ authority'.noted = authority.noted
      /\ ~authority'.alive
  BY <1>1 DEF Types, AuthorityTypes, Authorities
<1>3. UNCHANGED <<up, reported, process, socket>>
  BY <1>1 DEF harnessVars, workerVars
<1>4. upLink' \in Seq(UpFrames) /\ downLink' \in Seq(Answers)
  BY <1>1 DEF Types, LinkTypes, Answers
<1>5. LinkInv'
  BY <1>1, <1>2, <1>3, LinkUntouched DEF Accepted
<1> QED
  BY <1>1, <1>2, <1>4, <1>5, AuthorityMoves

LEMMA RestartFailsKeeps ==
  ASSUME Types, LinkInv, ProcessInv, RestartFails
  PROVE  C8Inv'
<1>1. /\ orchestrator' = [orchestrator EXCEPT !.phase = "failed"]
      /\ UNCHANGED <<authority, upLink, downLink, harness, up, down, process, socket, toWorker,
                     fromWorker, reported>>
  BY DEF RestartFails, substrateVars
<1>2. OrchestratorTypes' /\ orchestrator'.phase = "failed"
  BY <1>1 DEF Types, OrchestratorTypes
<1>3. process' \in [Pids -> Progress]
  BY <1>1 DEF Types, WorkerTypes
<1> QED
  BY <1>1, <1>2, <1>3, KilledKeeps

---------------------------------------------------------------------------
LEMMA C8Initially == Init => C8Inv
<1> SUFFICES ASSUME Init PROVE C8Inv
  OBVIOUS
<1>1. PICK plan \in Plans :
       /\ authority = [alive |-> TRUE, registered |-> FALSE, current |-> None, generation |-> 0,
                       shutdown |-> plan.shutdown, logged |-> FALSE, noted |-> FALSE]
       /\ up = [kind \in DOMAIN plan.up |-> NewScheduler(plan.up[kind])]
       /\ down = [kind \in DOMAIN plan.down |-> NewScheduler(plan.down[kind])]
  BY DEF Init
<1>2. /\ plan.shutdown \in BOOLEAN
      /\ \A kind \in DOMAIN plan.up : plan.up[kind] \in Seq(DeliveryAction)
      /\ \A kind \in DOMAIN plan.down : plan.down[kind] \in Seq(DeliveryAction)
  BY SubstrateAssumption
<1>3. ASSUME NEW F, NEW script \in Seq(DeliveryAction)
      PROVE  /\ NewScheduler(script) \in Scheduler(F) /\ NewScheduler(script).script = script
             /\ NewScheduler(script).late = << >> /\ NewScheduler(script).delayed = << >>
             /\ NewScheduler(script).held = None
  <2>1. << >> \in Seq(F)
    OBVIOUS
  <2> QED
    BY <2>1 DEF NewScheduler, Scheduler
<1>4. Schedulers(up, WorkerFrames) /\ Schedulers(down, DownFrames)
  BY <1>1, <1>2, <1>3 DEF Schedulers
<1>5. "REGISTER" \in DOMAIN up =>
        /\ "REGISTER" \in DOMAIN plan.up /\ up["REGISTER"] \in Scheduler(AcceptedRegistrations)
        /\ up["REGISTER"].script = plan.up["REGISTER"]
        /\ up["REGISTER"].late = << >> /\ up["REGISTER"].delayed = << >> /\ up["REGISTER"].held = None
  BY <1>1, <1>2, <1>3
<1>6. /\ orchestrator = [phase |-> "starting", replaced |-> None]
      /\ upLink = <<Frame("HARNESS_REGISTER", None)>> /\ downLink = << >>
      /\ harness = [status |-> "running", worker |-> None, pid |-> None,
                    shutdownExpected |-> FALSE, batch |-> << >>]
      /\ process = [w \in Pids |-> "unborn"] /\ socket = [w \in Pids |-> "none"]
      /\ toWorker = [w \in Pids |-> << >>] /\ fromWorker = [w \in Pids |-> << >>]
      /\ reported = {}
  BY DEF Init
<1>7. Types
  <2>1. AuthorityTypes
    BY <1>1, <1>2 DEF AuthorityTypes
  <2>2. HarnessTypes
    BY <1>4, <1>6 DEF HarnessTypes
  <2>3. LinkTypes
    BY <1>6 DEF LinkTypes, UpFrames
  <2>4. WorkerTypes
    BY <1>6 DEF WorkerTypes, Progress
  <2>5. OrchestratorTypes
    BY <1>6 DEF OrchestratorTypes
  <2> QED
    BY <2>1, <2>2, <2>3, <2>4, <2>5 DEF Types
<1>8. ProcessInv
  <2>1. PidsInOrder
    <3>1. 0 \in 0..MaxWorkers /\ \A v \in Pids : v > 0
      BY SubstrateAssumption DEF Pids
    <3> QED
      BY <1>6, <3>1 DEF PidsInOrder, Unborn, Alive
  <2>2. ConnectionsFirst /\ AcceptedInOrder
    BY <1>6, NoneIsNoPid DEF ConnectionsFirst, AcceptedInOrder, Accepted
  <2>3. BatchIsFresh /\ KnownHaveRegistered /\ ReportedHaveEnded
    BY <1>6 DEF BatchIsFresh, KnownHaveRegistered, ReportedHaveEnded
  <2> QED
    BY <2>1, <2>2, <2>3 DEF ProcessInv
<1>9. LinkInv
  <2>1. /\ DOMAIN upLink = {1} /\ ~Registration(upLink[1])
        /\ \A w \in Pids : upLink[1] # Failure(w)
    BY <1>6 DEF Registration, Failure, Frame
  <2>2. authority.current = None /\ ~authority.logged /\ ~authority.noted
    BY <1>1
  <2>3. FailuresOnce /\ FailureComesLast
    BY <1>6, <2>1 DEF FailuresOnce, FailureComesLast
  <2>4. RegistrationsOrderly
    BY <1>5 DEF RegistrationsOrderly, OrderlyPlans
  <2>5. RegisteredAreAccepted
    BY <1>5, <2>1, <2>2 DEF RegisteredAreAccepted
  <2>6. Late(up, "REGISTER") = << >>
    BY <1>5 DEF Late
  <2>7. RegistrationsInOrder
    BY <2>1, <2>2, <2>6 DEF RegistrationsInOrder
  <2>8. NotedIsNext /\ FirstIsForgotten
    BY <2>2 DEF NotedIsNext, FirstIsForgotten
  <2> QED
    BY <2>3, <2>4, <2>5, <2>7, <2>8 DEF LinkInv
<1> QED
  BY <1>7, <1>8, <1>9 DEF C8Inv, ProcessInv, LinkInv

LEMMA C8Step == C8Inv /\ [Next]_vars => C8Inv'
<1> SUFFICES ASSUME C8Inv, [Next]_vars PROVE C8Inv'
  OBVIOUS
<1>1. Types /\ LinkInv /\ ProcessInv
  BY DEF C8Inv, LinkInv, ProcessInv
<1>2. ASSUME NEW w \in Pids, StartWorker(w) \/ RestartContinues(w) PROVE C8Inv'
  BY <1>1, <1>2, LaunchKeeps DEF StartWorker, RestartContinues
<1>3. ASSUME NEW w \in Pids, TerminateWorker(w) PROVE C8Inv'
  BY <1>1, <1>3, WorkerEndsKeeps
<1>4. CASE RestartWorker
  BY <1>1, <1>4, RestartKeeps
<1>5. CASE RestartFails
  BY <1>1, <1>5, RestartFailsKeeps
<1>6. CASE StopHarness
  <2>1. "stopped" \in Statuses
    BY DEF Statuses
  <2>2. /\ harness' = [harness EXCEPT !.status = "stopped"]
        /\ orchestrator' = [orchestrator EXCEPT !.phase = "stopped"]
        /\ UNCHANGED <<authority, upLink, downLink, up, down, reported, workerVars>>
    BY <1>6 DEF StopHarness
  <2> QED
    BY <1>1, <2>1, <2>2, HarnessEnds
<1>7. CASE StopAuthority
  BY <1>1, <1>7, AuthorityEndsKeeps
<1>8. ASSUME NEW w \in Pids, WorkerStep(w), UNCHANGED orchestrator PROVE C8Inv'
  BY <1>1, <1>8, WorkerConnectKeeps, WorkerRegisterKeeps, WorkerReceiveKeeps, WorkerEndsKeeps
  DEF WorkerStep
<1>9. CASE AuthorityStep /\ UNCHANGED orchestrator
  BY <1>1, <1>9, AuthorityNotesKeeps, AuthorityReceiveKeeps, AuthorityEndsKeeps DEF AuthorityStep
<1>10. CASE HarnessStep /\ UNCHANGED orchestrator
  <2>1. CASE Select
    BY <1>1, <1>10, <2>1, SelectKeeps
  <2>2. CASE HandleListener
    BY <1>1, <1>10, <2>2, HandleListenerKeeps
  <2>3. CASE HandleAuthority
    BY <1>1, <1>10, <2>3, HandleAuthorityKeeps
  <2>4. CASE HandleWorker
    BY <1>1, <1>10, <2>4, HandleWorkerKeeps
  <2>5. CASE WorkerGone
    BY <1>1, <1>10, <2>5, WorkerGoneKeeps
  <2>6. CASE AuthorityGone \/ AssertionFails
    <3>1. PICK status \in Statuses : harness' = [harness EXCEPT !.status = status]
      BY <2>6 DEF AuthorityGone, AssertionFails, Statuses
    <3>2. UNCHANGED <<authority, upLink, downLink, up, down, reported, workerVars>>
      BY <2>6 DEF AuthorityGone, AssertionFails
    <3> QED
      BY <1>1, <1>10, <3>1, <3>2, HarnessEnds
  <2>7. CASE FlushUp
    BY <1>1, <1>10, <2>7, FlushUpKeeps
  <2>8. ASSUME NEW kind \in ToWorker, FlushDown(kind) PROVE C8Inv'
    BY <1>1, <1>10, <2>8, FlushDownKeeps
  <2> QED
    BY <1>10, <2>1, <2>2, <2>3, <2>4, <2>5, <2>6, <2>7, <2>8 DEF HarnessStep
<1>11. CASE UNCHANGED vars
  <2>1. /\ process' \in [Pids -> Progress] /\ OrchestratorTypes'
        /\ UNCHANGED <<orchestrator, authority, upLink, downLink, harness, up, down, process, socket,
                       toWorker, fromWorker, reported>>
    BY <1>1, <1>11 DEF vars, substrateVars, Types, WorkerTypes, OrchestratorTypes
  <2> QED
    BY <1>1, <2>1, KilledKeeps
<1> QED
  BY <1>2, <1>3, <1>4, <1>5, <1>6, <1>7, <1>8, <1>9, <1>10, <1>11 DEF Next, OrchestratorStep

(* C8Inv holds for every number of workers, every plan of faults and every *)
(* process that may lose its patience.                                     *)
THEOREM C8Invariant == Spec => []C8Inv
<1> QED
  BY C8Initially, C8Step, PTL DEF Spec

(* The frames on a link are frames of the protocol.                        *)
LEMMA FramesAre ==
  ASSUME NEW m \in UpFrames \cup DownFrames \cup {Frame("HARNESS_REGISTERED", None)}
  PROVE  IsFrame(m)
BY DEF IsFrame, UpFrames, DownFrames, WorkerFrames, Failure, Frame

LEMMA C8Types == C8Inv => C8TypeOK
<1> SUFFICES ASSUME C8Inv PROVE C8TypeOK
  OBVIOUS
<1>1. Types /\ AcceptedInOrder
  BY DEF C8Inv
<1>2. /\ \A i \in DOMAIN upLink : upLink[i] \in UpFrames
      /\ \A i \in DOMAIN downLink : downLink[i] \in DownFrames \cup {Frame("HARNESS_REGISTERED", None)}
  BY <1>1 DEF Types, LinkTypes
<1>3. \A i \in DOMAIN upLink : IsFrame(upLink[i])
  BY <1>2, FramesAre
<1>4. \A i \in DOMAIN downLink : IsFrame(downLink[i])
  BY <1>2, FramesAre
<1>5. \A w \in Pids : \A i \in DOMAIN toWorker[w] : toWorker[w][i].kind \in ToWorker
  <2> SUFFICES ASSUME NEW w \in Pids, NEW i \in DOMAIN toWorker[w] PROVE toWorker[w][i].kind \in ToWorker
    OBVIOUS
  <2>1. toWorker[w] \in Seq(DownFrames)
    BY <1>1 DEF Types, WorkerTypes
  <2>2. toWorker[w][i] \in DownFrames
    BY <2>1
  <2> QED
    BY <2>2 DEF DownFrames
<1>6. \A w \in Pids : socket[w] = "open" => harness.worker = w
  BY <1>1 DEF AcceptedInOrder
<1>7. /\ authority.current \in Pids \cup {None} /\ authority.generation \in Nat
      /\ harness.status \in {"running", "stopped", "exited", "crashed", "assertion"}
      /\ harness.worker \in Pids \cup {None} /\ harness.pid \in {harness.worker, None}
      /\ process \in [Pids -> Progress] /\ socket \in [Pids -> {"none", "backlog", "open", "closed"}]
  BY <1>1 DEF Types, AuthorityTypes, HarnessTypes, WorkerTypes
<1> QED
  BY <1>3, <1>4, <1>5, <1>6, <1>7 DEF C8TypeOK

(* The type invariant of the three processes, their sockets and frames.    *)
THEOREM C8TypeCorrect == Spec => []C8TypeOK
<1> QED
  BY C8Invariant, C8Types, PTL

(* The harness reports a failure only for a process that has ended: a      *)
(* worker that lives and keeps its socket is never declared failed.        *)
THEOREM ReportsAreTrue == Spec => []FailureReportsAreTrue
<1>1. C8Inv => FailureReportsAreTrue
  BY C8Types DEF C8Inv, ReportedHaveEnded, FailureReportsAreTrue
<1> QED
  BY <1>1, C8Invariant, PTL

(* Without a rule for REGISTER, the authority that has read the failure    *)
(* report of a worker does not take it for the current one again.          *)
THEOREM ReportedStaysForgotten == Spec => []ReportedIsForgotten
<1>1. C8Inv => ReportedIsForgotten
  BY DEF C8Inv, FailureComesLast, Settled, Failure, ReportedIsForgotten
<1> QED
  BY <1>1, C8Invariant, PTL

(* Only a frame that the authority reads changes its current worker.       *)
LEMMA CurrentIsRead ==
  ASSUME Types, [Next]_vars
  PROVE  authority'.current = authority.current \/ AuthorityReceive
<1>1. ASSUME authority' = [authority EXCEPT !.alive = FALSE] PROVE authority'.current = authority.current
  BY <1>1 DEF Types, AuthorityTypes
<1>2. CASE OrchestratorStep
  BY <1>1, <1>2 DEF OrchestratorStep, StartWorker, TerminateWorker, RestartContinues, Launch,
                    RestartWorker, RestartFails, StopHarness, StopAuthority, substrateVars
<1>3. ASSUME NEW w \in Pids, WorkerStep(w) PROVE authority' = authority
  BY <1>3 DEF WorkerStep, WorkerConnect, WorkerRegister, WorkerReceive, WorkerFails
<1>4. CASE AuthorityStep
  <2>1. AuthorityNotes => authority'.current = authority.current
    BY DEF AuthorityNotes, Types, AuthorityTypes
  <2> QED
    BY <1>1, <1>4, <2>1 DEF AuthorityStep, AuthorityLeaves
<1>5. CASE HarnessStep
  <2>1. authority' = authority
    BY <1>5 DEF HarnessStep, Select, HandleListener, HandleAuthority, AuthorityGone, HandleWorker,
                WorkerGone, AssertionFails, FlushUp, FlushDown
  <2> QED
    BY <2>1
<1>6. CASE UNCHANGED vars
  BY <1>6 DEF vars, substrateVars
<1> QED
  BY <1>2, <1>3, <1>4, <1>5, <1>6 DEF Next

(* Where no rule delays or reorders registrations, workers succeed one     *)
(* another in order, and the first is replaced only when the authority has *)
(* forgotten it, or has logged its failure and forgets it next.            *)
THEOREM SuccessionHolds ==
  ASSUME OrderlyPlans
  PROVE  Spec => WorkersSucceedInOrder
<1>1. ASSUME C8Inv, [Next]_vars PROVE CurrentGoesForward
  <2>1. Types /\ RegistrationsInOrder
    BY <1>1 DEF C8Inv
  <2>2. CASE authority'.current = authority.current
    <3>1. authority.current \in Pids \cup {None}
      BY <2>1 DEF Types, AuthorityTypes
    <3> QED
      BY <2>2, <3>1 DEF CurrentGoesForward, Pids
  <2>3. CASE AuthorityReceive
    <3> DEFINE m == Head(upLink)
    <3>1. upLink \in Seq(UpFrames) /\ upLink # << >> /\ AuthorityHandles(m)
      BY <2>1, <2>3 DEF AuthorityReceive, Types, LinkTypes
    <3>2. m = upLink[1] /\ 1 \in DOMAIN upLink /\ m \in UpFrames
      BY <3>1, Shifted
    <3>3. Read(m)
      BY <2>1, <3>1, <3>2, AuthorityReads
    <3> HIDE DEF m
    <3>4. Registration(m) /\ authority.current # None => m.pid >= authority.current
      BY <2>1, <3>2, UpFrameIs DEF RegistrationsInOrder, Types, AuthorityTypes, Pids
    <3> QED
      BY <2>1, <2>2, <3>3, <3>4 DEF Read, CurrentGoesForward, Types, AuthorityTypes, Pids
  <2> QED
    BY <1>1, <2>1, <2>2, <2>3, CurrentIsRead
<1>2. ASSUME C8Inv, [Next]_vars PROVE ReplacedIsForgotten
  <2> SUFFICES ASSUME orchestrator.phase = "restarting", orchestrator'.phase = "running",
                      orchestrator.replaced = 1
               PROVE  authority.current # 1 \/ IsForgetting(1)
    BY DEF ReplacedIsForgotten
  <2>1. orchestrator' # orchestrator
    OBVIOUS
  <2>2. \E w \in Pids : RestartContinues(w)
    <3>1. OrchestratorStep
      BY <1>2, <2>1 DEF Next, vars
    <3>2. orchestrator \in [phase : {"starting", "running", "restarting", "failed", "stopped"},
                            replaced : Pids \cup {None}]
      BY <1>2 DEF C8Inv, Types, OrchestratorTypes
    <3> QED
      BY <3>1, <3>2 DEF OrchestratorStep, StartWorker, TerminateWorker, RestartWorker, RestartFails,
                        StopHarness, StopAuthority
  <2>3. authority.logged
    BY <2>2 DEF RestartContinues, FailureObserved
  <2>4. \A v \in Pids : v > 1 => Unborn(v)
    BY <1>2, SubstrateAssumption DEF C8Inv, PidsInOrder
  <2>5. CASE authority.noted
    <3>1. PICK w \in Pids : 1 \in DOMAIN upLink /\ upLink[1] = Failure(w)
      BY <1>2, <2>5 DEF C8Inv, NotedIsNext
    <3>2. w \in reported /\ ~Unborn(w)
      BY <1>2, <3>1 DEF C8Inv, FailuresOnce, ReportedHaveEnded, Ended, Unborn
    <3>3. w = 1
      BY <2>4, <3>2 DEF Pids
    <3>4. upLink # << >> /\ Head(upLink) = upLink[1]
      BY <1>2, <3>1 DEF C8Inv, Types, LinkTypes
    <3> QED
      BY <2>5, <3>1, <3>3, <3>4 DEF IsForgetting, Failure
  <2> QED
    BY <1>2, <2>3, <2>4, <2>5 DEF C8Inv, FirstIsForgotten
<1> QED
  BY <1>1, <1>2, C8Invariant, PTL DEF Spec, WorkersSucceedInOrder
=============================================================================
