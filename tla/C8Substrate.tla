---------------------------- MODULE C8Substrate ----------------------------
(***************************************************************************)
(* The three processes of the prototype and the sockets between them: the  *)
(* authority (prototype/c8_authority.py), the fault harness every frame    *)
(* passes through (c8_harness.py), the workers (c8_worker.py) and the      *)
(* orchestrator that starts and kills workers (c8_runtime.py).             *)
(*                                                                         *)
(* A worker is named by its pid; pids are handed out in increasing order   *)
(* and never reused (restart_worker refuses a reused one).  Envelopes are  *)
(* valid and whole, so a receive fails only by end of stream, by reset or  *)
(* by the two-second deadline of c8_transport.py.                          *)
(***************************************************************************)
EXTENDS DeliveryScheduler

CONSTANTS
  MaxWorkers,   \* bound: worker processes started in a behaviour
  Plans,        \* what a runtime may be given: up (upstream_faults) and down
                \* (downstream_faults), each a map message kind |-> script, and
                \* shutdown (shutdown_worker_after_completion)
  Impatient     \* the processes whose receive deadline may pass

Pids == 1..MaxWorkers

ASSUME SubstrateAssumption ==
  /\ MaxWorkers \in Nat
  /\ None \notin Nat
  /\ Impatient \subseteq {"authority", "harness", "worker"}
  /\ \A plan \in Plans : plan.shutdown \in BOOLEAN /\ \A scripts \in {plan.up, plan.down} :
       \A kind \in DOMAIN scripts :
         scripts[kind] \in Seq(DeliveryAction) /\ PairedReorders(scripts[kind])

VARIABLES
  orchestrator, \* its phase, and the pid of the worker that a restart replaces
  authority,   \* alive, harness registered, current_worker_pid, worker_generation,
               \* shutdown: it is to shut workers down after their completion,
               \* logged: its log has a PROCESS_FAILURE_OBSERVED, and noted: it has
               \* logged the failure at the head of upLink and not acted on it yet
  upLink,      \* frames from the harness to the authority
  downLink,    \* frames from the authority to the harness
  harness,     \* status, worker (its socket), worker_pid, worker_shutdown_expected, batch
  up,          \* upstream_schedulers
  down,        \* downstream_schedulers
  process,     \* pid |-> how far the worker process has come
  socket,      \* pid |-> "none", "backlog", "open", "closed" (by the harness)
  toWorker,    \* pid |-> frames on its socket
  fromWorker,  \* pid |-> frames on its socket
  reported     \* the pids the harness has sent a PROCESS_FAILURE for

substrateVars == <<authority, upLink, downLink, harness, up, down, process, socket, toWorker,
                   fromWorker, reported>>
vars == <<orchestrator, substrateVars>>
workerVars == <<process, socket, toWorker, fromWorker>>
harnessVars == <<harness, up, down, reported>>

(* A frame: its kind and the worker it is from or about; work is the pid   *)
(* and the generation a WORK was issued for, copied into its COMPLETE.     *)
Frame(kind, pid) == [kind |-> kind, pid |-> pid, work |-> None]
WorkFrame(kind, pid, work) == [kind |-> kind, pid |-> pid, work |-> work]

FromWorker == {"REGISTER", "COMPLETE", "SHUTDOWN_ACK"}
ToWorker == {"REGISTERED", "WORK", "SHUTDOWN"}

(* A worker process is killed by a signal or an exception; it exits after  *)
(* SHUTDOWN.                                                               *)
Progress == {"unborn", "started", "connected", "serving", "killed", "exited"}
Alive(w) == process[w] \in {"started", "connected", "serving"}
Ended(w) == process[w] \in {"killed", "exited"}

---------------------------------------------------------------------------
(* The orchestrator: start, start_worker, restart_worker and stop, which   *)
(* are called one after the other.  It learns what has happened only from  *)
(* the logs of the others, which it reads from the start each time it      *)
(* waits (wait_for_event).                                                 *)
Newest == CHOOSE w \in Pids \cup {0} :
            /\ w # 0 => process[w] # "unborn"
            /\ \A v \in Pids : v > w => process[v] = "unborn"

(* start_worker: at most one worker process is alive.                      *)
Launch(w) ==
  /\ harness.status = "running"
  /\ \A v \in Pids : ~Alive(v)
  /\ w = Newest + 1
  /\ process' = [process EXCEPT ![w] = "started"]
  /\ UNCHANGED <<authority, upLink, downLink, harnessVars, socket, toWorker, fromWorker>>

(* The end of start, which waits for the harness to be registered, or      *)
(* start_worker called by itself.                                          *)
StartWorker(w) ==
  /\ \/ orchestrator.phase = "starting" /\ authority.registered
     \/ orchestrator.phase = "running"
  /\ Launch(w)
  /\ orchestrator' = [orchestrator EXCEPT !.phase = "running"]

(* terminate_worker, or any other sudden end of the process.               *)
TerminateWorker(w) ==
  /\ Alive(w)
  /\ process' = [process EXCEPT ![w] = "killed"]
  /\ UNCHANGED <<orchestrator, authority, upLink, downLink, harnessVars, socket, toWorker,
                 fromWorker>>

(* restart_worker terminates the worker, if it has not ended by itself ... *)
RestartWorker ==
  /\ orchestrator.phase = "running" /\ Newest # 0
  /\ orchestrator' = [phase |-> "restarting", replaced |-> Newest]
  /\ process' = [process EXCEPT ![Newest] = IF Alive(Newest) THEN "killed" ELSE @]
  /\ UNCHANGED <<authority, upLink, downLink, harnessVars, socket, toWorker, fromWorker>>

(* Mutant: the new worker is started without waiting.                      *)
NothingAwaited == TRUE

(* wait_for_event: the log of the authority has a failure, of any worker.  *)
FailureObserved == authority.logged

(* ... waits for the authority to have observed a failure, and starts a    *)
(* new worker.                                                             *)
RestartContinues(w) ==
  /\ orchestrator.phase = "restarting" /\ FailureObserved
  /\ Launch(w)
  /\ orchestrator' = [orchestrator EXCEPT !.phase = "running"]

(* TimeoutError of the wait, or the harness has ended meanwhile.           *)
RestartFails ==
  /\ orchestrator.phase = "restarting"
  /\ ~FailureObserved \/ harness.status # "running"
  /\ orchestrator' = [orchestrator EXCEPT !.phase = "failed"]
  /\ UNCHANGED substrateVars

(* stop, once the worker has ended: first the harness, then the authority. *)
StopHarness ==
  /\ orchestrator.phase \in {"running", "failed"}
  /\ harness.status = "running"
  /\ \A w \in Pids : ~Alive(w)
  /\ harness' = [harness EXCEPT !.status = "stopped"]
  /\ orchestrator' = [orchestrator EXCEPT !.phase = "stopped"]
  /\ UNCHANGED <<authority, upLink, downLink, up, down, reported, workerVars>>

StopAuthority ==
  /\ harness.status = "stopped"
  /\ authority.alive
  /\ authority' = [authority EXCEPT !.alive = FALSE]
  /\ UNCHANGED <<orchestrator, upLink, downLink, harnessVars, workerVars>>

OrchestratorStep ==
  \/ \E w \in Pids : StartWorker(w) \/ TerminateWorker(w) \/ RestartContinues(w)
  \/ RestartWorker \/ RestartFails \/ StopHarness \/ StopAuthority

---------------------------------------------------------------------------
(* The worker.  A connection sits in the listener's backlog until the      *)
(* harness accepts it; frames can be written to it before that.            *)
WorkerConnect(w) ==
  /\ process[w] = "started"
  /\ harness.status = "running"
  /\ process' = [process EXCEPT ![w] = "connected"]
  /\ socket' = [socket EXCEPT ![w] = "backlog"]
  /\ UNCHANGED <<authority, upLink, downLink, harnessVars, toWorker, fromWorker>>

WorkerRegister(w) ==
  /\ process[w] = "connected"
  /\ process' = [process EXCEPT ![w] = "serving"]
  /\ fromWorker' = [fromWorker EXCEPT ![w] = Append(@, Frame("REGISTER", w))]
  /\ UNCHANGED <<authority, upLink, downLink, harnessVars, socket, toWorker>>

WorkerReceive(w) ==
  /\ process[w] = "serving"
  /\ toWorker[w] # << >>
  /\ LET m == Head(toWorker[w]) IN
       /\ fromWorker' = [fromWorker EXCEPT ![w] =
            CASE m.kind = "WORK" -> Append(@, WorkFrame("COMPLETE", w, m.work))
              [] m.kind = "SHUTDOWN" -> Append(@, Frame("SHUTDOWN_ACK", w))
              [] OTHER -> @]
       /\ process' = [process EXCEPT ![w] = IF m.kind = "SHUTDOWN" THEN "exited" ELSE @]
  /\ toWorker' = [toWorker EXCEPT ![w] = Tail(@)]
  /\ UNCHANGED <<authority, upLink, downLink, harnessVars, socket>>

(* An exception nothing catches: the harness cannot be reached, it has     *)
(* closed the socket or ended, or the deadline passed on an idle socket.   *)
WorkerFails(w) ==
  /\ \/ Alive(w) /\ harness.status # "running"
     \/ Alive(w) /\ socket[w] = "closed"
     \/ process[w] = "serving" /\ toWorker[w] = << >> /\ "worker" \in Impatient
  /\ process' = [process EXCEPT ![w] = "killed"]
  /\ UNCHANGED <<authority, upLink, downLink, harnessVars, socket, toWorker, fromWorker>>

---------------------------------------------------------------------------
(* The authority.  What it writes reaches the harness while that runs; a   *)
(* write to an ended harness is lost, or raises and ends the authority.    *)
AuthoritySend(frames, next) ==
  \/ /\ authority' = next
     /\ downLink' = IF harness.status = "running" THEN downLink \o frames ELSE downLink
  \/ /\ harness.status # "running" /\ frames # << >>
     /\ authority' = [next EXCEPT !.alive = FALSE]
     /\ UNCHANGED downLink

(* The newest registration makes its worker current.                       *)
Registered(m) == [authority EXCEPT !.current = m.pid, !.generation = @ + 1]

(* Mutant: the failure is only logged.                                     *)
NotCleared(a, pid) == a

(* The current worker is forgotten if it is the one that ended.            *)
Cleared(a, pid) == [a EXCEPT !.current = IF @ = pid THEN None ELSE @]

(* A failure is first written to the log, where the orchestrator can read  *)
(* it at once; the frame stays at the head of the link until the authority *)
(* has also acted on it.                                                   *)
AuthorityNotes ==
  /\ authority.alive /\ ~authority.noted
  /\ upLink # << >> /\ Head(upLink).kind = "PROCESS_FAILURE"
  /\ authority' = [authority EXCEPT !.logged = TRUE, !.noted = TRUE]
  /\ UNCHANGED <<upLink, downLink, harnessVars, workerVars>>

(* The dispatch of authority_process_main on message m.                    *)
AuthorityHandles(m) ==
  CASE m.kind = "HARNESS_REGISTER" ->
         AuthoritySend(<<Frame("HARNESS_REGISTERED", None)>>,
                       [authority EXCEPT !.registered = TRUE])
    [] m.kind = "REGISTER" /\ ~authority.registered ->
         UNCHANGED <<authority, downLink>>
    [] m.kind = "REGISTER" /\ authority.registered ->
         AuthoritySend(<<Frame("REGISTERED", m.pid),
                         WorkFrame("WORK", m.pid, <<m.pid, authority.generation + 1>>)>>,
                       Registered(m))
    [] m.kind = "COMPLETE" ->
         AuthoritySend(IF authority.shutdown /\ m.pid = authority.current
                         THEN <<Frame("SHUTDOWN", authority.current)>> ELSE << >>,
                       authority)
    [] m.kind = "PROCESS_FAILURE" ->
         AuthoritySend(<< >>, Cleared([authority EXCEPT !.noted = FALSE], m.pid))
    [] m.kind = "SHUTDOWN_ACK" -> AuthoritySend(<< >>, Cleared(authority, m.pid))

AuthorityReceive ==
  /\ authority.alive
  /\ upLink # << >>
  /\ Head(upLink).kind = "PROCESS_FAILURE" => authority.noted
  /\ AuthorityHandles(Head(upLink))
  /\ upLink' = Tail(upLink)
  /\ UNCHANGED <<harnessVars, workerVars>>

(* recv_envelope raises TruncatedFrameError: the harness has ended, or the *)
(* deadline passed on an idle connection.                                  *)
AuthorityLeaves ==
  /\ authority.alive
  /\ upLink = << >>
  /\ harness.status # "running" \/ "authority" \in Impatient
  /\ authority' = [authority EXCEPT !.alive = FALSE]
  /\ UNCHANGED <<upLink, downLink, harnessVars, workerVars>>

---------------------------------------------------------------------------
(* The harness.  Its loop handles one batch of ready selector keys after   *)
(* the other, in any order.                                                *)
Backlog == {w \in Pids : socket[w] = "backlog"}

(* Mutant: the worker's socket is read without being ready.                *)
PolledKeys ==
  {"listener" : w \in Backlog}
    \cup (IF downLink # << >> \/ ~authority.alive THEN {"authority"} ELSE {})
    \cup (IF harness.worker # None THEN {"worker"} ELSE {})

ReadyKeys ==
  {"listener" : w \in Backlog}
    \cup (IF downLink # << >> \/ ~authority.alive THEN {"authority"} ELSE {})
    \cup (IF harness.worker # None /\ (fromWorker[harness.worker] # << >> \/ Ended(harness.worker))
            THEN {"worker"} ELSE {})

(* The orders in which a set of keys may be handled.                       *)
Orders(keys) ==
  {f \in [1..Cardinality(keys) -> keys] : \A i, j \in DOMAIN f : f[i] = f[j] => i = j}

(* Mutant: a single delayed frame is left where it is.                     *)
DelayedSeveral(schedulers) ==
  \E kind \in DOMAIN schedulers : Len(schedulers[kind].delayed) > 1

Delayed(schedulers) ==
  \E kind \in DOMAIN schedulers : schedulers[kind].delayed # << >>

(* A select that times out flushes the delayed frames, kind after kind in  *)
(* the order of the rules (here a fixed one).                              *)
Select ==
  /\ harness.status = "running"
  /\ harness.batch = << >>
  /\ \/ \E order \in Orders(ReadyKeys) : order # << >> /\ harness' = [harness EXCEPT !.batch = order]
     \/ /\ ReadyKeys = {}
        /\ Delayed(up) \/ (harness.worker # None /\ Delayed(down))
        /\ harness' = [harness EXCEPT !.batch = <<"flushUp", "REGISTERED", "WORK", "SHUTDOWN">>]
  /\ UNCHANGED <<authority, upLink, downLink, up, down, reported, workerVars>>

Handling(key) == harness.status = "running" /\ harness.batch # << >> /\ Head(harness.batch) = key
Rest == Tail(harness.batch)

(* A write to the authority: lost, or raising, once it has ended.          *)
SendUp(frames, next) ==
  \/ /\ harness' = next
     /\ upLink' = IF authority.alive THEN upLink \o frames ELSE upLink
  \/ /\ ~authority.alive /\ frames # << >>
     /\ harness' = [next EXCEPT !.status = "crashed"]
     /\ UNCHANGED upLink

NoWorker(h) == [h EXCEPT !.worker = None, !.pid = None, !.shutdownExpected = FALSE]

(* Mutant: the test of worker_shutdown_expected is inverted.               *)
IsExpected(h) == h.shutdownExpected /\ h.pid # None

(* No shutdown was asked for, and the worker has registered.               *)
IsFailure(h) == ~h.shutdownExpected /\ h.pid # None

(* _disconnect_worker on harness h: close the socket, report a failure.    *)
Disconnect(h) ==
  /\ socket' = [socket EXCEPT ![h.worker] = "closed"]
  /\ reported' = IF IsFailure(h) THEN reported \cup {h.pid} ELSE reported
  /\ SendUp(IF IsFailure(h) THEN <<Frame("PROCESS_FAILURE", h.pid)>> ELSE << >>, NoWorker(h))

(* The new connection replaces the old one, which is closed in silence.    *)
HandleListener ==
  /\ Handling("listener")
  /\ LET w == CHOOSE v \in Backlog : \A u \in Backlog : v <= u IN
       /\ socket' = [v \in Pids |-> IF v = w THEN "open"
                                    ELSE IF v = harness.worker THEN "closed" ELSE socket[v]]
       /\ harness' = [NoWorker(harness) EXCEPT !.worker = w, !.batch = Rest]
  /\ UNCHANGED <<authority, upLink, downLink, up, down, reported, process, toWorker, fromWorker>>

Scheduled(schedulers, kind, frame) ==
  IF kind \in DOMAIN schedulers THEN Submit(schedulers[kind], frame)
                                ELSE Answer(None, <<frame>>, FALSE)
Updated(schedulers, kind, answer) ==
  IF kind \in DOMAIN schedulers THEN [schedulers EXCEPT ![kind] = answer.queue] ELSE schedulers

(* Frames written to the socket of the present worker by harness h: they   *)
(* arrive, or, if the worker has ended, vanish or make the write fail.     *)
SendDown(frames, h) ==
  \/ /\ harness' = h
     /\ toWorker' = [toWorker EXCEPT ![h.worker] = @ \o frames]
     /\ UNCHANGED <<upLink, socket, reported>>
  \/ /\ Ended(h.worker) /\ frames # << >>
     /\ Disconnect(h)
     /\ UNCHANGED toWorker

HandleAuthority ==
  /\ Handling("authority")
  /\ downLink # << >>
  /\ downLink' = Tail(downLink)
  /\ LET m == Head(downLink)
         answer == Scheduled(down, m.kind, m)
         next == [harness EXCEPT !.batch = Rest,
                    !.shutdownExpected = @ \/ (m.kind = "SHUTDOWN" /\ harness.worker # None)]
     IN IF m.kind \in ToWorker /\ harness.worker # None
          THEN /\ down' = Updated(down, m.kind, answer)
               /\ SendDown(answer.out, next)
          ELSE /\ harness' = next
               /\ UNCHANGED <<upLink, down, socket, toWorker, reported>>
  /\ UNCHANGED <<authority, up, process, fromWorker>>

AuthorityGone ==
  /\ Handling("authority")
  /\ downLink = << >>
  /\ ~authority.alive
  /\ harness' = [harness EXCEPT !.status = "exited"]
  /\ UNCHANGED <<authority, upLink, downLink, up, down, reported, workerVars>>

---------------------------------------------------------------------------
(* What all schedulers hold back for later, kind by kind.                  *)
Late(schedulers, kind) == IF kind \in DOMAIN schedulers THEN schedulers[kind].late ELSE << >>
AllLate == Late(up, "REGISTER") \o Late(up, "COMPLETE") \o Late(up, "SHUTDOWN_ACK")
WithoutLate == [kind \in DOMAIN up |-> FlushLate(up[kind]).queue]

DelayedOf(schedulers, kind) ==
  IF kind \in DOMAIN schedulers THEN schedulers[kind].delayed ELSE << >>

(* A registration releases the late frames, before it is sent itself.      *)
LateFirst(m, answer) == IF m.kind = "REGISTER" THEN AllLate \o answer.out ELSE answer.out

(* A frame from the socket of the present worker, which in a stale batch   *)
(* is not the one that was ready.                                          *)
HandleWorker ==
  /\ Handling("worker")
  /\ harness.worker # None
  /\ fromWorker[harness.worker] # << >>
  /\ LET w == harness.worker
         m == Head(fromWorker[w])
         base == IF m.kind = "REGISTER" THEN WithoutLate ELSE up
         answer == Scheduled(base, m.kind, m)
     IN /\ fromWorker' = [fromWorker EXCEPT ![w] = Tail(@)]
        /\ up' = Updated(base, m.kind, answer)
        /\ SendUp(LateFirst(m, answer),
                  [harness EXCEPT !.batch = Rest, !.pid = IF m.kind = "REGISTER" THEN m.pid ELSE @])
  /\ UNCHANGED <<authority, downLink, down, reported, process, socket, toWorker>>

(* The read fails: the worker has ended, or it stays silent past the       *)
(* deadline.                                                               *)
WorkerGone ==
  /\ Handling("worker")
  /\ harness.worker # None
  /\ fromWorker[harness.worker] = << >>
  /\ Ended(harness.worker) \/ "harness" \in Impatient
  /\ Disconnect([harness EXCEPT !.batch = Rest])
  /\ UNCHANGED <<authority, downLink, up, down, process, toWorker, fromWorker>>

(* "assert worker is not None" fails.                                      *)
AssertionFails ==
  /\ Handling("worker")
  /\ harness.worker = None
  /\ harness' = [harness EXCEPT !.status = "assertion"]
  /\ UNCHANGED <<authority, upLink, downLink, up, down, reported, workerVars>>

FlushUp ==
  /\ Handling("flushUp")
  /\ up' = [kind \in DOMAIN up |-> FlushDelayed(up[kind]).queue]
  /\ SendUp(DelayedOf(up, "REGISTER") \o DelayedOf(up, "COMPLETE") \o DelayedOf(up, "SHUTDOWN_ACK"),
            [harness EXCEPT !.batch = Rest])
  /\ UNCHANGED <<authority, downLink, down, reported, workerVars>>

(* A send that fails disconnects the worker and leaves the later kinds.    *)
FlushDown(kind) ==
  /\ Handling(kind)
  /\ IF harness.worker = None
       THEN /\ harness' = [harness EXCEPT !.batch = Rest]
            /\ UNCHANGED <<upLink, down, reported, socket, toWorker>>
       ELSE /\ down' = [k \in DOMAIN down |->
                          IF k = kind THEN FlushDelayed(down[k]).queue ELSE down[k]]
            /\ SendDown(DelayedOf(down, kind), [harness EXCEPT !.batch = Rest])
  /\ UNCHANGED <<authority, downLink, up, process, fromWorker>>

---------------------------------------------------------------------------
Init ==
  /\ orchestrator = [phase |-> "starting", replaced |-> None]
  /\ upLink = <<Frame("HARNESS_REGISTER", None)>>
  /\ downLink = << >>
  /\ harness = [status |-> "running", worker |-> None, pid |-> None,
                shutdownExpected |-> FALSE, batch |-> << >>]
  /\ \E plan \in Plans :
       /\ authority = [alive |-> TRUE, registered |-> FALSE, current |-> None, generation |-> 0,
                       shutdown |-> plan.shutdown, logged |-> FALSE, noted |-> FALSE]
       /\ up = [kind \in DOMAIN plan.up |-> NewScheduler(plan.up[kind])]
       /\ down = [kind \in DOMAIN plan.down |-> NewScheduler(plan.down[kind])]
  /\ process = [w \in Pids |-> "unborn"]
  /\ socket = [w \in Pids |-> "none"]
  /\ toWorker = [w \in Pids |-> << >>]
  /\ fromWorker = [w \in Pids |-> << >>]
  /\ reported = {}

WorkerStep(w) == WorkerConnect(w) \/ WorkerRegister(w) \/ WorkerReceive(w) \/ WorkerFails(w)
AuthorityStep == AuthorityNotes \/ AuthorityReceive \/ AuthorityLeaves
HarnessStep ==
  \/ Select \/ HandleListener \/ HandleAuthority \/ AuthorityGone
  \/ HandleWorker \/ WorkerGone \/ AssertionFails
  \/ FlushUp \/ \E kind \in ToWorker : FlushDown(kind)

Next ==
  \/ OrchestratorStep
  \/ /\ (\E w \in Pids : WorkerStep(w)) \/ AuthorityStep \/ HarnessStep
     /\ UNCHANGED orchestrator

Spec == Init /\ [][Next]_vars

(* Every process that can run runs; nobody has to start or kill a worker.  *)
Fairness ==
  /\ WF_substrateVars(AuthorityStep)
  /\ WF_substrateVars(HarnessStep)
  /\ \A w \in Pids : WF_substrateVars(WorkerStep(w))

FairSpec == Spec /\ Fairness

---------------------------------------------------------------------------
IsFrame(m) ==
  /\ m.kind \in FromWorker \cup ToWorker
       \cup {"PROCESS_FAILURE", "HARNESS_REGISTER", "HARNESS_REGISTERED"}
  /\ m.pid \in Pids \cup {None}

(* Type correctness: the three processes, the sockets and the frames.      *)
C8TypeOK ==
  /\ authority.current \in Pids \cup {None}
  /\ authority.generation \in Nat
  /\ harness.status \in {"running", "stopped", "exited", "crashed", "assertion"}
  /\ harness.worker \in Pids \cup {None}
  /\ harness.pid \in {harness.worker, None}
  /\ process \in [Pids -> Progress]
  /\ socket \in [Pids -> {"none", "backlog", "open", "closed"}]
  /\ \A w \in Pids : socket[w] = "open" => harness.worker = w
  /\ \A i \in DOMAIN upLink : IsFrame(upLink[i])
  /\ \A i \in DOMAIN downLink : IsFrame(downLink[i])
  /\ \A w \in Pids : \A i \in DOMAIN toWorker[w] : toWorker[w][i].kind \in ToWorker

(* The harness reports a failure only for a process that has ended: a      *)
(* worker that lives and keeps its socket is never declared failed.        *)
FailureReportsAreTrue == C8TypeOK /\ \A w \in reported : Ended(w)

(* Once the authority has read the failure report of a worker it does not  *)
(* take it for the current one again, whatever completions arrive late,    *)
(* twice or out of order (under a plan without a rule for REGISTER: a      *)
(* registration that is itself late revives a dead worker).                *)
ReportedIsForgotten ==
  "REGISTER" \notin DOMAIN up =>
    \A w \in reported :
      authority.current = w /\ authority.alive =>
        \E i \in DOMAIN upLink : upLink[i] = Frame("PROCESS_FAILURE", w)

(* The authority never goes back from a newer to an older worker, although *)
(* the registration of the older one may be delivered late.                *)
CurrentGoesForward ==
  authority.current # None /\ authority'.current # None => authority'.current >= authority.current

(* The authority has logged the failure of w and forgets w next.           *)
IsForgetting(w) ==
  authority.noted /\ upLink # << >> /\ Head(upLink) = Frame("PROCESS_FAILURE", w)

(* The first worker is replaced only when the authority no longer takes it *)
(* for the current one or is about to forget it: restart_worker waits for  *)
(* the log entry, which is written just before the worker is forgotten.    *)
(* Only for the first, since the failure of an earlier worker, in the log  *)
(* before the restart or arriving after it, ends the wait for a later one. *)
ReplacedIsForgotten ==
  orchestrator.phase = "restarting" /\ orchestrator'.phase = "running" /\ orchestrator.replaced = 1
    => authority.current # 1 \/ IsForgetting(1)

(* Workers succeed one another in order (_disconnect_worker,               *)
(* _flush_late_upstream and restart_worker).                               *)
WorkersSucceedInOrder == [][CurrentGoesForward /\ ReplacedIsForgotten]_vars

(* "A forced worker termination closes the real worker TCP socket.  The    *)
(* harness converts that transport observation into a serialized           *)
(* PROCESS_FAILURE observation for the authority"                          *)
(* (spec/62-c8.2-distributed-substrate.md:135): the worker a running       *)
(* harness knows and that is killed is reported, where the authority asks  *)
(* no worker to shut down.                                                 *)
TerminationIsReported ==
  \A w \in Pids :
    process[w] = "killed" /\ harness.pid = w /\ ~authority.shutdown
      ~> w \in reported \/ harness.status # "running"

(* What the harness does: it reports the killed worker, unless the         *)
(* connection of a successor reaches it before the end of the old one, and *)
(* never keeps a dead worker for its present one (_disconnect_worker).     *)
TerminationIsNoticed ==
  \A w \in Pids :
    process[w] = "killed" /\ harness.pid = w /\ ~authority.shutdown
      ~> \/ w \in reported \/ harness.status # "running"
         \/ harness.pid # w /\ \E v \in Pids : v > w /\ socket[v] \in {"open", "closed"}

(* Where the authority shuts workers down after their completion, a worker *)
(* that serves winds down: its work is issued, completed and followed by   *)
(* its shutdown, unless the worker or the harness dies first.  Delays and   *)
(* duplicates of frames do not keep this from happening.                   *)
WorkersWindDown ==
  \A w \in Pids : process[w] = "serving" /\ authority.shutdown ~> Ended(w)

(* "assert worker is not None" (prototype/c8_harness.py:305).              *)
AssertionHolds == harness.status # "assertion"
===========================================================================
