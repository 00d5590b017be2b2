------------------------------- MODULE Trials -------------------------------
(***************************************************************************)
(* The coordinator of a correctness experiment and its worker processes,   *)
(* which the EV1 experiments share (each has its own copy of the code).    *)
(* An experiment case runs one trial per policy; the coordinator is one    *)
(* sequential program, here a script of steps, of which some command a     *)
(* worker over its pipe and some wait for the worker's answer.  A worker   *)
(* handles its commands one by one; the coordinator reads an answer only   *)
(* when its script says so, and expects a certain kind.                    *)
(***************************************************************************)
EXTENDS Integers, Sequences, FiniteSets

VARIABLES
  trial,    \* the scenario, the policy and what the coordinator remembers
  script,   \* the steps still to do
  workers,  \* the worker processes and their pipes
  raised    \* the exception that ended the case, or "none"

harnessVars == <<trial, script, workers, raised>>

---------------------------------------------------------------------------
(* Steps.                                                                  *)
StartProcess(w) == [op |-> "start", worker |-> w]
Hold(w) == [op |-> "hold", worker |-> w]
Try == [op |-> "try"]
Ensure(w) == [op |-> "ensure", worker |-> w]
Send(w, command) == [op |-> "send", worker |-> w, command |-> command]
Receive(w, kind) == [op |-> "receive", worker |-> w, kind |-> kind]
Join(w) == [op |-> "join", worker |-> w]
StopAll == [op |-> "stop"]

(* _command: send and wait for the answer.                                 *)
Command(w, command, kind) == <<Send(w, command), Receive(w, kind)>>

(* A worker is in the coordinator's handles only once it is ready.         *)
Spawn(w) == <<StartProcess(w), Receive(w, "READY"), Hold(w)>>

Nothing == [op |-> "nothing"]
Starting == [op |-> "starting"]

(* A process that has just been started: it is not ready yet, and not yet  *)
(* held, that is among the handles the coordinator stops in the end.       *)
NoWorker == [alive |-> FALSE, held |-> FALSE, inbox |-> <<>>, outbox |-> <<>>, store |-> <<>>,
             pending |-> Nothing]
NewWorker == [NoWorker EXCEPT !.alive = TRUE, !.pending = Starting]

(* The answers of a worker to a command.                                   *)
Answer(worker, message) == [worker EXCEPT !.outbox = Append(@, message)]
(* An exception in the worker's loop ends its process; what it has sent    *)
(* stays in the pipe.  A crash on command is announced first.              *)
Exit(worker) == [worker EXCEPT !.alive = FALSE]
Exiting == [op |-> "exit"]
AnnounceCrash(worker) ==
  [worker EXCEPT !.outbox = Append(@, [kind |-> "CRASHING"]), !.pending = Exiting]

---------------------------------------------------------------------------
Running == raised = "none" /\ script # <<>>
At(op) == Running /\ Head(script).op = op
Step == Head(script)
Continue(steps) == script' = steps \o Tail(script)

(* Inside try: the finally clause is ahead, and the try not before it.     *)
Guarded == \E i \in 1..Len(script) : script[i] = StopAll /\ \A j \in 1..i : script[j] # Try

(* An exception goes to the finally clause if there is one around it, and  *)
(* else ends the case as it is.                                            *)
Raise(exception) == raised' = exception /\ script' = IF Guarded THEN <<StopAll>> ELSE <<>>

EnterTry == At("try") /\ Continue(<<>>) /\ UNCHANGED <<trial, workers, raised>>

StartOne ==
  /\ At("start")
  /\ workers' = [workers EXCEPT ![Step.worker] = NewWorker]
  /\ Continue(<<>>)
  /\ UNCHANGED <<trial, raised>>

HoldOne ==
  /\ At("hold")
  /\ workers' = [workers EXCEPT ![Step.worker].held = TRUE]
  /\ Continue(<<>>)
  /\ UNCHANGED <<trial, raised>>

(* _ensure_workers: a process that is no longer alive is replaced; what is *)
(* held of it until the new one is ready is a handle of a dead process.    *)
EnsureAlive ==
  /\ At("ensure")
  /\ Continue(IF workers[Step.worker].alive THEN <<>> ELSE Spawn(Step.worker))
  /\ UNCHANGED <<trial, workers, raised>>

(* Writing to the pipe of a dead worker raises BrokenPipeError.            *)
SendCommand ==
  /\ At("send")
  /\ IF workers[Step.worker].alive
     THEN /\ workers' = [workers EXCEPT ![Step.worker].inbox = Append(@, Step.command)]
          /\ Continue(<<>>)
          /\ UNCHANGED raised
     ELSE Raise("broken pipe") /\ UNCHANGED workers
  /\ UNCHANGED trial

(* Mutant: the coordinator waits for an answer for as long as it takes.    *)
ReceivePatiently ==
  /\ At("receive")
  /\ LET w == Step.worker
         outbox == workers[w].outbox IN
     /\ outbox # <<>> /\ outbox[1].kind = Step.kind
     /\ workers' = [workers EXCEPT ![w].outbox = Tail(@)]
     /\ trial' = [trial EXCEPT !.answers = [@ EXCEPT ![w] = outbox[1]]]
     /\ Continue(<<>>)
     /\ UNCHANGED raised

(* _recv gives up after its timeout when there is no answer, sees the end  *)
(* of the pipe of a dead worker, and asserts the kind of the answer, which *)
(* the coordinator remembers.  A process that is too slow to start, or has *)
(* failed to, is not ready.                                                *)
ReceiveAnswer ==
  /\ At("receive")
  /\ LET w == Step.worker
         outbox == workers[w].outbox IN
     IF outbox = <<>>
     THEN /\ Raise(IF Step.kind = "READY" THEN "not ready"
                   ELSE IF workers[w].alive THEN "timeout" ELSE "end of file")
          /\ UNCHANGED <<trial, workers>>
     ELSE IF outbox[1].kind # Step.kind
     THEN Raise("unexpected answer") /\ UNCHANGED <<trial, workers>>
     ELSE /\ workers' = [workers EXCEPT ![w].outbox = Tail(@)]
          /\ trial' = [trial EXCEPT !.answers = [@ EXCEPT ![w] = outbox[1]]]
          /\ Continue(<<>>)
          /\ UNCHANGED raised

(* process.join after a crash that was announced.                          *)
JoinCrashed ==
  /\ At("join")
  /\ \/ workers[Step.worker].alive /\ Raise("did not exit")
     \/ ~workers[Step.worker].alive /\ Continue(<<>>) /\ UNCHANGED raised
  /\ UNCHANGED <<trial, workers>>

(* _stop_workers, in the finally clause around the use of the workers:     *)
(* each worker held is asked to stop, joined, and terminated when it does  *)
(* not return in time.                                                     *)
StopWorkers ==
  /\ script # <<>> /\ Head(script).op = "stop"
  /\ workers' = [w \in DOMAIN workers |-> IF workers[w].held THEN NoWorker ELSE workers[w]]
  /\ script' = Tail(script)
  /\ UNCHANGED <<trial, raised>>

(* The process of a worker gets to its loop and says so, or never does.    *)
WorkerStarts(w) ==
  /\ workers[w].alive /\ workers[w].pending = Starting
  /\ \E after \in {Answer([workers[w] EXCEPT !.pending = Nothing], [kind |-> "READY"]),
                    Exit(workers[w])} :
       workers' = [workers EXCEPT ![w] = after]
  /\ UNCHANGED <<trial, script, raised>>

(* A worker takes its next command; after is what handling it makes of it. *)
WorkerHandles(w, after) ==
  /\ workers[w].alive /\ workers[w].pending \notin {Starting, Exiting} /\ workers[w].inbox # <<>>
  /\ workers' = [workers EXCEPT ![w] = after]
  /\ UNCHANGED <<trial, script, raised>>

Taken(w) == [workers[w] EXCEPT !.inbox = Tail(@)]

(* A worker that has announced its crash exits (os._exit).                 *)
WorkerExits(w) ==
  /\ workers[w].alive /\ workers[w].pending = Exiting
  /\ workers' = [workers EXCEPT ![w] = Exit(@)]
  /\ UNCHANGED <<trial, script, raised>>

(* The exception that ended the case has dropped the coordinator's end of  *)
(* the pipe: a worker that was not stopped may see that (EOFError).        *)
WorkerOrphaned(w) ==
  /\ raised # "none" /\ script = <<>>
  /\ workers[w].alive /\ workers[w].inbox = <<>>
  /\ workers' = [workers EXCEPT ![w] = Exit(@)]
  /\ UNCHANGED <<trial, script, raised>>

CoordinatorStep ==
  \/ EnterTry \/ StartOne \/ HoldOne \/ EnsureAlive \/ SendCommand \/ ReceiveAnswer \/ JoinCrashed \/ StopWorkers

ProcessStep ==
  \E w \in DOMAIN workers : WorkerStarts(w) \/ WorkerExits(w) \/ WorkerOrphaned(w)

---------------------------------------------------------------------------
(* Only slowness ends a case early: whatever the timing of the workers,    *)
(* the coordinator never takes an answer of an earlier trial for the one   *)
(* it waits for, never writes to a worker that is gone, never waits for an *)
(* answer of a worker that has ended and never meets an assertion of its   *)
(* own about the state of the core (_recv's and _command's assertions, and *)
(* _ensure_workers before each trial).  "too early" is a worker that was   *)
(* faster than the timeout it was to miss.                                 *)
HandshakeHolds == raised \in {"none", "not ready", "timeout", "did not exit", "too early"}
=============================================================================
