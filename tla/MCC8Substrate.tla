--------------------------- MODULE MCC8Substrate ---------------------------
(* Small instances of C8Substrate for TLC.                                 *)
EXTENDS C8Substrate, TLC

NoFaults == {[up |-> << >>, down |-> << >>, shutdown |-> TRUE]}

(* Completions late, duplicated and delayed; work delayed.                 *)
CompletionFaults ==
  [up |-> "COMPLETE" :> <<"LATE_DELIVER", "DUPLICATE", "DELAY">>
            @@ "SHUTDOWN_ACK" :> <<"DUPLICATE">>,
   down |-> "WORK" :> <<"DELAY">> @@ "REGISTERED" :> <<"DROP">>,
   shutdown |-> TRUE]

(* The first registration is delivered late.                               *)
LateRegistration == [up |-> "REGISTER" :> <<"LATE_DELIVER">>, down |-> << >>,
                     shutdown |-> TRUE]

SafetyPlans == {CompletionFaults, LateRegistration}

(* A registration is duplicated; of the two works it causes one is lost    *)
(* and the other delayed, as is the completion; the shutdown comes twice.  *)
DelayedFrames ==
  {[up |-> "COMPLETE" :> <<"DELAY">> @@ "REGISTER" :> <<"DUPLICATE">>,
    down |-> "WORK" :> <<"DELAY", "DROP">> @@ "SHUTDOWN" :> <<"DUPLICATE">>,
    shutdown |-> TRUE]}

(* Workers that are never asked to shut down; a registration comes twice,  *)
(* a work is delayed.                                                      *)
LastingWorkers ==
  {[up |-> "REGISTER" :> <<"DUPLICATE">>,
    down |-> "WORK" :> <<"DELAY">>,
    shutdown |-> FALSE]}

(* The same workers without any rule.                                      *)
PlainWorkers == {[up |-> << >>, down |-> << >>, shutdown |-> FALSE]}

WindingDownAndSucceeding == DelayedFrames \cup LastingWorkers

(* Bound: where workers are asked to shut down there is only one.          *)
OneWindsDown == authority.shutdown => \A w \in Pids : w > 1 => process[w] = "unborn"

LivenessSpec == Init /\ [][Next /\ OneWindsDown']_vars /\ Fairness
===========================================================================
