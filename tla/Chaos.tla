-------------------------------- MODULE Chaos --------------------------------
(***************************************************************************)
(* Execute and Validate of internal/chaos/experiment.go, as goroutines     *)
(* that call them.  A fault is injected, and then the timer of the         *)
(* experiment races its context, which may be cancelled at any time.  The  *)
(* injection is a placeholder in the code: "fault" is what it announces.   *)
(***************************************************************************)
EXTENDS Errors, Logger

CONSTANT Experiments   \* the goroutines that call Execute and Validate

VARIABLES
  stage,      \* stage[x]: the next statement of x's call
  config,     \* config[x]: its arguments
  cancelled,  \* cancelled[x]: its context is done
  fault,      \* fault[x]: none injected, injected, or injected for the whole duration
  outcome     \* outcome[x]: the result and the error of x's last call

chaosVars == <<stage, config, cancelled, fault, outcome>>

FaultTypes == {"network_latency", "disk_iops"}

(* The type of the fault, and whether the parameter that it needs is there  *)
(* and is positive.                                                         *)
Configs ==
  [op : {"Execute", "Validate"}, type : FaultTypes \cup {"other"}, parameter : BOOLEAN]

NoConfig == [op |-> "Validate", type |-> "other", parameter |-> FALSE]

Cancelled == Leaf

Result(success, error, err) == [success |-> success, error |-> error, err |-> err]
Pending == Result(FALSE, Nil, Nil)

ChaosInit ==
  /\ stage = [x \in Experiments |-> "idle"]
  /\ config = [x \in Experiments |-> NoConfig]
  /\ cancelled = [x \in Experiments |-> FALSE]
  /\ fault = [x \in Experiments |-> "none"]
  /\ outcome = [x \in Experiments |-> Pending]

CallExperiment(x, c) ==
  /\ stage[x] = "idle"
  /\ stage' = [stage EXCEPT ![x] = "log"]
  /\ config' = [config EXCEPT ![x] = c]
  /\ cancelled' = [cancelled EXCEPT ![x] = FALSE]
  /\ fault' = [fault EXCEPT ![x] = "none"]
  /\ outcome' = [outcome EXCEPT ![x] = Pending]
  /\ UNCHANGED loggerVars

Cancel(x) ==
  /\ stage[x] # "idle"
  /\ cancelled' = [cancelled EXCEPT ![x] = TRUE]
  /\ UNCHANGED <<loggerVars, stage, config, fault, outcome>>

Stage(x, from, to) ==
  /\ stage[x] = from
  /\ stage' = [stage EXCEPT ![x] = to]

Finish(x, from, result) ==
  /\ Stage(x, from, "idle")
  /\ outcome' = [outcome EXCEPT ![x] = result]

(* The first statement logs the start: it may be the first to log at all.   *)
LogStart(x) ==
  /\ \/ GetFindsNil(x) /\ Stage(x, "log", "log")
     \/ (GetFinds(x) \/ GetFallsBack(x)) /\ Stage(x, "log", "check")
  /\ UNCHANGED <<config, cancelled, fault, outcome>>

CheckContext(x) ==
  /\ ~cancelled[x]
  /\ Stage(x, "check", "switch")
  /\ UNCHANGED <<loggerVars, config, cancelled, fault, outcome>>

(* Mutant of CancelledBefore: the error of the context is returned as it is.*)
CancelledUnwrapped(x) ==
  /\ cancelled[x]
  /\ Finish(x, "check", Result(FALSE, Nil, Cancelled))
  /\ UNCHANGED <<loggerVars, config, cancelled, fault>>

CancelledBefore(x) ==
  /\ cancelled[x]
  /\ Finish(x, "check", Result(FALSE, Nil, New(Cancelled)))
  /\ UNCHANGED <<loggerVars, config, cancelled, fault>>

(* Validate looks at no parameter.                                          *)
Acceptable(c) == c.type \in FaultTypes /\ (c.op = "Execute" => c.parameter)

(* errors.New without a cause is nil.                                       *)
RefuseConfig(x) ==
  /\ ~Acceptable(config[x])
  /\ Finish(x, "switch", Result(FALSE, Nil, New(Nil)))
  /\ UNCHANGED <<loggerVars, config, cancelled, fault>>

Inject(x) ==
  /\ Acceptable(config[x])
  /\ config[x].op = "Execute"
  /\ Stage(x, "switch", "select")
  /\ fault' = [fault EXCEPT ![x] = "injected"]
  /\ outcome' = [outcome EXCEPT ![x].success = TRUE]
  /\ UNCHANGED <<loggerVars, config, cancelled>>

Validate(x) ==
  /\ Acceptable(config[x])
  /\ config[x].op = "Validate"
  /\ Finish(x, "switch", Result(TRUE, Nil, Nil))
  /\ UNCHANGED <<loggerVars, config, cancelled, fault>>

(* Mutant of TimerFires: the timer is never started.                        *)
TimerForgotten(x) == x \notin Experiments /\ UNCHANGED <<loggerVars, chaosVars>>

TimerFires(x) ==
  /\ stage[x] = "select"
  /\ fault[x] = "injected"
  /\ fault' = [fault EXCEPT ![x] = "full"]
  /\ UNCHANGED <<loggerVars, stage, config, cancelled, outcome>>

(* select: the timer's branch, and the context's; if both are ready, any.   *)
Complete(x) ==
  /\ fault[x] = "full"
  /\ Finish(x, "select", outcome[x])
  /\ UNCHANGED <<loggerVars, config, cancelled, fault>>

(* Mutant of Interrupt: Success stays as the injection has set it.          *)
InterruptStaysSuccess(x) ==
  /\ cancelled[x]
  /\ Finish(x, "select", Result(outcome[x].success, Cancelled, Nil))
  /\ UNCHANGED <<loggerVars, config, cancelled, fault>>

Interrupt(x) ==
  /\ cancelled[x]
  /\ Finish(x, "select", Result(FALSE, Cancelled, Nil))
  /\ UNCHANGED <<loggerVars, config, cancelled, fault>>

(* What a call does by itself.                                              *)
Run(x) ==
  \/ LogStart(x) \/ CheckContext(x) \/ CancelledBefore(x)
  \/ RefuseConfig(x) \/ Inject(x) \/ Validate(x)
  \/ TimerFires(x) \/ Complete(x) \/ Interrupt(x)

-----------------------------------------------------------------------------
ChaosTypeOK ==
  /\ stage \in [Experiments -> {"idle", "log", "check", "switch", "select"}]
  /\ config \in [Experiments -> Configs]
  /\ cancelled \in [Experiments -> BOOLEAN]
  /\ fault \in [Experiments -> {"none", "injected", "full"}]
  /\ outcome \in [Experiments ->
                   [success : BOOLEAN, error : {Nil, Cancelled}, err : {Nil, New(Cancelled)}]]

(* The result of an experiment tells what became of its fault, however its  *)
(* timer and its cancellation race: success is reported only of a fault     *)
(* that stayed for the whole duration, and a fault that was injected        *)
(* without success leaves an error in the result, since the call's own      *)
(* error is nil.                                                            *)
ResultTellsOfTheFault ==
  \A x \in Experiments :
    stage[x] = "idle" /\ config[x].op = "Execute" =>
      /\ outcome[x].success => fault[x] = "full"
      /\ fault[x] # "none" /\ ~outcome[x].success => outcome[x].error # Nil /\ cancelled[x]
=============================================================================
