--------------------------------- MODULE Cli ---------------------------------
(***************************************************************************)
(* A run of the command line client, cmd/cli/main.go: it reads its         *)
(* configuration, makes a detector and a predictor, and runs one command.  *)
(* The detector and the predictor's methods are not in the repository:     *)
(* each call returns or fails, and one that asks a device may hang.  Flags *)
(* and configuration are chosen where the code first looks at them.        *)
(***************************************************************************)
EXTENDS Naturals, Sequences, Functions

CONSTANTS
  Devices,      \* names that a device may be given
  Disks,        \* the devices of the host, a sequence as ListDevices answers
  DefaultDisk,  \* "/dev/sda"
  ConfigFiles   \* what viper may make of the files, one without any included

ASSUME CliAssumption ==
  /\ Disks \in Seq(Devices) /\ DefaultDisk \in Devices
  /\ ConfigFiles \subseteq [detection : BOOLEAN, prediction : BOOLEAN, devices : Seq(Devices)]

VARIABLES
  step,       \* the next statement
  cfg,        \* the global of that name
  detector,   \* whether these two globals are set
  predictor,
  cmd,        \* the command
  targets,    \* the local variable "devices"
  todo,       \* those that the loop has not reached
  results,    \* the devices in "results"
  skipped,    \* the devices logged as failed
  expired,    \* the deadline of the health check has passed
  sample,     \* sample-config.json: "none", "torn" or "whole"
  printed,    \* the items on standard output
  ended       \* "no", "success", "failure" or "panic"

cliVars == <<step, cfg, detector, predictor, cmd, targets, todo, results, skipped,
             expired, sample, printed, ended>>

PerDevice == {"healthcheck", "predict"}
Lists     == {"devices", "alerts", "predictions", "models"}
Commands  == PerDevice \cup Lists \cup {"status", "view", "validate", "generate-sample"}

NoConfig == [detection |-> FALSE, prediction |-> FALSE, devices |-> <<>>]

CliInit ==
  /\ step = "config"
  /\ cfg = NoConfig
  /\ detector = FALSE /\ predictor = FALSE
  /\ cmd = "none"
  /\ targets = <<>> /\ todo = <<>> /\ results = <<>> /\ skipped = <<>>
  /\ expired = FALSE
  /\ sample = "none"
  /\ printed = <<>>
  /\ ended = "no"

Proceed(from, to) == step = from /\ step' = to /\ UNCHANGED <<ended, printed>>

(* main prints the error of a command and exits with 1, as log.Fatal does.  *)
End(how, output) == step' = "end" /\ ended' = how /\ printed' = output

Loop == <<targets, todo, results, skipped, expired, sample>>
Parts == <<cfg, detector, predictor>>

(* The error of ReadInConfig is ignored, also for a file given by --config; *)
(* a missing home directory and values of a wrong type are fatal.           *)
ReadConfig ==
  /\ \/ Proceed("config", "detector") /\ cfg' \in ConfigFiles
     \/ step = "config" /\ End("failure", <<>>) /\ UNCHANGED cfg
  /\ UNCHANGED <<detector, predictor, cmd, Loop>>

(* A part that cannot be made is warned of, and stays nil.                  *)
InitComponents ==
  /\ Proceed("detector", "command")
  /\ detector' \in BOOLEAN /\ predictor' \in BOOLEAN
  /\ UNCHANGED <<cfg, cmd, Loop>>

(* cobra parses the arguments, and initialises before it judges them.       *)
Dispatch ==
  /\ \/ \E c \in Commands :
          /\ cmd' = c
          /\ Proceed("command", IF c \in PerDevice THEN "targets" ELSE "fetch")
     \/ step = "command" /\ End("failure", <<>>) /\ UNCHANGED cmd
  /\ UNCHANGED <<Parts, Loop>>

-----------------------------------------------------------------------------
(* healthcheck and predict.                                                *)

Needs(c) == IF c = "healthcheck" THEN detector ELSE predictor

NotInitialized ==
  /\ step = "targets"
  /\ ~Needs(cmd)
  /\ End("failure", <<>>)
  /\ UNCHANGED <<Parts, cmd, Loop>>

GetDefaultDevices == IF cfg.devices # <<>> THEN cfg.devices ELSE <<DefaultDisk>>

(* --all, with an empty list when ListDevices fails; an argument; neither.  *)
ChooseTargets ==
  /\ Needs(cmd)
  /\ \/ detector /\ targets' \in {Disks, <<>>}
     \/ \E d \in Devices : targets' = <<d>>
     \/ targets' = GetDefaultDevices
  /\ todo' = targets'
  /\ Proceed("targets", "loop")
  /\ UNCHANGED <<Parts, cmd, results, skipped, expired, sample>>

(* predict --all asks the detector without a look whether there is one.     *)
NilDetector ==
  /\ \/ step = "targets" /\ cmd = "predict" /\ predictor /\ ~detector
     \/ step = "fetch" /\ cmd = "devices" /\ ~detector
     \/ step = "fetch" /\ cmd = "models" /\ ~predictor
  /\ End("panic", <<>>)
  /\ UNCHANGED <<Parts, cmd, Loop>>

(* Mutant of Expire: the checks get a context that is never done.           *)
ExpireNever ==
  /\ step = "loop"
  /\ cmd = "healthcheck"
  /\ UNCHANGED cliVars

(* Thirty seconds, or --timeout, for all devices together.                  *)
Expire ==
  /\ step = "loop"
  /\ cmd = "healthcheck"
  /\ expired' = TRUE
  /\ UNCHANGED <<step, Parts, cmd, targets, todo, results, skipped,
                 sample, printed, ended>>

(* The first device of the loop: its check or its prediction has answered.  *)
DeviceAnswers ==
  /\ step = "loop"
  /\ todo # <<>>
  /\ todo' = Tail(todo)
  /\ results' = Append(results, Head(todo))
  /\ UNCHANGED <<step, Parts, cmd, targets, skipped, expired, sample, printed,
                 ended>>

(* Mutant of DeviceFails: return where there should be continue.            *)
DeviceFailsLoop ==
  /\ step = "loop"
  /\ todo # <<>>
  /\ todo' = <<>>
  /\ skipped' = Append(skipped, Head(todo))
  /\ UNCHANGED <<step, Parts, cmd, targets, results, expired, sample, printed,
                 ended>>

DeviceFails ==
  /\ step = "loop"
  /\ todo # <<>>
  /\ todo' = Tail(todo)
  /\ skipped' = Append(skipped, Head(todo))
  /\ UNCHANGED <<step, Parts, cmd, targets, results, expired, sample, printed,
                 ended>>

(* CheckDevice returns once its context is done.                            *)
GiveUp == expired /\ DeviceFails

LoopEnds ==
  /\ todo = <<>>
  /\ Proceed("loop", "output")
  /\ UNCHANGED <<Parts, cmd, Loop>>

-----------------------------------------------------------------------------
(* The other commands, and the output.                                     *)

(* What a command has to print: the status and the alerts are constants in  *)
(* the code, and the lists come from elsewhere.                             *)
Data ==
  CASE cmd \in PerDevice -> results
    [] cmd = "devices"   -> Disks
    [] OTHER             -> <<cmd>>

(* generate-sample writes the sample in place.                              *)
Fetched ==
  /\ cmd = "validate" => cfg.detection /\ cfg.prediction
  /\ cmd = "devices" => detector
  /\ cmd = "models" => predictor
  /\ sample' = IF cmd = "generate-sample" THEN "whole" ELSE sample
  /\ Proceed("fetch", "output")
  /\ UNCHANGED <<Parts, cmd, targets, todo, results, skipped, expired>>

(* Mutant of FetchFails: an error is only logged.                           *)
FetchFailsSoftly ==
  /\ cmd \in Lists \cup {"view", "generate-sample"}
  /\ sample' = IF cmd = "generate-sample" THEN "torn" ELSE sample
  /\ Proceed("fetch", "output")
  /\ UNCHANGED <<Parts, cmd, targets, todo, results, skipped, expired>>

(* Every source but that of the status may fail.                            *)
FetchFails ==
  /\ step = "fetch"
  /\ \/ cmd \in Lists \cup {"view", "generate-sample"}
     \/ cmd = "validate" /\ ~(cfg.detection /\ cfg.prediction)
  /\ sample' \in IF cmd = "generate-sample" THEN {"none", "torn"} ELSE {sample}
  /\ End("failure", <<>>)
  /\ UNCHANGED <<Parts, cmd, targets, todo, results, skipped, expired>>

(* Nothing is printed of predictions in a table.                            *)
OutputResults ==
  /\ step = "output"
  /\ \/ End("success", Data)
     \/ cmd = "predictions" /\ End("success", <<>>)
  /\ UNCHANGED <<Parts, cmd, Loop>>

(* An unknown format, data that cannot be marshalled or are of a wrong type.*)
OutputFails ==
  /\ step = "output"
  /\ cmd \in PerDevice \cup Lists \cup {"status"}
  /\ End("failure", <<>>)
  /\ UNCHANGED <<Parts, cmd, Loop>>

-----------------------------------------------------------------------------
CliStep ==
  \/ ReadConfig \/ InitComponents \/ Dispatch
  \/ NotInitialized \/ ChooseTargets \/ NilDetector \/ Expire \/ GiveUp \/ LoopEnds
  \/ Fetched \/ FetchFails \/ OutputResults \/ OutputFails

CliNext == CliStep \/ DeviceAnswers \/ DeviceFails

(* The process runs, and its timer expires; a device may hang for ever.     *)
CliSpec == CliInit /\ [][CliNext]_cliVars /\ WF_cliVars(CliStep)

CliTypeOK ==
  /\ step \in {"config", "detector", "command", "targets", "loop", "fetch", "output", "end"}
  /\ cfg \in ConfigFiles \cup {NoConfig}
  /\ {detector, predictor, expired} \subseteq BOOLEAN
  /\ cmd \in Commands \cup {"none"}
  /\ sample \in {"none", "torn", "whole"}
  /\ ended \in {"no", "success", "failure", "panic"}

(* The elements of s are those of t at the positions P, in the order of t.  *)
PartOf(s, P, t) ==
  \E f \in [DOMAIN s -> P] :
    /\ Range(f) = P
    /\ \A i \in DOMAIN s : s[i] = t[f[i]]
    /\ \A i, j \in DOMAIN s : i < j => f[i] < f[j]

(* Every device that is to be checked, or predicted of, is accounted for as *)
(* often as it is listed and in order, each time either with a result or    *)
(* with a line in the log, whichever devices fail and whenever the deadline *)
(* passes.                                                                  *)
DevicesAccountedFor ==
  LET reached == Len(results) + Len(skipped)
  IN  /\ reached + Len(todo) = Len(targets)
      /\ \A i \in DOMAIN todo : todo[i] = targets[reached + i]
      /\ \E P \in SUBSET (1..reached) :
           PartOf(results, P, targets) /\ PartOf(skipped, (1..reached) \ P, targets)
      /\ step = "output" => todo = <<>>

(* Exit code and output tell the same: a command that fails has printed     *)
(* nothing, and one that succeeds has printed all that it collected (of     *)
(* predictions, perhaps nothing) or has written the whole sample.           *)
OutputMatchesExit ==
  /\ ended \in {"no", "failure", "panic"} => printed = <<>>
  /\ ended = "success" =>
       /\ printed = Data \/ cmd = "predictions"
       /\ cmd \in PerDevice => Len(printed) + Len(skipped) = Len(targets)
       /\ cmd = "generate-sample" => sample = "whole"
       /\ cmd = "validate" => cfg.detection /\ cfg.prediction

(* A health check ends although devices hang.                               *)
HealthcheckEnds == cmd = "healthcheck" ~> ended # "no"
=============================================================================
