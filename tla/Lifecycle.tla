------------------------------ MODULE Lifecycle ------------------------------
(***************************************************************************)
(* The life of the service process, main and gracefulShutdown of           *)
(* cmd/ioshelfer/main.go: the main goroutine builds and starts the parts,  *)
(* a second goroutine runs the API server, and signals arrive at any time. *)
(* The packages of the engine and of the server are not in the repository: *)
(* each of their calls returns, and may return an error.                   *)
(***************************************************************************)
EXTENDS Naturals, FiniteSets

CONSTANTS
  Signals,     \* SIGINT and SIGTERM
  MaxSignals   \* bound: signals sent to the process

ASSUME LifecycleAssumption == IsFiniteSet(Signals) /\ MaxSignals \in Nat

VARIABLES
  main,      \* the next statement of the main goroutine
  engine,    \* the core engine: "none", "running", "stopped" or "broken"
  server,    \* the goroutine of apiServer.Start
  stopping,  \* server.Stop has been called
  notified,  \* the signals that signal.Notify relays to the channel quit
  quit,      \* the number of signals in quit, whose buffer holds one
  sent,      \* the signals sent so far
  exit       \* "no" while the process runs, then how it ended

vars == <<main, engine, server, stopping, notified, quit, sent, exit>>

Init ==
  /\ main = "flags"
  /\ engine = "none"
  /\ server = "none"
  /\ stopping = FALSE
  /\ notified = {}
  /\ quit = 0
  /\ sent = 0
  /\ exit = "no"

Goto(from, to) ==
  /\ exit = "no"
  /\ main = from
  /\ main' = to

(* log.Fatalf and os.Exit end the process without running deferred calls.   *)
Exit(how) == exit' = how

-----------------------------------------------------------------------------
(* Starting.                                                               *)

ShowVersion ==
  /\ Goto("flags", "end")
  /\ Exit("success")
  /\ UNCHANGED <<engine, server, stopping, notified, quit, sent>>

NextPart == [flags |-> "config", config |-> "monitor", monitor |-> "engine",
             engine |-> "server", server |-> "start"]

(* flag.Parse, initConfig, NewMonitor, NewEngine and NewServer.             *)
Construct ==
  /\ main \in DOMAIN NextPart
  /\ Goto(main, NextPart[main])
  /\ UNCHANGED <<engine, server, stopping, notified, quit, sent, exit>>

ConstructFails ==
  /\ main \in DOMAIN NextPart \ {"flags"}
  /\ Goto(main, "end")
  /\ Exit("failure")
  /\ UNCHANGED <<engine, server, stopping, notified, quit, sent>>

StartEngine ==
  /\ Goto("start", "spawn")
  /\ engine' = "running"
  /\ UNCHANGED <<server, stopping, notified, quit, sent, exit>>

(* Mutant of StartEngineFails: the error is logged, and main goes on.       *)
StartEngineFailsSoftly ==
  /\ Goto("start", "spawn")
  /\ engine' = "broken"
  /\ UNCHANGED <<server, stopping, notified, quit, sent, exit>>

StartEngineFails ==
  /\ Goto("start", "end")
  /\ engine' = "broken"
  /\ Exit("failure")
  /\ UNCHANGED <<server, stopping, notified, quit, sent>>

SpawnServer ==
  /\ Goto("spawn", "notify")
  /\ server' = "spawned"
  /\ UNCHANGED <<engine, stopping, notified, quit, sent, exit>>

-----------------------------------------------------------------------------
(* The goroutine of the API server.                                        *)

Serve ==
  /\ exit = "no"
  /\ server = "spawned"
  /\ server' = "serving"
  /\ UNCHANGED <<main, engine, stopping, notified, quit, sent, exit>>

(* apiServer.Start returns: with an error at any time, as when the port is  *)
(* taken or because Stop has been called, without one only after Stop.      *)
ServerReturns ==
  /\ exit = "no"
  /\ server \in {"spawned", "serving"}
  /\ \/ server' = "failed"
     \/ stopping /\ server' = "returned"
  /\ UNCHANGED <<main, engine, stopping, notified, quit, sent, exit>>

(* Mutant of ServerFatal: a failed server is logged and forgotten.          *)
ServerForgotten ==
  /\ exit = "no"
  /\ server = "failed"
  /\ server' = "returned"
  /\ UNCHANGED <<main, engine, stopping, notified, quit, sent, exit>>

ServerFatal ==
  /\ exit = "no"
  /\ server = "failed"
  /\ Exit("failure")
  /\ UNCHANGED <<main, engine, server, stopping, notified, quit, sent>>

-----------------------------------------------------------------------------
(* Signals and the orderly shutdown.                                       *)

(* Mutant of SignalArrives: quit has no buffer, and a signal that comes     *)
(* before main is blocked on it is dropped.                                 *)
SignalUnbuffered ==
  /\ exit = "no"
  /\ sent < MaxSignals
  /\ sent' = sent + 1
  /\ \E s \in Signals :
       \/ s \in notified /\ quit' \in {quit, 1} /\ exit' = exit
       \/ s \notin notified /\ quit' = quit /\ Exit("killed")
  /\ UNCHANGED <<main, engine, server, stopping, notified>>

(* Mutant of SignalArrives: quit takes any number of signals.               *)
SignalsPileUp ==
  /\ exit = "no"
  /\ sent < MaxSignals
  /\ sent' = sent + 1
  /\ \E s \in Signals :
       \/ s \in notified /\ quit' = quit + 1 /\ exit' = exit
       \/ s \notin notified /\ quit' = quit /\ Exit("killed")
  /\ UNCHANGED <<main, engine, server, stopping, notified>>

(* A signal that is not relayed kills the process, as the system's default  *)
(* is; one that is relayed is dropped if quit is full.                      *)
SignalArrives ==
  /\ exit = "no"
  /\ sent < MaxSignals
  /\ sent' = sent + 1
  /\ \E s \in Signals :
       \/ s \in notified /\ quit' = 1 /\ exit' = exit
       \/ s \notin notified /\ quit' = quit /\ Exit("killed")
  /\ UNCHANGED <<main, engine, server, stopping, notified>>

(* Mutant of Notify: only one of the signals is relayed.                    *)
NotifyOne ==
  /\ Goto("notify", "wait")
  /\ notified' = {CHOOSE s \in Signals : TRUE}
  /\ UNCHANGED <<engine, server, stopping, quit, sent, exit>>

Notify ==
  /\ Goto("notify", "wait")
  /\ notified' = Signals
  /\ UNCHANGED <<engine, server, stopping, quit, sent, exit>>

ReceiveSignal ==
  /\ quit = 1
  /\ Goto("wait", "stopEngine")
  /\ quit' = 0
  /\ UNCHANGED <<engine, server, stopping, notified, sent, exit>>

(* Mutant of StopEngine: an error skips what is left of the shutdown.       *)
StopEngineOrLeave ==
  \/ /\ Goto("stopEngine", "stopServer")
     /\ engine' = "stopped"
     /\ UNCHANGED <<server, stopping, notified, quit, sent, exit>>
  \/ /\ Goto("stopEngine", "exit")
     /\ engine' = "broken"
     /\ UNCHANGED <<server, stopping, notified, quit, sent, exit>>

(* Errors of the two Stops are only logged.                                 *)
StopEngine ==
  /\ Goto("stopEngine", "stopServer")
  /\ engine' \in {"stopped", "broken"}
  /\ UNCHANGED <<server, stopping, notified, quit, sent, exit>>

StopServer ==
  /\ Goto("stopServer", "exit")
  /\ stopping' = TRUE
  /\ UNCHANGED <<engine, server, notified, quit, sent, exit>>

ExitZero ==
  /\ Goto("exit", "end")
  /\ Exit("success")
  /\ UNCHANGED <<engine, server, stopping, notified, quit, sent>>

-----------------------------------------------------------------------------
MainStep ==
  \/ ShowVersion \/ Construct \/ ConstructFails
  \/ StartEngine \/ StartEngineFails \/ SpawnServer
  \/ Notify \/ ReceiveSignal \/ StopEngine \/ StopServer \/ ExitZero

Next == MainStep \/ Serve \/ ServerReturns \/ ServerFatal \/ SignalArrives

Spec == Init /\ [][Next]_vars

(* Both goroutines are scheduled; nothing makes the server return or a      *)
(* signal come.                                                             *)
FairSpec == Spec /\ WF_vars(MainStep) /\ WF_vars(ServerFatal)

-----------------------------------------------------------------------------
(* Properties.                                                             *)

(* Type correctness.                                                       *)
TypeOK ==
  /\ main \in DOMAIN NextPart
              \cup {"start", "spawn", "notify", "wait", "stopEngine", "stopServer", "exit", "end"}
  /\ engine \in {"none", "running", "stopped", "broken"}
  /\ server \in {"none", "spawned", "serving", "failed", "returned"}
  /\ stopping \in BOOLEAN
  /\ notified \subseteq Signals
  /\ quit \in 0..1
  /\ sent \in 0..MaxSignals
  /\ exit \in {"no", "success", "failure", "killed"}

(* Until the shutdown begins, the API is only served on a running engine.   *)
ServesOnRunningEngine ==
  server = "serving" /\ main \in {"start", "spawn", "notify", "wait", "stopEngine"}
    => engine = "running"

(* A service that has started reports success only after both of its parts  *)
(* were told to stop, however the Stops end and whichever signals came.     *)
SuccessMeansStopped ==
  exit = "success" /\ engine # "none" => engine # "running" /\ stopping

(* A signal kills the process in the middle of its work only before         *)
(* gracefulShutdown has asked for the signals: never while it waits for     *)
(* them, and never during the shutdown that an earlier signal began.        *)
KilledOnlyAtStart ==
  exit = "killed" => main \in DOMAIN NextPart \cup {"start", "spawn", "notify"}

(* A signal ends the process, whenever it comes and whatever the server     *)
(* does meanwhile.                                                          *)
SignalEndsProcess == (sent > 0) ~> (exit # "no")

(* The process does not live on without its API: when the server fails, the *)
(* process ends and can be restarted.                                       *)
ServerFailureEndsProcess == (server = "failed") ~> (exit # "no")
=============================================================================
