---------------------------- MODULE SharedLogger ----------------------------
(***************************************************************************)
(* The goroutines of one process that log through the one global of        *)
(* Logger: the handlers of DeviceAPI and the experiments of Chaos, over    *)
(* devices that come and go.  They share nothing else.                     *)
(***************************************************************************)
EXTENDS DeviceAPI, Chaos

vars == <<loggerVars, apiVars, chaosVars>>

Init == LoggerInit /\ APIInit /\ ChaosInit

(* What a goroutine does by itself.                                         *)
Handling(h) == Handle(h) /\ UNCHANGED chaosVars
Running(x)  == Run(x) /\ UNCHANGED apiVars

Next ==
  \/ Plug /\ UNCHANGED chaosVars
  \/ \E h \in Handlers, r \in Requests : Arrive(h, r) /\ UNCHANGED chaosVars
  \/ \E h \in Handlers : Handling(h)
  \/ \E x \in Experiments, c \in Configs : CallExperiment(x, c) /\ UNCHANGED apiVars
  \/ \E x \in Experiments : Cancel(x) /\ UNCHANGED apiVars
  \/ \E x \in Experiments : Running(x)
  \/ Configure /\ UNCHANGED <<apiVars, chaosVars>>

(* Goroutines are scheduled, the detector and the predictor answer, and the *)
(* timers of experiments fire; no context has to be cancelled.              *)
Fairness ==
  /\ \A h \in Handlers : WF_vars(Handling(h))
  /\ \A x \in Experiments : WF_vars(Running(x))

Spec == Init /\ [][Next]_vars /\ Fairness

-----------------------------------------------------------------------------
(* Type correctness of the three components.                                *)
TypeOK ==
  /\ LoggerTypeOK
  /\ getting \subseteq Handlers \cup Experiments
  /\ APITypeOK
  /\ ChaosTypeOK

(* Every request is answered and every experiment ends, whoever makes the   *)
(* logger and whether or not a context is cancelled.                        *)
WorkEnds ==
  /\ \A h \in Handlers : at[h] # "idle" ~> at[h] = "idle"
  /\ \A x \in Experiments : stage[x] # "idle" ~> stage[x] = "idle"
=============================================================================
