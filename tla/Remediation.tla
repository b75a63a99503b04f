----------------------------- MODULE Remediation -----------------------------
(***************************************************************************)
(* RAIDRemediator of internal/core/remediation/remediator.go.  Several     *)
(* callers ask it at the same time to isolate or to recover controllers.   *)
(* Each call first asks the detector for the present health and then acts  *)
(* on the answer; no lock spans the two, and the metrics go on changing.   *)
(* The detector's CheckSubHealth takes no device: one reading serves every *)
(* controller.  Isolating and recovering are placeholders that log the     *)
(* device; "isolated" is the state of the paths that those lines announce. *)
(***************************************************************************)
EXTENDS HealthRules, FiniteSets, Errors

CONSTANTS
  Callers,             \* goroutines that call Isolate and Recover
  Controllers,         \* RAID controllers: the redundant paths
  PreservePathsRatio,  \* of remediation.Config, in percent
  MinHealthyPaths,
  Readings,            \* what GetRAIDMetrics may answer, besides an error
  MaxErrors            \* bound: answers of GetRAIDMetrics that are errors

ASSUME RemediationAssumption ==
  /\ {PreservePathsRatio, MinHealthyPaths, MaxErrors} \subseteq Nat
  /\ Readings \subseteq [queue : Nat, latency : Nat, retries : Nat]

VARIABLES
  auto,      \* AutoIsolation of remediation.Config
  reading,   \* what GetRAIDMetrics would answer now
  errors,    \* errors it has answered
  pc,        \* pc[p]: the next statement of p's call
  req,       \* req[p]: the arguments of p's call
  seen,      \* seen[p]: the health p's call was told, its local "status"
  res,       \* res[p]: what p's last call returned
  isolated,  \* the controllers announced as isolated and not as recovered
  since      \* history: since[p] is every health there was during p's call

vars == <<auto, reading, errors, pc, req, seen, res, isolated, since>>

Request == [op : {"isolate", "recover"}, type : {"RAID", "other"}, dev : Controllers]

Health == RAIDCheckSubHealth(reading).status

(* What a detector makes of a failed read of its metrics.                   *)
QueueOverflow == Coded("ERR_QUEUE_OVERFLOW", Leaf)

(* A RemediationResult and an error; the zero result has action "".         *)
Answer(action, success, err) == [action |-> action, success |-> success, err |-> err]
Unanswered == Answer("none", FALSE, Nil)

-----------------------------------------------------------------------------
Init ==
  /\ auto \in BOOLEAN
  /\ reading \in Readings
  /\ errors = 0
  /\ pc = [p \in Callers |-> "idle"]
  /\ \E r \in Request : req = [p \in Callers |-> r]
  /\ seen = [p \in Callers |-> "unknown"]
  /\ res = [p \in Callers |-> Unanswered]
  /\ isolated = {}
  /\ since = [p \in Callers |-> {}]

Drift ==
  /\ reading' \in Readings
  /\ since' = [p \in Callers |-> IF pc[p] = "idle" THEN {} ELSE since[p] \cup {Health'}]
  /\ UNCHANGED <<auto, errors, pc, req, seen, res, isolated>>

(* A call's local variable and history go when it returns.                  *)
Return(p, answer) ==
  /\ pc' = [pc EXCEPT ![p] = "idle"]
  /\ res' = [res EXCEPT ![p] = answer]
  /\ seen' = [seen EXCEPT ![p] = "unknown"]
  /\ since' = [since EXCEPT ![p] = {}]

Call(p, r) ==
  /\ pc[p] = "idle"
  /\ pc' = [pc EXCEPT ![p] = "called"]
  /\ req' = [req EXCEPT ![p] = r]
  /\ res' = [res EXCEPT ![p] = Unanswered]
  /\ since' = [since EXCEPT ![p] = {Health}]
  /\ UNCHANGED <<auto, reading, errors, seen, isolated>>

(* The early returns: the wrong device type, and AutoIsolation switched off. *)
Refused(p) == req[p].type # "RAID"
Skipped(p) == req[p].op = "isolate" /\ ~auto

Refuse(p) ==
  /\ pc[p] = "called"
  /\ \/ Refused(p) /\ Return(p, Answer("", FALSE, New(Nil)))
     \/ ~Refused(p) /\ Skipped(p) /\ Return(p, Answer("isolation skipped", FALSE, Nil))
  /\ UNCHANGED <<auto, reading, errors, req, isolated>>

(* Mutant of Needed: a controller that has not failed counts as recovered.  *)
NeededUnlessFailed(p) ==
  IF req[p].op = "isolate" THEN Health # "Healthy" ELSE Health # "Failed"

(* Isolating needs an unhealthy controller, recovering a healthy one.       *)
Needed(p) == (req[p].op = "isolate") = (Health # "Healthy")

CheckSubHealth(p) ==
  /\ pc[p] = "called"
  /\ ~Refused(p)
  /\ ~Skipped(p)
  /\ \/ /\ Needed(p)
        /\ pc' = [pc EXCEPT ![p] = "act"]
        /\ seen' = [seen EXCEPT ![p] = Health]
        /\ UNCHANGED <<res, since>>
     \/ /\ ~Needed(p)
        /\ Return(p, IF req[p].op = "isolate" THEN Answer("no action", TRUE, Nil)
                     ELSE Answer("recovery failed", FALSE, Nil))
  /\ UNCHANGED <<auto, reading, errors, req, isolated>>

CheckFails(p) ==
  /\ pc[p] = "called"
  /\ ~Refused(p)
  /\ ~Skipped(p)
  /\ errors < MaxErrors
  /\ errors' = errors + 1
  /\ Return(p, Answer("", FALSE, Wrap(QueueOverflow)))
  /\ UNCHANGED <<auto, reading, req, isolated>>

(* Mutant of Act: the call has its effect and does not report it.           *)
ActStays(p) ==
  /\ pc[p] = "act"
  /\ isolated' = isolated \cup {req[p].dev}
  /\ pc' = [pc EXCEPT ![p] = "acted"]
  /\ UNCHANGED <<auto, reading, errors, req, seen, res, since>>

Act(p) ==
  /\ pc[p] = "act"
  /\ \/ /\ req[p].op = "isolate"
        /\ isolated' = isolated \cup {req[p].dev}
        /\ Return(p, Answer("isolated", TRUE, Nil))
     \/ /\ req[p].op = "recover"
        /\ isolated' = isolated \ {req[p].dev}
        /\ Return(p, Answer("recovered", TRUE, Nil))
  /\ UNCHANGED <<auto, reading, errors, req>>

Next ==
  \/ Drift
  \/ \E p \in Callers :
       \/ \E r \in Request : Call(p, r)
       \/ Refuse(p)
       \/ CheckSubHealth(p)
       \/ CheckFails(p)
       \/ Act(p)

Spec == Init /\ [][Next]_vars

-----------------------------------------------------------------------------
(* Properties.                                                             *)

Statuses == {"Healthy", "SubHealthy", "Failed"}

Answers ==
  [action : {"none", "", "isolation skipped", "no action", "isolated", "recovery failed",
             "recovered"},
   success : BOOLEAN, err : {Nil, QueueOverflow}]

(* Type correctness.                                                       *)
TypeOK ==
  /\ auto \in BOOLEAN
  /\ reading \in Readings
  /\ errors \in Nat
  /\ pc \in [Callers -> {"idle", "called", "act"}]
  /\ req \in [Callers -> Request]
  /\ seen \in [Callers -> {"unknown"} \cup Statuses]
  /\ res \in [Callers -> Answers]
  /\ isolated \subseteq Controllers
  /\ since \in [Callers -> SUBSET Statuses]

(* However calls and changes of the metrics interleave, a controller is     *)
(* isolated only by a call during which the reading was unhealthy at some   *)
(* moment, with AutoIsolation on, and recovered only by one during which    *)
(* it was healthy at some moment: no call acts on a diagnosis that is older *)
(* than itself.                                                             *)
EffectsAreJustified ==
  [][\A d \in Controllers :
       (d \in isolated) # (d \in isolated') =>
         \E p \in Callers :
           /\ pc[p] = "act" /\ pc'[p] = "idle" /\ req[p].dev = d
           /\ IF d \in isolated' THEN auto /\ since[p] # {"Healthy"}
              ELSE "Healthy" \in since[p]]_vars

(* A caller that is told of an error can tell what failed, though Wrap has  *)
(* been at work on it: Is finds the detector's code, and the answer claims  *)
(* no effect.                                                               *)
ErrorsKeepTheirCode ==
  \A p \in Callers :
    res[p].err # Nil =>
      /\ Is(res[p].err, "ERR_QUEUE_OVERFLOW")
      /\ ~res[p].success /\ res[p].action = ""

(* "at least 50% of the available paths and at least one path are kept"     *)
(* (docs/architecture.md:138, remediator.go:15-16).                         *)
PathsPreserved ==
  LET kept == Cardinality(Controllers \ isolated)
  IN  /\ kept >= MinHealthyPaths
      /\ 100 * kept >= PreservePathsRatio * Cardinality(Controllers)
=============================================================================
