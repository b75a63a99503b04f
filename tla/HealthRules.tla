----------------------------- MODULE HealthRules -----------------------------
(***************************************************************************)
(* The verdicts on one reading of the metrics: CheckSubHealth of the RAID, *)
(* disk and network detectors (internal/core/detection/detector.go) and    *)
(* CheckHealth of the RAID controller (pkg/raid/controller.go), which      *)
(* judges the same reading a second time.  Confidence is in percent.  The  *)
(* traffic analyzer (pkg/network/traffic.go) reads the network metrics too *)
(* and names a trend.                                                      *)
(***************************************************************************)
EXTENDS Naturals

CONSTANTS
  QueueThreshold,       \* detection.Config, raid.Config
  LatencyThreshold,
  IOPSVarThreshold,
  PacketLossThreshold

ASSUME RulesAssumption ==
  {QueueThreshold, LatencyThreshold, IOPSVarThreshold, PacketLossThreshold} \subseteq Nat

Verdict(status, confidence, advice) ==
  [status |-> status, confidence |-> confidence, advice |-> advice]

Fine == Verdict("Healthy", 100, "no action required")

(* A rule that applies overwrites the verdict of the rules before it.       *)
Override(applies, verdict, before) == IF applies THEN verdict ELSE before

Queued   == Verdict("SubHealthy", 95, "temporary isolation recommended")
Retrying == Verdict("Failed", 99, "immediate isolation and replacement")
Slow(confidence) ==
  Verdict("SubHealthy", confidence, "check controller firmware and isolate if persistent")

(* Mutant of RAIDCheckSubHealth: the latency rule comes last.               *)
RAIDCheckLatencyLast(m) ==
  LET queued   == Override(m.queue >= QueueThreshold, Queued, Fine)
      retrying == Override(m.retries > 100, Retrying, queued)
  IN  Override(m.latency > LatencyThreshold, Slow(90), retrying)

RAIDCheckSubHealth(m) ==
  LET queued == Override(m.queue >= QueueThreshold, Queued, Fine)
      slow   == Override(m.latency > LatencyThreshold, Slow(90), queued)
  IN  Override(m.retries > 100, Retrying, slow)

(* Mutant of DiskCheckSubHealth: the sector rule keeps the advice of the    *)
(* rule before it.                                                          *)
DiskCheckKeepsAdvice(m) ==
  LET erratic == Override(m.variance > IOPSVarThreshold,
                          Verdict("SubHealthy", 92, "monitor disk performance closely"), Fine)
  IN  Override(m.sectors > 100, Verdict("SubHealthy", 95, erratic.advice), erratic)

DiskCheckSubHealth(m) ==
  LET erratic == Override(m.variance > IOPSVarThreshold,
                          Verdict("SubHealthy", 92, "monitor disk performance closely"), Fine)
  IN  Override(m.sectors > 100, Verdict("SubHealthy", 95, "schedule disk replacement"), erratic)

NetworkCheckSubHealth(m) ==
  LET losing == Override(m.loss > PacketLossThreshold,
                         Verdict("SubHealthy", 93, "check network interface and routing"), Fine)
  IN  Override(m.latency > LatencyThreshold,
               Verdict("SubHealthy", 90, "investigate network congestion"), losing)

Lesser(a, b) == IF a < b THEN a ELSE b

(* The version the controller's configuration expects differs from v1.0.    *)
Mismatch(firmware) == firmware \notin {"", "v1.0"}

(* Mutants of CheckHealth: the latency rule takes the confidence it has;    *)
(* the confidence is computed from nothing.                                 *)
CheckHealthKeepsConfidence(m, firmware) ==
  LET queued   == Override(m.queue >= QueueThreshold, Queued, Fine)
      slow     == Override(m.latency > LatencyThreshold, Slow(queued.confidence), queued)
      retrying == Override(m.retries > 100, Retrying, slow)
  IN  Override(Mismatch(firmware),
               Verdict("SubHealthy", Lesser(retrying.confidence, 85), "update firmware"), retrying)

CheckHealthUnsure(m, firmware) ==
  LET queued   == Override(m.queue >= QueueThreshold, Queued, Fine)
      slow     == Override(m.latency > LatencyThreshold, Slow(Lesser(0, 90)), queued)
      retrying == Override(m.retries > 100, Retrying, slow)
  IN  Override(Mismatch(firmware),
               Verdict("SubHealthy", Lesser(retrying.confidence, 85), "update firmware"), retrying)

(* The controller's own copy of the detector's rules, in which the latency  *)
(* rule lowers a confidence instead of setting it, and then the firmware    *)
(* rule: it has the last word, even over Failed.                            *)
CheckHealth(m, firmware) ==
  LET queued   == Override(m.queue >= QueueThreshold, Queued, Fine)
      slow     == Override(m.latency > LatencyThreshold,
                           Slow(Lesser(queued.confidence, 90)), queued)
      retrying == Override(m.retries > 100, Retrying, slow)
  IN  Override(Mismatch(firmware),
               Verdict("SubHealthy", Lesser(retrying.confidence, 85), "update firmware"), retrying)

(* MonitorLatency compares the one reading it takes with two constants, in  *)
(* milliseconds, whatever the window it is asked for.                       *)
LatencyTrend(m) ==
  CASE m.latency > 100 -> "increasing"
    [] m.latency < 50  -> "decreasing"
    [] OTHER           -> "stable"

=============================================================================
