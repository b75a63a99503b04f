--------------------------- MODULE HealthReadings ---------------------------
(***************************************************************************)
(* The metrics that the eBPF monitor reports and the service level         *)
(* indicators of a device, which change by themselves, and what the        *)
(* verdicts of HealthRules and SLORules on them promise.                   *)
(***************************************************************************)
EXTENDS SLORules

CONSTANTS
  FirmwareVersions,  \* versions a raid.Config may expect
  RAIDReadings,      \* answers of GetRAIDMetrics,
  DiskReadings,      \* of GetDiskMetrics
  NetReadings,       \* and of GetNetworkMetrics
  SLIReadings,       \* the SLIMetrics of a device
  SLOs               \* the objectives it is held to

ASSUME ReadingsAssumption ==
  /\ RAIDReadings \subseteq [queue : Nat, latency : Nat, retries : Nat]
  /\ DiskReadings \subseteq [variance : Nat, sectors : Nat]
  /\ NetReadings \subseteq [loss : Nat, latency : Nat]
  /\ SLIReadings \subseteq
       [latency : Nat, throughput : Nat, loss : Nat, availability : Nat]
  /\ SLOs \subseteq
       [tier : Tiers, maxLatency : Nat, minThroughput : Nat, maxLoss : Nat, minAvailability : Nat]

VARIABLES
  firmware,  \* the version the controller's configuration expects
  raid,      \* the metrics a call would read now
  disk,
  net,
  slo,       \* the objectives of the device
  sli        \* its indicators now

vars == <<firmware, raid, disk, net, slo, sli>>

Init ==
  /\ firmware \in FirmwareVersions
  /\ raid \in RAIDReadings
  /\ disk \in DiskReadings
  /\ net \in NetReadings
  /\ slo \in SLOs
  /\ sli \in SLIReadings

DriftRAID == raid' \in RAIDReadings /\ UNCHANGED <<firmware, disk, net, slo, sli>>
DriftDisk == disk' \in DiskReadings /\ UNCHANGED <<firmware, raid, net, slo, sli>>
DriftNet  == net' \in NetReadings /\ UNCHANGED <<firmware, raid, disk, slo, sli>>
DriftSLI  == sli' \in SLIReadings /\ UNCHANGED <<firmware, raid, disk, net, slo>>

Next == DriftRAID \/ DriftDisk \/ DriftNet \/ DriftSLI

Spec == Init /\ [][Next]_vars

-----------------------------------------------------------------------------
(* Properties.                                                             *)

Severity(status) ==
  CASE status = "Healthy" -> 0 [] status = "SubHealthy" -> 1 [] status = "Failed" -> 2

TrendRank(trend) ==
  CASE trend = "decreasing" -> 0 [] trend = "stable" -> 1 [] trend = "increasing" -> 2

Verdicts ==
  {RAIDCheckSubHealth(raid), CheckHealth(raid, firmware), DiskCheckSubHealth(disk), NetworkCheckSubHealth(net)}

(* Type correctness: every verdict has a status the callers know.           *)
VerdictType ==
  \A v \in Verdicts :
    v.status \in {"Healthy", "SubHealthy", "Failed"} /\ v.confidence \in 1..100

(* A device is called healthy exactly when the verdict is certain and       *)
(* advises nothing: the rules, which overwrite each other's assignments one *)
(* by one, never leave a verdict that is half of one rule and half of       *)
(* another.                                                                 *)
VerdictsCohere ==
  \A v \in Verdicts :
    /\ v.status = "Healthy" <=> v.confidence = 100
    /\ v.status = "Healthy" <=> v.advice = "no action required"
    /\ v.status = "Failed" <=> v.advice = "immediate isolation and replacement"

(* The API's controller check and the detector that remediation asks judge  *)
(* the same reading twice: they agree unless the firmware is mismatched,    *)
(* and then the controller still never calls healthy what the detector does *)
(* not.                                                                     *)
ControllerAgrees ==
  LET detector   == RAIDCheckSubHealth(raid)
      controller == CheckHealth(raid, firmware)
  IN  /\ ~Mismatch(firmware) => controller = detector
      /\ detector.status # "Healthy" => controller.status # "Healthy"

(* The status of an SLO validation, its list of violations, its confidence  *)
(* and its advice, four separate assignments after every check, tell one    *)
(* story.                                                                   *)
ValidationCoheres ==
  LET v == ValidateSLO(slo, sli)
  IN  /\ v.status = "Healthy" <=> v.violations = {}
      /\ v.status = "Healthy" <=> v.confidence = 100
      /\ v.status = "Failed" <=> v.advice = "immediate intervention required"
      /\ v.status = "Failed" => "availability" \in v.violations

(* A critical service is never judged more mildly than a non-critical one   *)
(* on the same kind of device with the same indicators.                     *)
CriticalIsStricter ==
  \A d \in {"RAID", "Disk", "Network"} :
    Severity(ValidateSLO(configs[<<d, "non_critical">>], sli).status)
      <= Severity(ValidateSLO(configs[<<d, "critical">>], sli).status)

WorseRAID(m, n) == m.queue <= n.queue /\ m.latency <= n.latency /\ m.retries <= n.retries
WorseDisk(m, n) == m.variance <= n.variance /\ m.sectors <= n.sectors
WorseNet(m, n)  == m.loss <= n.loss /\ m.latency <= n.latency
WorseSLI(m, n) ==
  /\ m.latency <= n.latency /\ m.throughput >= n.throughput
  /\ m.loss <= n.loss /\ m.availability >= n.availability

(* Metrics that get worse never make a verdict milder, in any detector, in  *)
(* the controller and in the SLO validator, although later rules overwrite  *)
(* earlier ones; nor does the traffic analyzer then name a better trend.    *)
NeverMilderWhenWorse ==
  [][/\ WorseRAID(raid, raid') =>
          /\ Severity(RAIDCheckSubHealth(raid).status) <= Severity(RAIDCheckSubHealth(raid').status)
          /\ Severity(CheckHealth(raid, firmware).status) <= Severity(CheckHealth(raid', firmware).status)
     /\ WorseDisk(disk, disk') =>
          Severity(DiskCheckSubHealth(disk).status) <= Severity(DiskCheckSubHealth(disk').status)
     /\ WorseNet(net, net') =>
          /\ Severity(NetworkCheckSubHealth(net).status) <= Severity(NetworkCheckSubHealth(net').status)
          /\ TrendRank(LatencyTrend(net)) <= TrendRank(LatencyTrend(net'))
     /\ WorseSLI(sli, sli') =>
          Severity(ValidateSLO(slo, sli).status) <= Severity(ValidateSLO(slo, sli').status)
    ]_vars

(* What a comment says, which the code does not do: "GetSLOConfig retrieves *)
(* the SLO configuration for a specific device type and service tier"       *)
(* (slo.go:128), so that a device is judged by its own objectives.          *)
JudgedByItsSLO ==
  \A d \in DeviceTypes, t \in Tiers :
    ValidateSLO(GetSLOConfig(d, t), sli) = ValidateSLO(configs[<<d, t>>], sli)
=============================================================================
