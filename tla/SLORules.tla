------------------------------- MODULE SLORules -------------------------------
(***************************************************************************)
(* SLOValidator of internal/core/slo/slo.go: the objectives of a device    *)
(* type and service tier, and the verdict on the indicators of a device.   *)
(* Latencies are in milliseconds, throughputs in MB/s, losses in percent,  *)
(* availabilities in hundredths of a percent, confidences in percent.      *)
(***************************************************************************)
EXTENDS HealthRules

DeviceTypes == {"RAID", "Disk", "Network"}   \* the enum's constants
Tiers       == {"critical", "non_critical"}

SLOConfig(tier, latency, throughput, loss, availability) ==
  [tier |-> tier, maxLatency |-> latency, minThroughput |-> throughput,
   maxLoss |-> loss, minAvailability |-> availability]

(* Mutant of configs: the two rows of the disks are exchanged.              *)
configsMixedUp ==
  [k \in {"RAID", "Disk", "Network"} \X Tiers |->
     CASE k = <<"RAID", "critical">>        -> SLOConfig("critical", 50, 500, 10, 9990)
       [] k = <<"RAID", "non_critical">>    -> SLOConfig("non_critical", 100, 200, 20, 9900)
       [] k = <<"Disk", "non_critical">>    -> SLOConfig("critical", 30, 100, 5, 9995)
       [] k = <<"Disk", "critical">>        -> SLOConfig("non_critical", 100, 50, 15, 9800)
       [] k = <<"Network", "critical">>     -> SLOConfig("critical", 10, 1000, 5, 9999)
       [] k = <<"Network", "non_critical">> -> SLOConfig("non_critical", 50, 100, 20, 9900)]

(* The map that initDefaultConfigs fills; its keys are the two parts of the *)
(* strings "RAID_critical", "RAID_non_critical" and so on.                  *)
configs ==
  [k \in {"RAID", "Disk", "Network"} \X Tiers |->
     CASE k = <<"RAID", "critical">>        -> SLOConfig("critical", 50, 500, 10, 9990)
       [] k = <<"RAID", "non_critical">>    -> SLOConfig("non_critical", 100, 200, 20, 9900)
       [] k = <<"Disk", "critical">>        -> SLOConfig("critical", 30, 100, 5, 9995)
       [] k = <<"Disk", "non_critical">>    -> SLOConfig("non_critical", 100, 50, 15, 9800)
       [] k = <<"Network", "critical">>     -> SLOConfig("critical", 10, 1000, 5, 9999)
       [] k = <<"Network", "non_critical">> -> SLOConfig("non_critical", 50, 100, 20, 9900)]

Fallback == SLOConfig("non_critical", 100, 50, 20, 9500)

(* DeviceType.String: the names are in lower case.                          *)
String(deviceType) ==
  CASE deviceType = "RAID" -> "raid"
    [] deviceType = "Disk" -> "disk"
    [] deviceType = "Network" -> "network"

GetSLOConfig(deviceType, tier) ==
  LET key == <<String(deviceType), tier>>
  IN  IF key \in DOMAIN configs THEN configs[key] ELSE Fallback

Violations(config, m) ==
  {v \in {"latency", "throughput", "loss", "availability"} :
     \/ v = "latency" /\ m.latency > config.maxLatency
     \/ v = "throughput" /\ m.throughput < config.minThroughput
     \/ v = "loss" /\ m.loss > config.maxLoss
     \/ v = "availability" /\ m.availability < config.minAvailability}

(* The confidence that each kind of violation lowers the result to.         *)
ConfidenceOf(v) ==
  CASE v = "latency" -> 90 [] v = "throughput" -> 85 [] v = "loss" -> 80 [] v = "availability" -> 70

LowerFor(confidence, v, violations) ==
  IF v \in violations THEN Lesser(confidence, ConfidenceOf(v)) ELSE confidence

(* Mutant of SLOStatus: an availability that is low but tolerable is        *)
(* noted without changing the status.                                       *)
SLOStatusLenient(config, m) ==
  IF m.availability < config.minAvailability
    THEN IF m.availability + 500 < config.minAvailability THEN "Failed" ELSE "Healthy"
  ELSE IF Violations(config, m) # {} THEN "SubHealthy" ELSE "Healthy"

(* An availability more than five percent too low is a failure; it is       *)
(* judged last.                                                             *)
SLOStatus(config, m) ==
  IF m.availability < config.minAvailability
    THEN IF m.availability + 500 < config.minAvailability THEN "Failed" ELSE "SubHealthy"
  ELSE IF Violations(config, m) # {} THEN "SubHealthy" ELSE "Healthy"

ValidateSLO(config, m) ==
  LET violations == Violations(config, m)
      status     == SLOStatus(config, m)
      latency    == LowerFor(100, "latency", violations)
      throughput == LowerFor(latency, "throughput", violations)
      loss       == LowerFor(throughput, "loss", violations)
  IN  [tier |-> config.tier,
       status |-> status,
       violations |-> violations,
       confidence |-> LowerFor(loss, "availability", violations),
       advice |-> IF violations = {} THEN "no action required"
                  ELSE IF status = "Failed" THEN "immediate intervention required"
                  ELSE "monitor closely and consider optimization"]
=============================================================================
