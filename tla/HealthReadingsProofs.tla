------------------------ MODULE HealthReadingsProofs ------------------------
(***************************************************************************)
(* What HealthReadings promises, for all thresholds, all firmware versions *)
(* and all readings of natural numbers.                                    *)
(***************************************************************************)
EXTENDS HealthReadings, TLAPS

(* The readings are always some answer of the monitor.                      *)
ReadingsInv ==
  /\ firmware \in FirmwareVersions
  /\ raid \in RAIDReadings
  /\ disk \in DiskReadings
  /\ net \in NetReadings
  /\ slo \in SLOs
  /\ sli \in SLIReadings

LEMMA ReadingsStay == Spec => []ReadingsInv
<1>1. Init => ReadingsInv
  BY DEF Init, ReadingsInv
<1>2. ReadingsInv /\ [Next]_vars => ReadingsInv'
  BY DEF ReadingsInv, Next, DriftRAID, DriftDisk, DriftNet, DriftSLI, vars
<1>3. QED
  BY <1>1, <1>2, PTL DEF Spec

LEMMA Thresholds ==
  /\ QueueThreshold \in Nat /\ LatencyThreshold \in Nat
  /\ IOPSVarThreshold \in Nat /\ PacketLossThreshold \in Nat
BY RulesAssumption

(* What holds of every verdict on its own.                                  *)
Coherent(v) ==
  /\ v.status \in {"Healthy", "SubHealthy", "Failed"}
  /\ v.confidence \in {85, 90, 92, 93, 95, 99, 100}
  /\ v.status = "Healthy" <=> v.confidence = 100
  /\ v.status = "Healthy" <=> v.advice = "no action required"
  /\ v.status = "Failed" <=> v.advice = "immediate isolation and replacement"

(* The status each detector arrives at when its rules are put together.     *)
LEMMA RAIDVerdict ==
  ASSUME NEW m
  PROVE  /\ Coherent(RAIDCheckSubHealth(m))
         /\ RAIDCheckSubHealth(m).status =
              IF m.retries > 100 THEN "Failed"
              ELSE IF m.latency > LatencyThreshold \/ m.queue >= QueueThreshold
                THEN "SubHealthy" ELSE "Healthy"
BY DEF Coherent, RAIDCheckSubHealth, Override, Queued, Slow, Retrying, Verdict, Fine

LEMMA DiskVerdict ==
  ASSUME NEW m
  PROVE  /\ Coherent(DiskCheckSubHealth(m))
         /\ DiskCheckSubHealth(m).status =
              IF m.sectors > 100 \/ m.variance > IOPSVarThreshold
                THEN "SubHealthy" ELSE "Healthy"
BY DEF Coherent, DiskCheckSubHealth, Override, Verdict, Fine

LEMMA NetworkVerdict ==
  ASSUME NEW m
  PROVE  /\ Coherent(NetworkCheckSubHealth(m))
         /\ NetworkCheckSubHealth(m).status =
              IF m.latency > LatencyThreshold \/ m.loss > PacketLossThreshold
                THEN "SubHealthy" ELSE "Healthy"
BY DEF Coherent, NetworkCheckSubHealth, Override, Verdict, Fine

(* The controller's rules, which take minima where the detector assigns,    *)
(* come to the detector's verdict; the firmware then overrules it.          *)
LEMMA ControllerVerdict ==
  ASSUME NEW m, NEW f
  PROVE  /\ ~Mismatch(f) => CheckHealth(m, f) = RAIDCheckSubHealth(m)
         /\ Mismatch(f) => /\ CheckHealth(m, f) = Verdict("SubHealthy", 85, "update firmware")
                           /\ CheckHealth(m, f).status = "SubHealthy"
<1>1. Lesser(100, 90) = 90 /\ Lesser(95, 90) = 90
  BY DEF Lesser
<1>2. \A c \in {90, 95, 99, 100} : Lesser(c, 85) = 85
  BY DEF Lesser
<1>3. ASSUME ~Mismatch(f) PROVE CheckHealth(m, f) = RAIDCheckSubHealth(m)
  BY <1>1, <1>3 DEF CheckHealth, RAIDCheckSubHealth, Override, Queued, Slow, Retrying, Verdict, Fine
<1>4. ASSUME Mismatch(f) PROVE CheckHealth(m, f) = Verdict("SubHealthy", 85, "update firmware")
  BY <1>1, <1>2, <1>4 DEF CheckHealth, Override, Queued, Slow, Retrying, Verdict, Fine
<1>5. Verdict("SubHealthy", 85, "update firmware").status = "SubHealthy"
  BY DEF Verdict
<1>6. QED
  BY <1>3, <1>4, <1>5

LEMMA ControllerCoherent ==
  ASSUME NEW m, NEW f
  PROVE  Coherent(CheckHealth(m, f))
<1>1. Coherent(Verdict("SubHealthy", 85, "update firmware"))
  BY DEF Coherent, Verdict
<1>2. QED
  BY <1>1, RAIDVerdict, ControllerVerdict

LEMMA EveryVerdictCoherent == \A v \in Verdicts : Coherent(v)
BY RAIDVerdict, DiskVerdict, NetworkVerdict, ControllerCoherent DEF Verdicts

(* Every verdict has a status that callers know and a confidence in         *)
(* percent.                                                                 *)
THEOREM VerdictsAreTyped == Spec => []VerdictType
<1>1. {85, 90, 92, 93, 95, 99, 100} \subseteq 1..100
  OBVIOUS
<1>2. VerdictType
  <2> SUFFICES ASSUME NEW v \in Verdicts
      PROVE  v.status \in {"Healthy", "SubHealthy", "Failed"} /\ v.confidence \in 1..100
    BY DEF VerdictType
  <2>1. QED
    BY <1>1, EveryVerdictCoherent DEF Coherent
<1>3. QED
  BY <1>2, PTL

(* No verdict is half of one rule and half of another.                      *)
THEOREM VerdictsAlwaysCohere == Spec => []VerdictsCohere
<1>1. VerdictsCohere
  BY EveryVerdictCoherent DEF VerdictsCohere, Coherent
<1>2. QED
  BY <1>1, PTL

(* The API's controller check and the detector agree on every reading.      *)
THEOREM ControllerAlwaysAgrees == Spec => []ControllerAgrees
<1>1. ~Mismatch(firmware) => CheckHealth(raid, firmware) = RAIDCheckSubHealth(raid)
  BY ControllerVerdict
<1>2. Mismatch(firmware) => CheckHealth(raid, firmware).status # "Healthy"
  BY ControllerVerdict
<1>3. ControllerAgrees
  BY <1>1, <1>2 DEF ControllerAgrees
<1>4. QED
  BY <1>3, PTL

LEMMA SeverityOrder ==
  Severity("Healthy") = 0 /\ Severity("SubHealthy") = 1 /\ Severity("Failed") = 2
BY DEF Severity

LEMMA RAIDMonotone ==
  ASSUME NEW m \in RAIDReadings, NEW n \in RAIDReadings, WorseRAID(m, n), NEW f
  PROVE  /\ Severity(RAIDCheckSubHealth(m).status) <= Severity(RAIDCheckSubHealth(n).status)
         /\ Severity(CheckHealth(m, f).status) <= Severity(CheckHealth(n, f).status)
<1>1. /\ m.queue \in Nat /\ m.latency \in Nat /\ m.retries \in Nat
      /\ n.queue \in Nat /\ n.latency \in Nat /\ n.retries \in Nat
  BY ReadingsAssumption
<1>2. Severity(RAIDCheckSubHealth(m).status) <= Severity(RAIDCheckSubHealth(n).status)
  BY <1>1, RAIDVerdict, SeverityOrder, Thresholds DEF WorseRAID
<1>3. Severity(CheckHealth(m, f).status) <= Severity(CheckHealth(n, f).status)
  <2>1. CASE Mismatch(f)
    <3>1. CheckHealth(m, f).status = "SubHealthy" /\ CheckHealth(n, f).status = "SubHealthy"
      BY <2>1, ControllerVerdict
    <3>2. Severity(CheckHealth(m, f).status) = 1 /\ Severity(CheckHealth(n, f).status) = 1
      BY <3>1, SeverityOrder
    <3>3. QED
      BY <3>2
  <2>2. CASE ~Mismatch(f)
    BY <2>2, <1>2, ControllerVerdict
  <2>3. QED
    BY <2>1, <2>2
<1>4. QED
  BY <1>2, <1>3

LEMMA DiskMonotone ==
  ASSUME NEW m \in DiskReadings, NEW n \in DiskReadings, WorseDisk(m, n)
  PROVE  Severity(DiskCheckSubHealth(m).status) <= Severity(DiskCheckSubHealth(n).status)
<1>1. m.variance \in Nat /\ m.sectors \in Nat /\ n.variance \in Nat /\ n.sectors \in Nat
  BY ReadingsAssumption
<1>2. QED
  BY <1>1, DiskVerdict, SeverityOrder, Thresholds DEF WorseDisk

LEMMA TrendOrder ==
  /\ TrendRank("decreasing") = 0 /\ TrendRank("stable") = 1 /\ TrendRank("increasing") = 2
  /\ \A m : m.latency \in Nat =>
       TrendRank(LatencyTrend(m)) =
         IF m.latency > 100 THEN 2 ELSE IF m.latency < 50 THEN 0 ELSE 1
<1>1. TrendRank("decreasing") = 0 /\ TrendRank("stable") = 1 /\ TrendRank("increasing") = 2
  BY DEF TrendRank
<1>2. ASSUME NEW m, m.latency \in Nat
      PROVE  TrendRank(LatencyTrend(m)) =
               IF m.latency > 100 THEN 2 ELSE IF m.latency < 50 THEN 0 ELSE 1
  BY <1>1, <1>2 DEF LatencyTrend
<1>3. QED
  BY <1>1, <1>2

LEMMA NetworkMonotone ==
  ASSUME NEW m \in NetReadings, NEW n \in NetReadings, WorseNet(m, n)
  PROVE  /\ Severity(NetworkCheckSubHealth(m).status) <= Severity(NetworkCheckSubHealth(n).status)
         /\ TrendRank(LatencyTrend(m)) <= TrendRank(LatencyTrend(n))
<1>1. m.loss \in Nat /\ m.latency \in Nat /\ n.loss \in Nat /\ n.latency \in Nat
  BY ReadingsAssumption
<1>2. Severity(NetworkCheckSubHealth(m).status) <= Severity(NetworkCheckSubHealth(n).status)
  BY <1>1, NetworkVerdict, SeverityOrder, Thresholds DEF WorseNet
<1>3. TrendRank(LatencyTrend(m)) <= TrendRank(LatencyTrend(n))
  BY <1>1, TrendOrder DEF WorseNet
<1>4. QED
  BY <1>2, <1>3

LEMMA SLIMonotone ==
  ASSUME NEW c \in SLOs, NEW m \in SLIReadings, NEW n \in SLIReadings, WorseSLI(m, n)
  PROVE  Severity(ValidateSLO(c, m).status) <= Severity(ValidateSLO(c, n).status)
<1>1. /\ m.latency \in Nat /\ m.throughput \in Nat /\ m.loss \in Nat /\ m.availability \in Nat
      /\ n.latency \in Nat /\ n.throughput \in Nat /\ n.loss \in Nat /\ n.availability \in Nat
      /\ c.maxLatency \in Nat /\ c.minThroughput \in Nat /\ c.maxLoss \in Nat
      /\ c.minAvailability \in Nat
  BY ReadingsAssumption
<1>2. Violations(c, m) # {} => Violations(c, n) # {}
  BY <1>1 DEF Violations, WorseSLI
<1>3. Severity(SLOStatus(c, m)) <= Severity(SLOStatus(c, n))
  BY <1>1, <1>2, SeverityOrder DEF SLOStatus, WorseSLI
<1>4. QED
  BY <1>3 DEF ValidateSLO

(* Metrics that get worse never make a verdict milder: of all detectors and *)
(* of the controller, for all thresholds.                                   *)
THEOREM NeverMilder == Spec => NeverMilderWhenWorse
<1> DEFINE Monotone ==
      /\ WorseRAID(raid, raid') =>
           /\ Severity(RAIDCheckSubHealth(raid).status) <= Severity(RAIDCheckSubHealth(raid').status)
           /\ Severity(CheckHealth(raid, firmware).status) <= Severity(CheckHealth(raid', firmware).status)
      /\ WorseDisk(disk, disk') =>
           Severity(DiskCheckSubHealth(disk).status) <= Severity(DiskCheckSubHealth(disk').status)
      /\ WorseNet(net, net') =>
           /\ Severity(NetworkCheckSubHealth(net).status) <= Severity(NetworkCheckSubHealth(net').status)
           /\ TrendRank(LatencyTrend(net)) <= TrendRank(LatencyTrend(net'))
      /\ WorseSLI(sli, sli') =>
           Severity(ValidateSLO(slo, sli).status) <= Severity(ValidateSLO(slo, sli').status)
<1>1. ReadingsInv /\ ReadingsInv' => [Monotone]_vars
  BY RAIDMonotone, DiskMonotone, NetworkMonotone, SLIMonotone DEF ReadingsInv
<1>2. QED
  BY <1>1, ReadingsStay, PTL DEF NeverMilderWhenWorse

(* The parts of an SLO validation tell one story, whatever the objectives.  *)
THEOREM ValidationsAlwaysCohere == Spec => []ValidationCoheres
<1> DEFINE V == Violations(slo, sli)
           C == ValidateSLO(slo, sli).confidence
<1>1. V = {} => C = 100
  BY DEF ValidateSLO, LowerFor
<1>2. ASSUME NEW a \in 0..100, NEW v
      PROVE  /\ LowerFor(a, v, V) \in 0..100 \/ v \notin {"latency", "throughput", "loss", "availability"}
             /\ v \in V => LowerFor(a, v, V) < 100
             /\ a < 100 => LowerFor(a, v, V) < 100
  BY DEF LowerFor, Lesser, ConfidenceOf, Violations
<1>3. V # {} => C # 100
  <2> DEFINE c1 == LowerFor(100, "latency", V)
             c2 == LowerFor(c1, "throughput", V)
             c3 == LowerFor(c2, "loss", V)
             c4 == LowerFor(c3, "availability", V)
  <2>1. c1 \in 0..100 /\ ("latency" \in V => c1 < 100)
    BY <1>2
  <2>2. c2 \in 0..100 /\ ("throughput" \in V \/ c1 < 100 => c2 < 100)
    BY <1>2, <2>1
  <2>3. c3 \in 0..100 /\ ("loss" \in V \/ c2 < 100 => c3 < 100)
    BY <1>2, <2>2
  <2>4. "availability" \in V \/ c3 < 100 => c4 < 100
    BY <1>2, <2>3
  <2>5. C = c4
    BY DEF ValidateSLO
  <2>6. V \subseteq {"latency", "throughput", "loss", "availability"}
    BY DEF Violations
  <2>7. QED
    BY <2>1, <2>2, <2>3, <2>4, <2>5, <2>6
<1>4. /\ SLOStatus(slo, sli) = "Healthy" <=> V = {}
      /\ SLOStatus(slo, sli) = "Failed" => "availability" \in V
  BY DEF SLOStatus, Violations
<1>5. ValidationCoheres
  BY <1>1, <1>3, <1>4 DEF ValidationCoheres, ValidateSLO
<1>6. QED
  BY <1>5, PTL

(* A critical service is never judged more mildly, whatever its indicators. *)
THEOREM CriticalAlwaysStricter == Spec => []CriticalIsStricter
<1>1. ASSUME ReadingsInv PROVE CriticalIsStricter
  <2>1. /\ sli.latency \in Nat /\ sli.throughput \in Nat
        /\ sli.loss \in Nat /\ sli.availability \in Nat
    BY <1>1, ReadingsAssumption DEF ReadingsInv
  <2>2. ASSUME NEW c, NEW n,
               c.maxLatency \in Nat, c.minThroughput \in Nat,
               c.maxLoss \in Nat, c.minAvailability \in Nat,
               n.maxLatency \in Nat, n.minThroughput \in Nat,
               n.maxLoss \in Nat, n.minAvailability \in Nat,
               c.maxLatency <= n.maxLatency, c.minThroughput >= n.minThroughput,
               c.maxLoss <= n.maxLoss, c.minAvailability >= n.minAvailability
        PROVE  Severity(ValidateSLO(n, sli).status) <= Severity(ValidateSLO(c, sli).status)
    <3>1. Violations(n, sli) # {} => Violations(c, sli) # {}
      BY <2>1, <2>2 DEF Violations
    <3>2. Severity(SLOStatus(n, sli)) <= Severity(SLOStatus(c, sli))
      BY <2>1, <2>2, <3>1, SeverityOrder DEF SLOStatus
    <3>3. QED
      BY <3>2 DEF ValidateSLO
  <2>3. /\ configs[<<"RAID", "critical">>] = SLOConfig("critical", 50, 500, 10, 9990)
        /\ configs[<<"RAID", "non_critical">>] = SLOConfig("non_critical", 100, 200, 20, 9900)
        /\ configs[<<"Disk", "critical">>] = SLOConfig("critical", 30, 100, 5, 9995)
        /\ configs[<<"Disk", "non_critical">>] = SLOConfig("non_critical", 100, 50, 15, 9800)
        /\ configs[<<"Network", "critical">>] = SLOConfig("critical", 10, 1000, 5, 9999)
        /\ configs[<<"Network", "non_critical">>] = SLOConfig("non_critical", 50, 100, 20, 9900)
    BY DEF configs, Tiers
  <2>4. ASSUME NEW d \in {"RAID", "Disk", "Network"}
        PROVE  Severity(ValidateSLO(configs[<<d, "non_critical">>], sli).status)
                 <= Severity(ValidateSLO(configs[<<d, "critical">>], sli).status)
    <3>1. CASE d = "RAID"
      BY <2>2, <2>3, <3>1 DEF SLOConfig
    <3>2. CASE d = "Disk"
      BY <2>2, <2>3, <3>2 DEF SLOConfig
    <3>3. CASE d = "Network"
      BY <2>2, <2>3, <3>3 DEF SLOConfig
    <3>4. QED
      BY <3>1, <3>2, <3>3
  <2>5. QED
    BY <2>4 DEF CriticalIsStricter
<1>2. QED
  BY <1>1, ReadingsStay, PTL
=============================================================================
