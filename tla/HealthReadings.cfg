\* Readings just below, at and just above each threshold.
SPECIFICATION Spec
CONSTANTS
  QueueThreshold = 10
  LatencyThreshold = 20
  IOPSVarThreshold = 5
  PacketLossThreshold = 1
  FirmwareVersions = {"v1.0", "v2.0"}
  RAIDReadings <- RAIDReadingsDef
  DiskReadings <- DiskReadingsDef
  NetReadings <- NetReadingsDef
  SLIReadings <- SLIReadingsDef
  SLOs <- SLOsDef
INVARIANTS VerdictType VerdictsCohere ControllerAgrees ValidationCoheres CriticalIsStricter
PROPERTY NeverMilderWhenWorse
