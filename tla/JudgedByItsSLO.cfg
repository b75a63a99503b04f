\* What GetSLOConfig returns for every device type and tier.
SPECIFICATION Spec
CONSTANTS
  QueueThreshold = 10
  LatencyThreshold = 20
  IOPSVarThreshold = 5
  PacketLossThreshold = 1
  FirmwareVersions = {"v1.0", "v2.0"}
  RAIDReadings <- RAIDReadingsDef
  DiskReadings <- DiskReadingsDef
  NetReadings <- NetReadingsDef
  SLIReadings <- SLIReadingsDef
  SLOs <- SLOsDef
INVARIANT JudgedByItsSLO
