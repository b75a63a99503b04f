\* Three signals, two of them different; two disks.
SPECIFICATION ProgramsSpec
CONSTANTS
  Signals = {"SIGINT", "SIGTERM"}
  MaxSignals = 3
  Devices = {"sda", "sdb", "sdc"}
  Disks <- DisksDef
  DefaultDisk = "sda"
  ConfigFiles <- ConfigFilesDef
INVARIANTS ProgramsTypeOK ServesOnRunningEngine SuccessMeansStopped KilledOnlyAtStart
INVARIANTS DevicesAccountedFor OutputMatchesExit
PROPERTIES SignalEndsProcess ServerFailureEndsProcess HealthcheckEnds
CHECK_DEADLOCK FALSE
