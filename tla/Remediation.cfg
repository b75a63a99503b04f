\* Two callers, two controllers, one reading for each verdict.
SPECIFICATION Spec
CONSTANTS
  QueueThreshold = 10
  LatencyThreshold = 20
  IOPSVarThreshold = 5
  PacketLossThreshold = 1
  Callers = {p1, p2}
  Controllers = {raid0, raid1}
  PreservePathsRatio = 50
  MinHealthyPaths = 1
  Readings <- ReadingsDef
  MaxErrors = 1
SYMMETRY Symmetric
INVARIANTS TypeOK ErrorsKeepTheirCode
PROPERTY EffectsAreJustified
