\* A single crash or failing operation.
SPECIFICATION Spec
CONSTANTS
  Procs = {p1, p2}
  Nobody = nobody
  Files = {f1}
  Dirs = {"disk"}
  DirOf <- OneDirectory
  Prepared = {"disk"}
  Stamps = {0, 1}
  Windows = {1}
  MaxClock = 1
  MaxLen = 2
  MaxMishaps = 1
INVARIANT HistorySurvivesOneFault
