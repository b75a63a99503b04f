\* Only the base directory exists, as NewFileStorage leaves it; no mishaps.
SPECIFICATION Spec
CONSTANTS
  Procs = {p1, p2}
  Nobody = nobody
  Files = {f1}
  Dirs = {"disk"}
  DirOf <- OneDirectory
  Prepared = {}
  Stamps = {0, 1}
  Windows = {1}
  MaxClock = 1
  MaxLen = 2
  MaxMishaps = 0
INVARIANT StoreSavesMetric
