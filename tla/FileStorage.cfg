\* Three goroutines on one device, three metrics, at most one crash or failing
\* operation.  No symmetry, as it is not sound for the liveness property.
SPECIFICATION FairSpec
CONSTANTS
  Procs = {p1, p2, p3}
  Nobody = nobody
  Files = {f1}
  Dirs = {"disk"}
  DirOf <- OneDirectory
  Prepared = {"disk"}
  Stamps = {0, 1}
  Windows = {1}
  MaxClock = 1
  MaxLen = 3
  MaxMishaps = 1
INVARIANTS TypeOK RWExclusion NoSpuriousError
PROPERTIES AppendOnly PoisonIsPermanent ImplementsMetricLog CallsReturn
