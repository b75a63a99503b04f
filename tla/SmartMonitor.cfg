\* Two disks, one of them with two collectors, both kinds of storage.
SPECIFICATION Spec
CONSTANTS
  c1 = c1
  c2 = c2
  d1 = d1
  d2 = d2
  Disks = {d1, d2}
  Collectors = {c1, c2}
  Collects <- Assigned
  MaxWear = 2
  Dumps <- DumpsAt
  Storages = {"file", "memory"}
  Windows = {1, 2}
  MaxClock = 1
  MaxLog = 3
INVARIANTS TypeOK CollectorOrder PredictionAgreesWithHealth WearNeverDecreases PredictsFailureInMemory
