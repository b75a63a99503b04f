\* One handler and one experiment, one device that comes and goes.
SPECIFICATION Spec
CONSTANTS
  Handlers = {h1}
  Devices = {"disk"}
  NoDevice = "none"
  Experiments = {x1}
INVARIANTS TypeOK ResultTellsOfTheFault
PROPERTIES CodesAreTrue ConfiguredLoggerStays WorkEnds
