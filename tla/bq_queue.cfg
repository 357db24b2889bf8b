SPECIFICATION FairQueueSpec
CONSTANTS
  a = a
  b = b
  Session = {s, w}
  Model = {a, b}
  NoModel = NoModel
  MaxLoaded = 1
  Remote = {}
  MaxRefs = 1
  MaxPerSession = 1
  MaxCopies = 1
  LeasesLapse = TRUE
  OutsideActs = FALSE
  Faults = {"loadFails"}
  Jobs = 2
  ModelOf <- Measures
  Worker = w
  Generations = 1
  MaxDowns = 1
INVARIANTS
  OneJobRuns
  BenchmarkHoldsItsModel
PROPERTIES
  VerdictsStand
  JobsEnd
CHECK_DEADLOCK FALSE
