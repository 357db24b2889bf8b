SPECIFICATION StopSpec
CONSTANTS
  Session = {s1, s2, s3}
  Model = {a, b, c}
  NoModel = NoModel
  MaxLoaded = 1
  Remote = {c}
  MaxRefs = 1
  MaxPerSession = 1
  MaxCopies = 1
  LeasesLapse = FALSE
  OutsideActs = FALSE
  Faults = {"loadFails", "unloadLost"}
SYMMETRY Sessions
CHECK_DEADLOCK FALSE
INVARIANTS
  HeldStays
  CeilingHolds
  ReportNamesWhatStays
  OneUnloadPerModel
