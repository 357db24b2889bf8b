SPECIFICATION FairSpec
CONSTANTS
  Session = {s1, s2}
  Model = {a, b}
  NoModel = NoModel
  MaxLoaded = 1
  Remote = {}
  MaxRefs = 1
  MaxPerSession = 1
  MaxCopies = 1
  LeasesLapse = TRUE
  OutsideActs = TRUE
  Faults = {"loadFails", "listFails", "listStale"}
CHECK_DEADLOCK FALSE
INVARIANTS
  Books
  EveryMarkIsAnswered
PROPERTIES
  NeverUnloadsOthers
  NothingStranded
