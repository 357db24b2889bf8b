SPECIFICATION Spec
CONSTANTS
  Session = {s1, s2}
  Model = {a, b}
  NoModel = NoModel
  MaxLoaded = 2
  Remote = {}
  MaxRefs = 1
  MaxPerSession = 2
  MaxCopies = 1
  LeasesLapse = FALSE
  OutsideActs = FALSE
  Faults = {}
SYMMETRY Interchangeable
CHECK_DEADLOCK FALSE
INVARIANT HeldStays
