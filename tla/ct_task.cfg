SPECIFICATION Spec
CONSTANTS
  MaxTurns = 2
  MaxFailures = 1
  MaxInbox = 2
  Procs = {p1}
  FaultSets <- Faults
INVARIANTS
  LockCoversWork
  OneConclusion
  GoneIsTrue
  NoTurnUnseen
  AsksAreAnswered
  ClaimIsForThisTurn
PROPERTIES
  EndingsStand
  StopEnds
  LeftoverClears
CHECK_DEADLOCK FALSE
