SPECIFICATION FairSpec
CONSTANTS
  Kind = {k, l}
  What = {x, y}
  Traced = {}
  BurstTokens = 1
  DailyRows = 1
  MaxEvents = 3
  MaxUpsets = 1
  Restarts = TRUE
CHECK_DEADLOCK FALSE
INVARIANTS
  LatestStateKept
  EveryEventCounted
PROPERTIES
  QuietStateIsStored
  ShareHolds
