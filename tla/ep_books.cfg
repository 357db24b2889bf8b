SPECIFICATION FairSpec
CONSTANTS
  Buffer = 3
  Batch = 2
  MaxDoublings = 3
  MaxEvents = 6
CHECK_DEADLOCK FALSE
INVARIANTS
  Accounted
  InOrder
PROPERTIES
  OutageEnds
