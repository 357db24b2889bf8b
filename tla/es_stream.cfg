SPECIFICATION Spec
CONSTANTS
  SubscriberBuffer = 3
  ResumeLimit = 7
  FreshTail = 2
  MaxEvents = 7
  MaxCloses = 2
  Faults = {}
INVARIANTS
  TypeOK
  NoneMissed
PROPERTIES
  ImplementsFeed
  EveryEventGiven
CHECK_DEADLOCK FALSE
