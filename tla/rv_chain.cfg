SPECIFICATION FairSpec
CONSTANTS
  m1 = m1
  m2 = m2
  p1 = p1
  p2 = p2
  Models = {m1, m2}
  Providers = {p1, p2}
  ProviderOf <- Serves
  Translated = {p2}
  Calls = {c1, c2}
  Threshold = 2
  MaxAttempts = 2
  EarlyEnds = FALSE
CHECK_DEADLOCK FALSE
INVARIANTS
  RegistryHolds
  ProbeIsCarried
  BudgetHolds
PROPERTIES
  Recovers
