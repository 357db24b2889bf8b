SPECIFICATION Spec
CONSTANTS
  m1 = m1
  m2 = m2
  p1 = p1
  p2 = p2
  Models = {m1, m2}
  Providers = {p1, p2}
  ProviderOf <- Serves
  Translated = {}
  Calls = {c1}
  Threshold = 2
  MaxAttempts = 1
  EarlyEnds = TRUE
CHECK_DEADLOCK FALSE
INVARIANTS
  ProbeIsCarried
