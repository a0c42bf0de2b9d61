CONSTANTS
  h1 = h1
  h2 = h2
  w1 = w1
  w2 = w2
  owner = owner
  Homes = {h1}
  Procs = {w1, w2}
  Workers = {w1, w2}
  HomeOf <- TwoHomes
  RetainOf <- KeepOne
  Blocks = {b1}
  b1 = b1
  b2 = b2
  MaxEvents <- Events
  MaxTime = 2
  MaxFailures = 1
  MayDamage = TRUE
  Fallback = 1
  Stale = 1
SPECIFICATION FairSpec
INVARIANTS AckedIsCovered
PROPERTIES ImplementsRecoveryPoint EventsGetCovered
CHECK_DEADLOCK FALSE
