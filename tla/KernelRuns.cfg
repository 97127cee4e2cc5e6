SPECIFICATION FairSpec
CONSTANTS
  k1 = k1
  k2 = k2
  c1 = c1
  NULL = NULL
  Launches = {k1, k2}
  Copies = {c1}
  MaxRun = 2
  MaxFailure = 1
  MayRelease = TRUE
INVARIANTS
  ObjectsAreExclusive
  RunsSeeTheirHeader
PROPERTIES
  KeepsTheOrder
  EveryCommandEnds
CHECK_DEADLOCK FALSE
