SPECIFICATION Spec
CONSTANTS
  k1 = k1
  k2 = k2
  c1 = c1
  NULL = NULL
  Launches = {k1, k2}
  Copies = {c1}
  MaxRun = 2
  MaxFailure = 0
  MayRelease = TRUE
INVARIANTS
  KernelInfoIsKept
CHECK_DEADLOCK FALSE
