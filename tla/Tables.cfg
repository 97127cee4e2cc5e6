SPECIFICATION MCSpec
CONSTANTS
  t1 = t1
  t2 = t2
  t3 = t3
  q1 = q1
  p1 = p1
  k1 = k1
  k2 = k2
  NULL = NULL
  NoLaunch = NoLaunch
  Threads = {t1, t2, t3}
  Queues = {q1}
  Programs = {p1}
  Kernels = {k1, k2}
  MaxRef = 2
INVARIANTS
  TypeOK
  LegalCallsSucceed
  EntriesFollowReferences
  CallsGoOn
  WorkGroupSizeFits
  HeaderIsByGroup
  SavedDataIsKept
SYMMETRY Symmetric
CHECK_DEADLOCK FALSE
