SPECIFICATION FairSpec
CONSTANTS
  t1 = t1
  t2 = t2
  COMPUTING = COMPUTING
  MEMCPY = MEMCPY
  Threads = {t1, t2}
  Kinds = {COMPUTING, MEMCPY}
  MaxSignals = 2
INVARIANTS
  NoLostWakeup
PROPERTIES
  WaiterStarts
  AbortsWithoutDaemon
CHECK_DEADLOCK FALSE
