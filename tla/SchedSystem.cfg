SPECIFICATION FairSysSpec
CONSTANTS
  h1 = h1
  h2 = h2
  l1 = l1
  HighProcs = {h1, h2}
  LowProcs = {l1}
  Bits = {0}
  Kinds = {0}
  MaxSignals = 2
  MaxChanges = 3
INVARIANTS
  RecordFollowsReports
  HeardLevelIsCurrent
PROPERTIES
  RunningHoldsBack
  UnusedIsFreed
CHECK_DEADLOCK FALSE
