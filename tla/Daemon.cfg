SPECIFICATION MCFairSpec
CONSTANTS
  h1 = h1
  h2 = h2
  l1 = l1
  HighProcs = {h1, h2}
  LowProcs = {l1}
  Bits = {0, 1, 2}
  Kinds = {0, 1}
  Width = 3
  CountWidth = 2
  NumOfTaskKind = 2
  MaxSignals = 1
INVARIANTS
  TypeOK
  RunLevelIsCensus
  WordsAreSets
  DeadAreForgotten
  SleepsAnnounced
PROPERTIES
  EveryCallAnswered
  TerminatesOnNextMessage
CHECK_DEADLOCK FALSE
