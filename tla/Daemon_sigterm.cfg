SPECIFICATION FairSpec
CONSTANTS
  h1 = h1
  h2 = h2
  l1 = l1
  HighProcs = {h1}
  LowProcs = {l1}
  Bits = {0}
  Kinds = {0}
  Width = 1
  CountWidth = 2
  NumOfTaskKind = 1
  MaxSignals = 1
PROPERTIES
  ShutsDownOnSignal
CHECK_DEADLOCK FALSE
