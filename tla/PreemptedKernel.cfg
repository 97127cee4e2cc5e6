SPECIFICATION FairSpec
CONSTANTS
  g1 = g1
  Groups = {g1}
  GroupSize = 3
  NumOfRound = 3
  MaxTrip = 1
INVARIANTS
  SameBarrier
  WritesAreSeen
PROPERTIES
  IsTheKernel
  KernelFinishes
CHECK_DEADLOCK FALSE
