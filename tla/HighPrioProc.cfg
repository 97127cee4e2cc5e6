SPECIFICATION FairSpec
CONSTANTS
  t1 = t1
  t2 = t2
  COMPUTING = COMPUTING
  MEMCPY = MEMCPY
  Tasks = {t1, t2}
  Kinds = {COMPUTING, MEMCPY}
INVARIANTS
  TypeOK
  CountIsRunning
  NoLostTick
  ToldIsReported
PROPERTIES
  ReservesTheResource
  IsHighClient
  RunningBecomesKnown
