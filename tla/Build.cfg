SPECIFICATION MCSpec
CONSTANTS
  b1 = b1
  b2 = b2
  Builds = {b1, b2}
  Capacity = 1
  MaxText = 2
  MaxKill = 1
  Builtin = 0
  NoProgram = NoProgram
INVARIANTS
  OwnBuildIsWhole
  HitsFindFiles
  InliningKeepsMeaning
PROPERTIES
  CompileReturns
CHECK_DEADLOCK FALSE
