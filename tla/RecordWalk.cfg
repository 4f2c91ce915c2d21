SPECIFICATION MCSpec
CONSTANTS
  Modes = {"strict", "aggressive", "free", "memory"}
  MaxLen = 8
  Window <- MCWindow
  MinSize <- MCMinSize
  MaxSize = 5
  Step <- MCStep
  Claims <- MCClaims
  NoClaim = NoClaim
  MaxMagics = 3
  Sizes = {0, 3, 4, 6}
  Steps <- StepsCode
INVARIANTS
  NoOverlap
  RunRecovered
  NoneSkipped
PROPERTIES
  Terminates
CHECK_DEADLOCK FALSE
