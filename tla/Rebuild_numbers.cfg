SPECIFICATION MCSpec
CONSTANTS
  MaxRecords = 4
  Area = 4
  MaxSize = 5
  IdMod = 8
  CountMod = 4
  TestSizes = {1, 2, 3, 5}
  TestIds = {2, 5, 7}
  InnerSizes = {1, 2}
  InnerClaims <- MCInnerClaims
  NoClaim = NoClaim
INVARIANTS
  NumbersJoin
CHECK_DEADLOCK FALSE
