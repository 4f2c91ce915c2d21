SPECIFICATION MCSpec
CONSTANTS
  N = 10
  C = 3
  H = 1
  OffsetBase = 5
  Found <- MCFound
  MaxMagics = 4
INVARIANTS
  MagicsAccounted
  ResultDetermined
PROPERTIES
  TilesImage
CHECK_DEADLOCK FALSE
