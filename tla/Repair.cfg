SPECIFICATION MCSpec
CONSTANTS
  N = 7
  C = 3
  H = 1
  OffsetBase = 0
  FileHeader = 1
  NoChunk = NoChunk
  Found <- MCFound
  MaxStrays = 1
INVARIANTS
  ReportTrue
  RepairedVerifies
CHECK_DEADLOCK FALSE
