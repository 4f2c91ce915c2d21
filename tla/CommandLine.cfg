SPECIFICATION MCSpec
CONSTANTS
  Names = {A, B}
  MaxItems = 2
  MaxChunks = 2
  Files = {F1, F2}
  Bases = {B1}
  MaxPaths = 2
  MaxFinds = 3
  Second = 2
  Units = {1, 2}
  Nobody = Nobody
INVARIANTS
  EntriesHold
  FilesAreOwn
  CleanLogsAreClean
  EarliestListed
  RebuiltNow
CHECK_DEADLOCK FALSE
