SPECIFICATION MCSpec
CONSTANTS
  Luids = {L1, L2}
  Missing = Missing
  Dash = Dash
  Times = {1, 2, 3}
  MaxFiles = 2
  MaxEvents = 3
  Total = 3
  Logs <- MCLogs
  Second = 2
  Units = {1, 2}
  RecordCap = 2
  MinZ2 = 3
  RareBelow = 2
  MaxTime = 3
  MaxCount = 3
  Manifests <- MCManifests
  Normal <- MCNormal
  Params <- MCParams
  Trees <- MCTrees
INVARIANTS
  SessionsAreRight
  NothingLostInMerge
  PairedAcrossFiles
  InTimeOrder
  BlocksJoin
  GraphAddsUp
  ProcessesAgree
  AnomaliesNeedIds
  DiffTellsEdits
  FieldsAsDeclared
  NamesResolve
  FlattenKeepsValues
CHECK_DEADLOCK FALSE
