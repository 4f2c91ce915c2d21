SPECIFICATION MCSpec
CONSTANTS
  Area = 24
  Wrap = 16
  MinTicks = 1000000
  KnownProviders <- MCProviders
  NoGuid = NoGuid
INVARIANTS
  SoundIsClean
  DeletionsTold
  ForgeriesTold
CHECK_DEADLOCK FALSE
