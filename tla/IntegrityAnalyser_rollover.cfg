SPECIFICATION MCSpec
CONSTANTS
  Area = 24
  Wrap = 16
  MinTicks = 1000000
  KnownProviders <- MCProviders
  NoGuid = NoGuid
INVARIANTS
  RolloversPass
CHECK_DEADLOCK FALSE
