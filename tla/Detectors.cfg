SPECIFICATION Spec
CONSTANTS
  Window = 2
  KillThreshold = 3
  StopThreshold = 2
  LostThreshold = 1
  Slices <- MCSlices
  Images <- SessionSets
  MaxKills = 5
  MaxTime = 4
INVARIANTS
  ClustersTold
  ClustersGenuine
  ActivityDecides
  BlindSpotsTold
CHECK_DEADLOCK FALSE
