SPECIFICATION Spec
CONSTANTS
  Cluster = {"c1", "c2"}
  Policy <- MCPolicy
  policyName <- MCNames
  Contents <- MCContents
  Start <- MCStart
  StartClusters <- MCStartClusters
  MaxEdits = 2
  MaxFaults = 1
INVARIANTS
  TypeOK
  QuietIsConsidered
  PlacedRight
PROPERTIES
  Drains
  NothingUndone
CHECK_DEADLOCK FALSE
