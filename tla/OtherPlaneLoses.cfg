SPECIFICATION Spec
CONSTANTS
  Kinds <- MCKinds
  MaxUids = 1
  MaxEvents = 3
PROPERTIES
  OthersKept
CHECK_DEADLOCK FALSE
