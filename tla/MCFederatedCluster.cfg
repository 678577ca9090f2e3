SPECIFICATION Spec
CONSTANTS
  Kinds <- MCKinds
  MaxUids = 2
  MaxEvents = 3
INVARIANTS
  TypeOK
  NoneStranded
PROPERTIES
  NamespaceOwned
  Settles
CHECK_DEADLOCK FALSE
