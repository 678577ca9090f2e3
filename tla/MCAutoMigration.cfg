CONSTANTS
    c1 = c1
    c2 = c2
    Absent = Absent
    Cluster <- Clusters
    Hash <- Hashes
    Scenarios <- ScenarioSet
    MaxReplicas = 3
SPECIFICATION Spec
INVARIANTS
    TypeOK
    RoomIsUsed
PROPERTIES
    NoMove
    TaintedShrinks
    Settles
CHECK_DEADLOCK FALSE
