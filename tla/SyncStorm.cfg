CONSTANTS
    c1 = c1
    Clusters <- OneCluster
    FedKinds <- PlainKind
    MaxGen = 2
    MaxEvents = 1
    MaxLate = 1
    Faults = {"fedLag", "memberLag", "timeout", "crash", "memberUser"}
SPECIFICATION Spec
INVARIANTS TypeOK FinalizerHeld QuietIsTruthful
PROPERTIES NoCapture
CHECK_DEADLOCK FALSE
