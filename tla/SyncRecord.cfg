CONSTANTS
    c1 = c1
    Clusters <- OneCluster
    FedKinds <- EveryKind
    MaxGen = 2
    MaxEvents = 1
    MaxLate = 1
    Faults = {"crash", "failure", "lostReply", "clusterDeleted"}
SPECIFICATION Spec
INVARIANTS Tracked NoLeftovers
CHECK_DEADLOCK FALSE
