CONSTANTS
    c1 = c1
    Clusters <- OneCluster
    FedKinds <- LiveKinds
    MaxGen = 2
    MaxEvents = 1
    MaxLate = 1
    Faults = {"memberLag", "unready"}
SPECIFICATION FairSpec
PROPERTIES DeletionCompletes Converges
CHECK_DEADLOCK FALSE
