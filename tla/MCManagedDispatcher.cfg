CONSTANTS
    c1 = c1
    c2 = c2
    Clusters <- MCClusters
SPECIFICATION FairSpec
INVARIANTS TypeOK AllReported StatusTruthful
PROPERTIES ResultsFrozen WaitEnds ForkJoinRefined
CHECK_DEADLOCK FALSE
