------------------------ MODULE MCManagedDispatcher ------------------------
EXTENDS ManagedDispatcher, TLC

CONSTANTS c1, c2

MCClusters == {c1, c2}
=============================================================================
