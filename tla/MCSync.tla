-------------------------------- MODULE MCSync --------------------------------
EXTENDS SyncController, TLC

CONSTANT c1

OneCluster == {c1}

FedKind(mode, orphan, adopt) == [mode |-> mode, orphan |-> orphan, adopt |-> adopt]

PlainKind == {FedKind("normal", "none", FALSE)}
LiveKinds == {FedKind("normal", "none", FALSE), FedKind("normal", "adopted", TRUE)}
EveryKind == {FedKind("normal", "none", FALSE), FedKind("normal", "adopted", TRUE),
              FedKind("dryRun", "all", FALSE), FedKind("centralizedHPA", "all", TRUE)}
=============================================================================
