CONSTANTS
    MaxVersion = 3
    MaxUID = 2
    MaxEvents = 1
    Invalid = {2}
    Faults = {"fedLag", "crash", "failure", "userDeletesFed"}
SPECIFICATION FairSpec
INVARIANT QuietIsFederated
PROPERTIES CreatedUnderFinalizer GetsFederated SourceDeletionCompletes NoneLeftBehind
CHECK_DEADLOCK FALSE
