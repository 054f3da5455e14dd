CONSTANTS
    NumFrames = 1
    KindOf <- OneMgmt
    SyncPipes = {"HI"}
    NumSyncs = 1
    QueueCap <- Caps
    MaxFaults = 0
SPECIFICATION Spec
INVARIANTS SyncOkMeansCarried
CHECK_DEADLOCK FALSE
