CONSTANTS
    NumFrames = 2
    KindOf <- TwoMgmt
    SyncPipes = {"H2C"}
    NumSyncs = 1
    QueueCap <- Caps
    MaxFaults = 0
SPECIFICATION Spec
INVARIANTS MgmtFramesOwned
CHECK_DEADLOCK FALSE
