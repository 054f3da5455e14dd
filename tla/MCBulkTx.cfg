CONSTANTS
    NumFrames = 4
    KindOf <- MixedFrames
    SyncPipes = {"HI", "H2C"}
    NumSyncs = 2
    QueueCap <- Caps
    MaxFaults = 1
SPECIFICATION FairSpec
INVARIANTS TypeOK DataFramesOwned QueuesInOrder DataTransferIsInflight NoStalePending
    AttachSyncIsSafe
PROPERTIES QueuesDrain
CHECK_DEADLOCK FALSE
