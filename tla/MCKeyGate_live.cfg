CONSTANTS
    NumFrames <- OneEach
    MaxAssocs = 2
    MaxLosses = 1
    MaxKeyOps = 2
    KeyOps = {"ptk", "gtk"}
    Cipher = "AES"
    M4First = TRUE
    CamDepth = 2
    PendingCap = 2
    MaxErrors = 1
SPECIFICATION FairSpec
INVARIANTS NoLostOps OpsInOrder
PROPERTIES M4Encrypted HeldFramesReleased KeyOpsExecute
CHECK_DEADLOCK FALSE
