CONSTANTS
    NumFrames <- M4Only
    MaxAssocs = 1
    MaxLosses = 0
    MaxKeyOps = 1
    KeyOps = {"ptk"}
    Cipher = "TKIP"
    M4First = TRUE
    CamDepth = 2
    PendingCap = 1
    MaxErrors = 0
SPECIFICATION FairSpec
PROPERTIES HeldFramesReleased
CHECK_DEADLOCK FALSE
