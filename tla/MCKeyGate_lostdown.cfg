CONSTANTS
    NumFrames <- NoFrames
    MaxAssocs = 2
    MaxLosses = 1
    MaxKeyOps = 0
    KeyOps = {"ptk"}
    Cipher = "AES"
    M4First = FALSE
    CamDepth = 2
    PendingCap = 1
    MaxErrors = 0
SPECIFICATION Spec
PROPERTIES TeardownBeforeUp
CHECK_DEADLOCK FALSE
