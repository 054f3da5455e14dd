CONSTANTS
    NumFrames <- TwoEach
    MaxAssocs = 2
    MaxLosses = 1
    MaxKeyOps = 2
    KeyOps = {"ptk", "delete"}
    Cipher = "AES"
    M4First = FALSE
    CamDepth = 1
    PendingCap = 2
    MaxErrors = 0
SPECIFICATION Spec
INVARIANTS TypeOK HeldOnlyBehindGate DataInOrder FramesOwned TeardownIsComplete
CHECK_DEADLOCK FALSE
