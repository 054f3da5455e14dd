CONSTANTS
    MaxLinks = 3
    StallAfter = 3
SPECIFICATION FairSpec
INVARIANTS TypeOK TimerAlive QuietAfterDetach
PROPERTIES KeepAliveTicks
CHECK_DEADLOCK FALSE
