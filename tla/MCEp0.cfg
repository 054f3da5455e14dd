CONSTANTS
    t1 = t1
    t2 = t2
    t3 = t3
    rOn = rOn
    rOff = rOff
    b1 = b1
    b2 = b2
    Threads = {t1, t2, t3}
    Regs = {rOn, rOff}
    OnSection = {rOn}
    Bits = {b1, b2}
    Program <- MCProgram
    MaxCalls = 2
    MaxErrors = 1
SPECIFICATION FairSpec
INVARIANTS TypeOK OneClaimant NoLostWakeup UpdateIsCurrent
PROPERTIES SealBeforeNext AtomicSpec CallsReturn
CHECK_DEADLOCK FALSE
