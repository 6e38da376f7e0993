CONSTANTS
    a = a
    b = b
    Threads <- MCThreads
    Tgid <- SingleTgid
    Ops <- MCOps
    StartCap = 2
    AccumCap = 1
    Ceiling = 2
    MaxTime = 3
    MaxCalls = 4

SPECIFICATION Spec
INVARIANT TypeOK FutexSampleIsOwnWait
PROPERTY PairingRefined
CHECK_DEADLOCK FALSE
