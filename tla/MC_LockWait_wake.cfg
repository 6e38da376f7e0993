CONSTANTS
    a = a
    b = b
    Threads <- MCThreads
    Tgid <- MultiTgid
    Ops <- MCOps
    StartCap = 2
    AccumCap = 1
    Ceiling = 2
    MaxTime = 3
    MaxCalls = 4

SYMMETRY MCSymmetry
SPECIFICATION Spec
INVARIANT SampleEndsAtWaitExit
CHECK_DEADLOCK FALSE
