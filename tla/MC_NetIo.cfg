CONSTANTS
    a = a
    b = b
    Threads <- MCThreads
    Tgid <- MCTgid
    Endpoints <- MCEndpoints
    Sizes = {3}
    Copied = {0, 2}
    StartCap = 1
    AccumCap = 2
    Ceiling = 2
    U32Max = 1
    MaxTime = 3
    MaxCalls = 3
SPECIFICATION Spec
INVARIANT TypeOK AccumReflectsSamples RecvStartNotLeaked
CHECK_DEADLOCK FALSE
VIEW View
SYMMETRY MCSymmetry
