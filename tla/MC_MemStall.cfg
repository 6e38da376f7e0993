CONSTANTS
    a = a
    b = b
    d = d
    Threads <- MCThreads
    Tgid <- MCTgid
    FaultStartCap = 2
    FaultAccumCap = 1
    FaultCeiling = 2
    MaxFaults = 2
    ReclaimStartCap = 2
    ReclaimAccumCap = 1
    ReclaimCeiling = 2
    MaxReclaims = 2
    MaxTime = 3
    MaxStalls = 3

SYMMETRY MCSymmetry
SPECIFICATION Spec
CHECK_DEADLOCK FALSE
INVARIANT TypeOK FaultAccumReflectsSamples NoLeakedFault ReclaimAccumReflectsSamples NoLeakedReclaim
