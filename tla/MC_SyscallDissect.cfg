CONSTANTS
    t1 = t1
    t2 = t2
    t3 = t3
    Threads <- MCThreads
    Tgid <- MCTgid
    Nrs <- MCNrs
    U32Wrap <- MCU32Wrap
    StartCap = 2
    AccumCap = 2
    Ceiling = 2
    U32Max = 1
    MaxTime = 3
    MaxBegins = 3
SYMMETRY MCSymmetry
SPECIFICATION Spec
INVARIANT TypeOK
INVARIANT AccumReflectsSamples
INVARIANT NoLeakedStart
CHECK_DEADLOCK FALSE
PROPERTY SysExitPairsOwnEnter
