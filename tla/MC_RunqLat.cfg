CONSTANTS
    a = a
    b = b
    Tasks <- MCTasks
    Tid <- SingleTid
    Tgid <- SingleTgid
    StartCap = 2
    AccumCap = 1
    Ceiling = 2
    U32Max = 1
    MaxTime = 3
    MaxWakeups = 4
SPECIFICATION FairSpec
INVARIANT TypeOK
INVARIANT SwitchMeasuresOwnWait
PROPERTY PairingRefined RqStartDrains
CHECK_DEADLOCK FALSE
