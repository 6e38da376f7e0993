CONSTANTS
    a = a
    b = b
    Tasks <- MCTasks
    Tid <- MultiTid
    Tgid <- MultiTgid
    StartCap = 2
    AccumCap = 1
    Ceiling = 2
    U32Max = 1
    MaxTime = 3
    MaxWakeups = 4
SPECIFICATION Spec
INVARIANT SwitchMeasuresOwnWait
CHECK_DEADLOCK FALSE
