CONSTANTS
    c1 = c1
    c2 = c2
    a = a
    b = b
    d = d
    Idle = Idle
    CPUs <- MCCPUs
    Tasks <- MCTasks
    Tgid <- MultiTgid
    StartCap = 2
    AccumCap = 2
    Ceiling = 2
    Wrap = 8
    MaxTime = 3
    MaxSwitches = 5

SYMMETRY ThreadSymmetry
SPECIFICATION Spec
INVARIANT TypeOK OffAccumReflectsSamples OffCpuMeasuresOwnWait OffStartHeldByWaiter
CHECK_DEADLOCK FALSE
