CONSTANTS
    c1 = c1
    c2 = c2
    x1 = x1
    x2 = x2
    CPUs <- MCCPUs
    Addrs <- MCAddrs
    Pids = {1, 2}
    Families = {"v4", "v6"}
    InflightCap = 1
    AccumCap = 1
    Ceiling = 2
    U32Max = 1
    MaxTime = 3
    MaxConnects = 3

SYMMETRY MCSymmetry
SPECIFICATION Spec
INVARIANT TypeOK ConnAccumReflectsSamples ConnSampleIsOwnConnect
CHECK_DEADLOCK FALSE
