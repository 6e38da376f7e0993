CONSTANTS
    c1 = c1
    c2 = c2
    k1 = k1
    k2 = k2
    CPUs = {c1, c2}
    Keys = {k1, k2}
    DevOf <- MCDevOf
    PartialTo <- MCPartialTo
    Pids = {0, 1, 2}
    InflightCap = 1
    AccumCap = 1
    NsPerTick = 2000
    MaxTime = 3
    MaxIssues = 3
    BucketBound = 70000
SPECIFICATION FairSpec
INVARIANT TypeOK
INVARIANT IoHistReflectsSamples
INVARIANT BucketIsLog2
CHECK_DEADLOCK FALSE
PROPERTY InflightDrains
