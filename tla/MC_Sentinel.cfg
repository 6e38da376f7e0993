CONSTANTS
    c1 = c1
    c2 = c2
    CPUs = {c1, c2}
    Pids = {0, 1}
    Cgroups = {7}
    Reasons = {0, 2, 3}
    StatePairs <- MCStatePairs
    Names <- MCNames
    KeyLen = 1
    Requests = {16, 1}
    PtracePids <- MCPtracePids
    U32Wrap <- MCU32Wrap
    U64Wrap <- MCU64Wrap
    Targets = {5}
    Pages = {2}
    RawSrtt = {7, 8, 24}
    Endpoints = {9}
    SmallCap = 1
    Cap = 2
    MaxEvents = 3

SPECIFICATION Spec
INVARIANT TypeOK SentinelReflectsEvents RttMinMaxBracket
CHECK_DEADLOCK FALSE
