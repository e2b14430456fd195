CONSTANTS
    Line = {1, 2}
    Word = {1, 2}
    NumWays = 1
    MaxReq = 4
    MaxTrans = 4
    MshrCap = 1
    BufCap = 2
    Lanes = 2
    Remote = {2}
    MaxRemote = 1
    Workload <- Requests
    MaxFlush = 1
    FlushKind <- Flushes
SPECIFICATION MCSpec
INVARIANTS
    ReadsFresh
PROPERTIES
    AllAnswered
CHECK_DEADLOCK FALSE
