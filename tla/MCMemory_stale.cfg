CONSTANTS
    NumLine = 2
    NumWays = 1
    Word <- Words1
    MaxReq = 7
    BufCap = 1
    DirCap = 1
    PortCap = 2
    MshrCap = 1
    WriteBufferCap = 2
    MaxFetch = 1
    MaxEvict = 1
    Lanes = 2
    MaxWaiting = 1
    MaxFlush = 0
    FlushKind <- Flushes
    Workload <- Again
SPECIFICATION Spec
INVARIANTS
NoMismatch

CHECK_DEADLOCK FALSE
