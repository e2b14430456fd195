CONSTANTS
    NumLine = 3
    NumWays = 2
    Word <- Words2
    MaxReq = 5
    BufCap = 1
    DirCap = 1
    PortCap = 2
    MshrCap = 1
    WriteBufferCap = 1
    MaxFetch = 1
    MaxEvict = 1
    Lanes = 2
    MaxWaiting = 2
    MaxFlush = 2
    FlushKind <- Flushes
    Workload <- Three
SPECIFICATION Spec
INVARIANTS
FlushFindsUnlocked
PROPERTIES
FlushedAll ServesMemory FlushEnds
CHECK_DEADLOCK FALSE
