CONSTANTS
    Line = {0, 1}
    PageLines = 2
    MaxBatchLines = 2
    MaxBatches = 1
    MaxOutstanding = 2
    WireCap = 1
    TopCap = 1
    Dedup = TRUE
    RequesterL2 = TRUE
    Filter = "unreliable"
    Op = {"read", "write", "partial"}
    MaxReq = 3
    MaxKernel = 1
    MaxDrain = 1
SPECIFICATION Spec
INVARIANTS
    ReadsInOrder
    DrainedAnswered
    ResponseExpected
PROPERTIES
    AllAnswered
CHECK_DEADLOCK FALSE
