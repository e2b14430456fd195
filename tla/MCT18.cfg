CONSTANTS
    Gpm <- Gpm3
    Ordered = TRUE
    InCap = 4
    Line <- LineXYZ
    Owner <- OwnerXYZ
    Setup <- Setups
    MaxOutstanding = 2
    L2Cap = 2
    ReqMerge = TRUE
    Window = 3
    DistCredits = TRUE
    Hops <- NearFar
    TableCap = 3
    Ways = 1
    WaiterCap = 4
    BypassWhenFull = TRUE
    FanoutCap = 1
    OwnerMerge = TRUE
    OwnerWindow = 2
    OwnerTableCap = 2
SPECIFICATION Spec
INVARIANTS
    DrainedBeforeMove
    AnsweredOnce
    ReadsInOrder
    RequesterCounters
    LargestRemainder
PROPERTIES
    OwedFirst
    MergedAsForwarded
    AllAnswered
CHECK_DEADLOCK FALSE
