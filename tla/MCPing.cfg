CONSTANTS
    N = 3
    Parallel = TRUE
    Period <- PeriodMixed
    InCap <- Cap1
    OutCap <- CapMixed
    MaxPing = 2
    CycleLeft = 2
SPECIFICATION Spec
INVARIANTS
    TypeOK
    NoLostWakeup
PROPERTIES
    ReliableDelivery
