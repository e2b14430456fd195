CONSTANTS
    MaxAccess = 2
    MaxFlush = 2
    InFlightLimit = 3
    BufferSize = 2
    OutCap = 1
    PortCap = 1
SPECIFICATION Spec
CHECK_DEADLOCK FALSE
INVARIANTS
    RightData
    NoOrphan
PROPERTIES
    AllDone
