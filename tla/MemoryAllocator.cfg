CONSTANTS
    Process = {p1, p2}
    NumGPU = 2
    Order = 2
    Kinds = {"regular", "buddy"}
    MaxPages = 3
    MaxCalls = 6
SPECIFICATION Spec
INVARIANTS
    KeepsItsMemory
    PlacedAsReported
    FreeListsSound
SYMMETRY Symmetry
CHECK_DEADLOCK FALSE
