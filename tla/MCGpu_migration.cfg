SPECIFICATION Spec
CONSTANTS
    NumGPU = 2
    NumCU <- MCOneCU
    NumSIMD = 1
    LineInsts = 3
    InstBufLines = 1
    BarrierBufferSize = 4
    InFlightLimit = 4
    PortCap = 1
    NumDispatchers = 1
    Algorithms = {"round-robin"}
    NumSGPR = 2
    NumVGPR = 2
    NumLDS = 2
    PoolSize = 2
    NoLaunch = NoLaunch
    MaxCopies = 1
    CopyAccesses = 1
    Device = {1, 2}
    Holder = {1, 2}
    PageBlock = {1}
    Page = {1, 2}
    Unified = {1, 2}
    TLBSize = 1
    MigrationQueueSize = 2
    NoMigration = NoMigration
    Kernel <- MCKernel
    HomeOf <- MCCrossHomes
    Programs <- MCPrograms
    Scenarios = {"cross"}
PROPERTIES
    NoNeedlessMigration
CHECK_DEADLOCK FALSE
