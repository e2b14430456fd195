SPECIFICATION MCSpec
CONSTANTS
    NumGPU = 2
    NumCU <- MCNumCU
    NumSIMD = 2
    LineInsts = 3
    InstBufLines = 2
    BarrierBufferSize = 4
    InFlightLimit = 4
    PortCap = 1
    NumDispatchers = 2
    Algorithms = {"round-robin", "greedy", "partition"}
    NumSGPR = 2
    NumVGPR = 2
    NumLDS = 2
    PoolSize = 2
    NoLaunch = NoLaunch
    MaxCopies = 1
    CopyAccesses = 2
    Device = {1, 2}
    Holder = {1, 2}
    PageBlock = {1, 2}
    Page = {1, 2}
    Unified = {1}
    TLBSize = 1
    MigrationQueueSize = 2
    NoMigration = NoMigration
    Kernel <- MCKernel
    HomeOf <- MCHomeOf
    Programs <- MCPrograms
    Scenarios = {"copies", "share", "move", "drain", "jump", "fit"}
INVARIANTS
    ProgramOrder
    NewWorkGroups
    BarrierSync
    CountersExact
    ResourcesDisjoint
    CopySeesFlushed
    PagesMoveWhole
    TranslationsCurrent
