SPECIFICATION Spec
CONSTANTS
    WorldIds = {w1}
    Names = {n1}
    Threads = {t1, t2}
    Shapes <- OneShape
    Limit <- LimitOne
    GiB = 2
    MaxKeys = 2
    INSPECTION_RETRIES = 1
    DiskBytes <- SomeUsage
    Offered <- AllOperations
    Faults <- AllFaults
    RemoveWhileCreating = FALSE
    MaxCrashes = 1
SYMMETRY SymmetricThreads
INVARIANTS
    TypeOK
    OneOperationPerWorld
    InFlightOwned
    Accounted
    NothingLeftBehind
    RunningObservable
PROPERTIES
    StatusChangedByHolder
    PinnedIdentity
    ImplementsLifecycle
