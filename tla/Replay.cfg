SPECIFICATION ApiSpec
CONSTANTS
    WorldIds = {w1}
    Names = {n1}
    Threads = {t1, t2}
    RequestIds = {r1, r2}
    RETENTION = 2
    MaxNow = 2
    ClockJumps = FALSE
    Shapes <- OneShape
    Limit <- LimitOne
    GiB = 2
    MaxKeys = 1
    INSPECTION_RETRIES = 0
    DiskBytes <- SomeUsage
    Offered <- ApiOperations
    Faults <- SomeFaults
    RemoveWhileCreating = TRUE
    MaxCrashes = 1
SYMMETRY SymmetricThreads
INVARIANTS
    ReservationOwned
    OneExecution
    RemovalHolds
PROPERTIES
    RecordedIsFinal
