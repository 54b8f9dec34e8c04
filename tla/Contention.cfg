SPECIFICATION Spec
CONSTANTS
    WorldIds = {w1, w2}
    Names = {n1, n2}
    Threads = {t1, t2}
    Shapes <- OneShape
    Limit <- LimitOne
    GiB = 2
    MaxKeys = 1
    INSPECTION_RETRIES = 0
    DiskBytes <- SomeUsage
    Offered <- ContendedOperations
    Faults <- NoFaults
    RemoveWhileCreating = FALSE
    MaxCrashes = 0
SYMMETRY SymmetricThreads
INVARIANTS
    WithinCapacity
    NamesUnique
