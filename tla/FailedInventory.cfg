SPECIFICATION Spec
CONSTANTS
    WorldIds = {w1}
    Names = {n1}
    Threads = {t1}
    Shapes <- OneShape
    Limit <- LimitOne
    GiB = 2
    MaxKeys = 1
    INSPECTION_RETRIES = 0
    DiskBytes <- SomeUsage
    Offered <- AllOperations
    Faults <- ProvisionFault
    RemoveWhileCreating = FALSE
    MaxCrashes = 0
SYMMETRY SymmetricThreads
INVARIANTS
    InventoryAnswered
