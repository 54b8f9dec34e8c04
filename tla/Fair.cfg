SPECIFICATION FairSpec
CONSTANTS
    WorldIds = {w1}
    Names = {n1}
    Threads = {t1, t2}
    Shapes <- OneShape
    Limit <- LimitOne
    GiB = 2
    MaxKeys = 1
    INSPECTION_RETRIES = 1
    DiskBytes <- SomeUsage
    Offered <- FairOperations
    Faults <- SomeFaults
    RemoveWhileCreating = FALSE
    MaxCrashes = 1
PROPERTIES
    Served
    Settles
