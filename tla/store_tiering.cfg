CONSTANTS
    t1 = t1
    t2 = t2
    p1 = p1
    p2 = p2
    NoCompaction = NoCompaction
    Partitions = {t1}
    Producers = {t1}
    Targets <- OwnPartition
    Readers = {}
    BatchSizes = {1}
    AckLevels = {"Leader", "All"}
    Sizes = {1}
    HotBudget = 0
    FsyncOnWrite = TRUE
    Fencing = FALSE
    Compaction = NoCompaction
    MaxOffset = 2
    MaxAttempts = 2
    MaxSegment = 4
    Faults <- CrashAndError
    CrashDuringTiering = TRUE
SPECIFICATION Spec
INVARIANTS NoStrandedHot
PROPERTIES StoreIsPartitionLog
CHECK_DEADLOCK FALSE
