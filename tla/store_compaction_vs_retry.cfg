CONSTANTS
    t1 = t1
    t2 = t2
    p1 = p1
    p2 = p2
    NoCompaction = NoCompaction
    Partitions = {t1}
    Producers = {t1}
    Targets <- OwnPartition
    Readers = {}
    BatchSizes = {1}
    AckLevels = {"Leader"}
    Sizes = {1}
    HotBudget = 0
    FsyncOnWrite = TRUE
    Fencing = FALSE
    Compaction <- SmallMerges
    MaxOffset = 2
    MaxAttempts = 2
    MaxSegment = 6
    Faults <- TwoCrashes
    CrashDuringTiering = TRUE
SPECIFICATION Spec
INVARIANTS AckedReadable
CHECK_DEADLOCK FALSE
