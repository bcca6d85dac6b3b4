CONSTANTS
    t1 = t1
    t2 = t2
    p1 = p1
    p2 = p2
    NoCompaction = NoCompaction
    Partitions = {t1, t2}
    Producers = {t1, t2}
    Targets <- OwnPartition
    Readers = {}
    BatchSizes = {1}
    AckLevels = {"Leader"}
    Sizes = {3}
    HotBudget = 6
    FsyncOnWrite = TRUE
    Fencing = TRUE
    Compaction = NoCompaction
    MaxOffset = 2
    MaxAttempts = 2
    MaxSegment = 3
    Faults <- OneFence
    CrashDuringTiering = TRUE
SPECIFICATION Spec
SYMMETRY Symmetric
INVARIANTS AckedDurable HotBounded
PROPERTIES ColdNeverUnmapped
CHECK_DEADLOCK FALSE
