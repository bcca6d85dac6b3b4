CONSTANTS
    t1 = t1
    t2 = t2
    p1 = p1
    p2 = p2
    NoCompaction = NoCompaction
    Partitions = {t1}
    Producers = {p1, p2}
    Targets <- AnyPartition
    Readers = {}
    BatchSizes = {1}
    AckLevels = {"Leader"}
    Sizes = {1}
    HotBudget = 0
    FsyncOnWrite = TRUE
    Fencing = FALSE
    Compaction = NoCompaction
    MaxOffset = 2
    MaxAttempts = 2
    MaxSegment = 4
    Faults <- NoFaults
    CrashDuringTiering = TRUE
SPECIFICATION Spec
INVARIANTS OffsetsNotReused
CHECK_DEADLOCK FALSE
