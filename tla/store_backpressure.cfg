CONSTANTS
    t1 = t1
    t2 = t2
    p1 = p1
    p2 = p2
    NoCompaction = NoCompaction
    Partitions = {t1}
    Producers = {t1}
    Targets <- OwnPartition
    Readers = {}
    BatchSizes = {1}
    AckLevels = {"Leader"}
    Sizes = {2}
    HotBudget = 5
    FsyncOnWrite = FALSE
    Fencing = FALSE
    Compaction <- SmallMerges
    MaxOffset = 3
    MaxAttempts = 2
    MaxSegment = 4
    Faults <- WalAndIoErrors
    CrashDuringTiering = TRUE
SPECIFICATION FairSpec
INVARIANTS HotBytesExact
PROPERTIES BlockedAppendAdmitted SealedReclaimed
CHECK_DEADLOCK FALSE
