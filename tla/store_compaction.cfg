CONSTANTS
    t1 = t1
    t2 = t2
    p1 = p1
    p2 = p2
    NoCompaction = NoCompaction
    Partitions = {t1}
    Producers = {t1}
    Targets <- OwnPartition
    Readers = {p1}
    BatchSizes = {1, 2}
    AckLevels = {"Leader"}
    Sizes = {1}
    HotBudget = 0
    FsyncOnWrite = TRUE
    Fencing = FALSE
    Compaction <- SmallMerges
    MaxOffset = 3
    MaxAttempts = 2
    MaxSegment = 5
    Faults <- TwoCrashes
    CrashDuringTiering = FALSE
SPECIFICATION Spec
INVARIANTS AckedReadable LiveNotOrphaned ColdViewsAgree ReadSurvivesCompaction
PROPERTIES ColdNeverUnmapped
CHECK_DEADLOCK FALSE
