CONSTANTS
    m1 = m1
    m2 = m2
    o1 = o1
    o2 = o2
    Members = {m1, m2}
    PartitionCount = 2
    CommitValues = {o1, o2}
    Absent = Absent
    SnapshotEvery = 2
    GenerationModulus = 16
    MaxGeneration = 3
    MaxCommits = 2
    MaxRestarts = 1
    MaxWalErrors = 1
    MaxDepartures = 1
    SlotCallers = {"c1", "c2"}
    SlotBrokers = {"b1"}
    Resizers = {"r1", "r2"}
    InitialLimit = 1
    NewLimits = {1, 2}
    LargestLimit = 10
    MaxSlotOps = 2
    MaxResizes = 2
    Creators = {"x", "y"}
    TopicNames = {"t"}
    NodeBrokers = {"b1", "b2"}
    PartitionCounts = {1, 2}
    ReplicationFactors = {1, 2}
    ControllerPeers = {}
    MaxRequests = 6
    RaftTopics = {"t"}
    RaftBrokers = {}
    CacheSize = 2
    SnapshotThreshold = 1
    MaxChosen = 2
    MaxRaftWal = 4
    MaxRaftRestarts = 2
    Clients = {"p1", "p2"}
    BatchSize = 2
    MaxSends = 3
    MaxFlushes = 1
    MaxProduceErrors = 1
    Committers = {"auto"}
    LogEnd = 3
    FetchSize = 2
    MaxRetryAttempts = 1
    CachedMessages = 1
    SeekTargets = {0}
    MaxDeliveries = 2
    MaxAckQueue = 1
    Upsets = {"nack", "seek", "commit", "fetch", "pause"}
    MaxUpsets = 1
    Threads = {"t1", "t2"}
    CacheKeys = {"k1", "k2"}
    EntrySizes = {1, 2}
    ShardBytes = 2
    MaxCacheOps = 4
    SegmentSizes = {1, 2, 3, 5}
    Gaps = {0, 1}
    MaxSegments = 5
    Config <- SmallConfig
    U64Max = 99
    Values = {0, 1, 2, 3}
    MaxReplicas = 6
SPECIFICATION Spec
SYMMETRY Symmetric
INVARIANTS StableAssignmentExact OneCommitterPerPartition CommittedOffsetKept SlotAccounting CreatedTopicComplete WalReplaysLog ReplayConverges AnsweredOffsetExact FlushCoversSends CommittedProcessed CacheAccounting PlansExact KthIsKth
PROPERTIES GroupOffsetKept
CHECK_DEADLOCK FALSE
