CONSTANTS
    SlotCallers = {"c1", "c2"}
    SlotBrokers = {"b1", "b2"}
    Resizers = {}
    InitialLimit = 1
    NewLimits = {}
    LargestLimit = 10
    MaxSlotOps = 2
    MaxResizes = 0
    InitialBrokers = {"b1", "b2"}
    MaxAdditions = 1
    Clients = {"p1", "p2"}
    BatchSize = 2
    MaxSends = 2
    MaxFlushes = 1
    MaxProduceErrors = 1
    Committers = {"auto"}
    LogEnd = 2
    FetchSize = 1
    MaxRetryAttempts = 1
    CachedMessages = 1
    SeekTargets = {}
    MaxDeliveries = 1
    MaxAckQueue = 1
    Upsets = {"nack", "commit", "fetch"}
    MaxUpsets = 1
    Threads = {"t1", "t2"}
    CacheKeys = {"k1", "k2"}
    EntrySizes = {1, 2}
    ShardBytes = 2
    MaxCacheOps = 3
SPECIFICATION Spec
INVARIANTS DecommissionsLimited
PROPERTIES RemovalEnds SendsAnswered CloseReturns CacheOpsEnd
CHECK_DEADLOCK FALSE
