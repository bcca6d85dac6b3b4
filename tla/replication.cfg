CONSTANTS
    f1 = f1
    f2 = f2
    w1 = w1
    w2 = w2
    Followers = {f1, f2}
    Leader = Leader
    Tasks = {w1, w2}
    MinIsr = 2
    MaxLag = 2
    Unknown = Unknown
    MaxOffset = 2
    MaxFailures = 2
    MaxHeartbeats = 1
    U64Max = 99
SPECIFICATION Spec
SYMMETRY Symmetric
INVARIANTS DurableOnQuorum WatermarkReached
CHECK_DEADLOCK FALSE
