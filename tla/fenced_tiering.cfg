CONSTANTS
    n1 = n1
    n2 = n2
    c1 = c1
    c2 = c2
    Nodes = {n1, n2}
    Calls = {c1, c2}
    Epochs = {1, 2}
    Absent = Absent
    MAX_CAS_RETRIES = 2
    StorageErrors = TRUE
SPECIFICATION FencedFairSpec
INVARIANTS OneOwnerPerEpoch VerifiedIsNewest OneLateUpload
PROPERTIES EpochAdvances AcquireReturns
