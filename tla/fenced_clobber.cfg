CONSTANTS
    n1 = n1
    n2 = n2
    c1 = c1
    Nodes = {n1, n2}
    Calls = {c1}
    Epochs = {1, 2}
    Absent = Absent
    MAX_CAS_RETRIES = 3
    StorageErrors = FALSE
SPECIFICATION FencedSpec
INVARIANTS LeaderDataKept
