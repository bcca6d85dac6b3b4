CONSTANTS
    h1 = h1
    h2 = h2
    Handlers = {h1, h2}
    MaxEpoch = 4
SPECIFICATION Spec
INVARIANT NoStaleAppend
CHECK_DEADLOCK FALSE
