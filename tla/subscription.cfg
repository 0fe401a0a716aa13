SPECIFICATION Spec
CONSTANTS
    n1 = n1
    n2 = n2
    c1 = c1
    Nodes = {n1, n2}
    Channels = {c1}
    Any = Any
    Requests <- All
    Stamps = {1, 2}
    Limit = 2
    BcastCap = 2
    MaxMsgs = 3
    MaxFaults = 1
CHECK_DEADLOCK FALSE
INVARIANTS TypeOK SeamComplete OneDuplicate Drained
