SPECIFICATION Spec
CONSTANTS
    n1 = n1
    n2 = n2
    c1 = c1
    Nodes = {n1, n2}
    Channels = {c1}
    Any = Any
    Requests <- Chats
    Stamps = {1, 2}
    Limit = 2
    BcastCap = 2
    MaxMsgs = 1
    MaxFaults = 1
CHECK_DEADLOCK FALSE
INVARIANTS ChatFollows
