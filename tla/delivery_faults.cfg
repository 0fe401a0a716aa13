SPECIFICATION Spec
CONSTANTS
    Peers = {p1}
    Channels = {1}
    Slots = {k1, k2}
    None = None
    Paired = {p1}
    BatchLimit = 2
    WireCap = 2
    RecvCap = 1
    ClockSteps = {1}
    Sizes = {FALSE}
    FaultKinds = {"cut", "crash", "shutdown", "rxcrash", "store", "dial", "pairing"}
    MaxMsgs = 2
    MaxFaults = 2
CHECK_DEADLOCK FALSE
INVARIANTS TypeOK AtMostOnce NoSilentLoss
PROPERTIES OutboxDurable ImplementsMailbox
