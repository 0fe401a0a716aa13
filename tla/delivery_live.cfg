SPECIFICATION FairSpec
CONSTANTS
    Peers = {p1}
    Channels = {1}
    Slots = {k1, k2}
    None = None
    Paired = {p1}
    BatchLimit = 2
    WireCap = 2
    RecvCap = 1
    ClockSteps = {0}
    Sizes = {FALSE, TRUE}
    FaultKinds = {"cut", "crash", "shutdown", "rxcrash", "store", "dial", "pairing", "inbox"}
    MaxMsgs = 2
    MaxFaults = 1
CHECK_DEADLOCK FALSE
INVARIANTS StreamOrder NoLostWake FifoSteady
PROPERTIES Retried Settles
