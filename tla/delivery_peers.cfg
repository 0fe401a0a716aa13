SPECIFICATION Spec
CONSTANTS
    Peers = {p1, p2}
    Channels = {1}
    Slots = {k1, k2}
    None = None
    Paired = {p1, p2}
    BatchLimit = 2
    WireCap = 2
    RecvCap = 1
    ClockSteps = {1}
    Sizes = {FALSE}
    FaultKinds = {"crash", "store", "pairing"}
    MaxMsgs = 2
    MaxFaults = 1
CHECK_DEADLOCK FALSE
SYMMETRY Symmetry
INVARIANTS Integrity DeliveryInv
