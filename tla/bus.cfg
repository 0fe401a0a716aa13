SPECIFICATION Spec
CONSTANTS
    Readers = {r1}
    MaxPerSession = 2
    BcastCap = 1
    Rooms = {1}
    RecvModes <- Modes
    Prompts = {TRUE}
    Traces = {TRUE}
    Idles = {TRUE}
    FaultKinds = {"mark", "read", "enqueue", "status", "crash", "hangup"}
    MaxMsgs = 2
    MaxFaults = 1
CHECK_DEADLOCK FALSE
INVARIANTS TypeOK Retention ConsumedWasDelivered FedInOrder SeamComplete NoStrandedTurn
PROPERTIES OutputFirst
