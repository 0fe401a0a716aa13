SPECIFICATION Spec
CONSTANTS
    Nodes = {a, b}
    Skew = 1
    Terms <- Granted
    Word = 8
    Ids = {i1, i2}
    MaxTime = 3
    MaxFaults = 1
CHECK_DEADLOCK FALSE
SYMMETRY Symmetry
INVARIANTS RevocationSticks RefusedForCause TokensInv
PROPERTIES RevokedStaysOut
