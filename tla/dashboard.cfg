SPECIFICATION Spec
CONSTANTS
    Groups = {g1, g2}
    Sessions = {c, w}
    First = c
    Slots = {t1, t2}
    NoGroup = NoGroup
    BcastCap = 1
    MaxPerSession = 1
    MaxMsgs = 2
    MaxSelects = 2
    MaxRefresh = 1
    MaxFaults = 1
CHECK_DEADLOCK FALSE
SYMMETRY Symmetry
INVARIANTS TypeOK OwnTranscript LiveTailComplete Reconnects
