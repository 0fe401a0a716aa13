SPECIFICATION Spec
CONSTANTS
    Spawners = {r1}
    Stoppers = {k1}
    None = None
    Modes = {"worktree"}
    FaultKinds = {}
    MaxFaults = 0
CHECK_DEADLOCK FALSE
SYMMETRY Symmetry
INVARIANTS StoppedStaysDown
