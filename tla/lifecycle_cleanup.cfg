SPECIFICATION Spec
CONSTANTS
    Spawners = {r1, r2}
    Stoppers = {k1, k2}
    None = None
    Modes = {"worktree"}
    FaultKinds = {"git", "mkdir", "harness", "read", "shutdown", "crash"}
    MaxFaults = 2
CHECK_DEADLOCK FALSE
SYMMETRY Symmetry
INVARIANTS RolledBack WorkspaceKept NoGhost
