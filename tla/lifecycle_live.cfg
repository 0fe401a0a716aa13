SPECIFICATION FairSpec
CONSTANTS
    Spawners = {r1, r2}
    Stoppers = {k1}
    None = None
    Modes = {"worktree", "new"}
    FaultKinds = {"git", "checkout", "mkdir", "cleanup", "store", "harness", "read", "late", "shutdown", "crash", "reconcile"}
    MaxFaults = 1
CHECK_DEADLOCK FALSE
PROPERTIES StopReaps
