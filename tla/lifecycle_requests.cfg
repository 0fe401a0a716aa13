SPECIFICATION Spec
CONSTANTS
    Spawners = {r1, r2}
    Stoppers = {k1, k2}
    None = None
    Modes = {"worktree", "new"}
    FaultKinds = {"git", "checkout", "mkdir", "cleanup", "store", "harness", "read", "late", "shutdown", "crash", "reconcile"}
    MaxFaults = 2
CHECK_DEADLOCK FALSE
SYMMETRY Symmetry
INVARIANTS TypeOK OneHarness FreshSession Reachable LifecycleInv
