SPECIFICATION Spec
CONSTANTS
    Syncs = {s1, s2}
    MaxRecords = 2
    MaxStarts = 2
    BatchQueueMax = 1
    BatchSlots = 1
    Modes = {"full", "incremental"}
    Faults = {"throw", "crash", "batch"}
INVARIANTS CursorNeverAhead CleanSyncMirrors
SYMMETRY SyncSymmetry
VIEW WithoutStatus
CHECK_DEADLOCK FALSE
