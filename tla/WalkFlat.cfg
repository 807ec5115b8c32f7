SPECIFICATION Spec
CONSTANTS
    NoStep = NoStep
    Steps = {"p", "a", "b", "c", "d"}
    Definitions <- ForkDefinitions
    MaxRetries = 1
    MaxBranches = 2
    TriesCap = 3
INVARIANT WalkStaysAtTop
CHECK_DEADLOCK FALSE
