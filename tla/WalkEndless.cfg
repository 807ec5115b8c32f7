SPECIFICATION FairSpec
CONSTANTS
    NoStep = NoStep
    Steps = {"a", "b", "c"}
    Definitions <- RoutedDefinitions
    MaxRetries = 1
    MaxBranches = 0
    TriesCap = 3
PROPERTY Terminates
CHECK_DEADLOCK FALSE
