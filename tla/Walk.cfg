SPECIFICATION FairSpec
CONSTANTS
    NoStep = NoStep
    Steps = {"p", "a", "b", "c", "d"}
    Definitions <- AllDefinitions
    MaxRetries = 1
    MaxBranches = 2
    TriesCap = 3
INVARIANTS
    TypeOK
    TriesBounded
    EndedRowsSettled
    FailuresAccounted
    AllBranchesDone
PROPERTIES
    RowsMonotone
    SeenTerminates
CHECK_DEADLOCK FALSE
