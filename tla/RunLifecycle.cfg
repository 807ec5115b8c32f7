SPECIFICATION Spec
CONSTANTS
    r1 = r1
    p1 = p1
    p2 = p2
    NoWorker = NoWorker
    NoJob = NoJob
    Runs = {r1}
    Pipelines = {p1, p2}
    Workers = {w1, w2, w3}
    PipelineOf <- SoloRun
    SerialPipelines = {p1}
    KeyBits = 2
    KeyOf <- FittingKeys
    UnstorablePipelines = {}
    MaxAttempts = 3
    PoisonAttempts = 2
    MaxStalls = 2
    PoolSize = 1
    Faults = {"crash", "throw", "stall"}
CHECK_DEADLOCK FALSE
SYMMETRY Instances
INVARIANTS
    TypeOK
    PipelineMutex
    LockHasHolder
    DrivenOnce
PROPERTIES
    NeverRevived
    ImplementsContract
