SPECIFICATION FairSpec
CONSTANTS
    r1 = r1
    p1 = p1
    p2 = p2
    NoWorker = NoWorker
    NoJob = NoJob
    Runs = {r1}
    Pipelines = {p1, p2}
    Workers = {w1, w2}
    PipelineOf <- SoloRun
    SerialPipelines = {p1}
    KeyBits = 2
    KeyOf <- FittingKeys
    UnstorablePipelines = {}
    MaxAttempts = 2
    PoisonAttempts = 2
    MaxStalls = 1
    PoolSize = 1
    Faults = {"stall"}
CHECK_DEADLOCK FALSE
INVARIANTS
    RunningHasDriver
    NoRunForgotten
PROPERTIES
    RunSettles
    LockReleased
