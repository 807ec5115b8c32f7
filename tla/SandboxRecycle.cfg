SPECIFICATION FairSpec
CONSTANTS
    Execs = {e1}
    MaxInstances = 2
    PoolSize = 1
    RecycleAfter = 1
    PingMissThreshold = 2
    Reconnects = {c1}
    NoInstance = NoInstance
    MaxPings = 2
    MaxCrashes = 1
    MaxRecycles = 1
    MaxWriteFailures = 2
INVARIANTS TypeOK InflightTracked CutOffIsReported
PROPERTIES NoFalseKill ExecutionSettles SandboxRecovers
