SPECIFICATION FairSpec
CONSTANTS
    NumVersions = 3
    Instances = {i1}
    Requests = {r1, r2}
    NoRequest = NoRequest
    MaxRows = 2
    MaxCrashes = 1
INVARIANTS InstancesPointToActive NoOrphanHooks
PROPERTIES InstancesFollowSwap LoneWaitEnds
CHECK_DEADLOCK FALSE
