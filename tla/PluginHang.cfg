SPECIFICATION FairSpec
CONSTANTS
    NumVersions = 2
    Instances = {i1}
    Requests = {r1, r2}
    NoRequest = NoRequest
    MaxRows = 1
    MaxCrashes = 0
PROPERTIES DrainWaitEnds
CHECK_DEADLOCK FALSE
