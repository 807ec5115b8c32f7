SPECIFICATION FairSpec
CONSTANTS
    Logins = {s1}
    Requests = {r1, r2, r3}
    MaxTokens = 4
INVARIANTS OneUsableToken RevocationHolds
PROPERTIES ReplayEndsSession
CHECK_DEADLOCK FALSE
