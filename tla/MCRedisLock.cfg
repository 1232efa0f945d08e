SPECIFICATION FairSpec
CONSTANTS
    Call = {c1, c2}
    Bares = {{}, {c2}}
    TtlMs = 6
    MinInterval = 1
    RetryCount = 1
    MaxFaults = 1
    MaxInFlight = 2
INVARIANTS
    LockSafety
PROPERTIES
    OnlyHolderTouches
    Progress
CHECK_DEADLOCK FALSE
