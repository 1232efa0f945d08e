SPECIFICATION FairSpec
CONSTANTS
    Task = {t1, t2, t3}
    Drain = {d1, d2}
    Capacity = 1
INVARIANTS
    PoolSafety
    EscapesOnlyIfLate
PROPERTIES
    AllSettle
    UsesSemaphore
CHECK_DEADLOCK FALSE
