SPECIFICATION Spec
CONSTANTS
    Task = {t1, t2}
    Drain = {d1, d2}
    Capacity = 1
PROPERTIES
    DrainWaitsForAllPending
CHECK_DEADLOCK FALSE
