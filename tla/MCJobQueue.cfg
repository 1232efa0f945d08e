SPECIFICATION FairSpec
CONSTANTS
    Job = {j1, j2}
    Process = {p1}
    Client = {k1, k2}
    MaxAttempts = 2
    Limit = 2
    Reasonless = {{}, {j2}}
    Garbled = {{}, {j1}}
    MaxFaults = 1
    MaxRuns = 3
INVARIANTS
    QueueSafety
PROPERTIES
    EndsOnce
    EveryJobEnds
    Implements
