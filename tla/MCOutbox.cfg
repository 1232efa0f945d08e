SPECIFICATION FairSpec
CONSTANTS
    NEvents = 3
    Payloads = {{}, {1}}
    Process = {p1, p2}
    Client = {k1}
    BatchSize = 2
    MaxFaults = 1
    MaxIntervals = 2
INVARIANTS
    OutboxSafety
PROPERTIES
    MarkedNotResent
    EveryEventPublished
