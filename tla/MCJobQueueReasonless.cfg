SPECIFICATION Spec
CONSTANTS
    Job = {j1}
    Process = {p1}
    Client = {k1}
    MaxAttempts = 2
    Limit = 1
    Reasonless = {{j1}}
    Garbled = {{}}
    MaxFaults = 0
    MaxRuns = 3
INVARIANTS
    DeadLetters
