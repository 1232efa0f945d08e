SPECIFICATION AllSpec
CONSTANTS
    NItems = 5
    Workers = 3
    StreamItems = 6
    Passes = {1, 3, 4, 5, 6}
    StreamTake = 3
    FanItems = 3
    Output = {o1, o2}
    a = a
    b = b
    c = c
    Sources = {a, b, c}
    ItemsOf <- LengthOf
    Rejecting = {b}
    Participant = {p1, p2, p3, p4}
    N = 3
    MaxWaits = 7
    DelayMs = 2
    MaxCalls = 4
    DebounceTime = 6
    IntervalMs = 2
    ThrottleTime = 7
    MaxSkew = 2
INVARIANTS
    StreamsSafety
    EndMeansAll
    Spaced
PROPERTIES
    AllGoOn
    FiresAfterQuiet
CHECK_DEADLOCK FALSE
