SPECIFICATION AllSpec
CONSTANTS
    Parts = {"eventStore", "bus", "saga", "lru"}
    Stream = {a1, a2}
    Author = {w1, w2}
    Follower = {r1}
    BatchSizes = {1, 2}
    MaxEvents = 3
    MaxClears = 1
    Subscription = {s1, s2, s3}
    BusEvents = 2
    SagaSteps = 4
    Compensable = {1, 2, 4}
    Run = {g1, g2}
    CacheKey = {c1, c2, c3}
    undefined = undefined
    MaxSize = 2
    LruTtl = 1
    LruTime = 3
    Call = {}
    FailureThreshold = 1
    SuccessThreshold = 1
    OpenTimeout = 0
    MaxNotices = 0
    Key = {}
    TtlMs = 0
    LimitTime = 0
    MaxSkew = 0
    Token = 1
    Rate = 1
    Burst = 1
    Request = {}
    MaxResets = 0
    Owner = {}
    NoPrefix = {}
    Reader = {}
    Writer = {}
    TtlSeconds = 0
    MaxChanges = 0
    MaxLag = 0
    CacheTime = 0
INVARIANTS
    MemorySafety
PROPERTIES
    NothingLost
    EvictsOldest
CHECK_DEADLOCK FALSE
