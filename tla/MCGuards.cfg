SPECIFICATION AllSpec
CONSTANTS
    Parts = {"breaker", "limiter", "cache"}
    Call = {c1, c2, c3}
    FailureThreshold = 2
    SuccessThreshold = 2
    OpenTimeout = 2
    MaxNotices = 3
    Key = {k1, k2}
    TtlMs = 2
    LimitTime = 4
    MaxSkew = 1
    Token = 2
    Rate = 1
    Burst = 3
    Request = {2}
    MaxResets = 1
    Owner = {o1, o2}
    NoPrefix = {o2}
    Reader = {l1, l2}
    Writer = {u1}
    TtlSeconds = 1
    MaxChanges = 2
    MaxLag = 1
    CacheTime = 2
    Stream = {a1}
    Author = {}
    Follower = {}
    BatchSizes = {}
    MaxEvents = 0
    MaxClears = 0
    Subscription = {}
    BusEvents = 0
    SagaSteps = 0
    Compensable = {}
    Run = {}
    CacheKey = {}
    undefined = undefined
    MaxSize = 1
    LruTtl = 0
    LruTime = 0
INVARIANTS
    BreakerSafety
    LimitsSafety
    StalenessBounded
PROPERTIES
    TripsOnStreak
    ClosesOnStreak
    RestsAfterTrip
    Recovers
