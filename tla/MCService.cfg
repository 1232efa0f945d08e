SPECIFICATION AllSpec
CONSTANTS
    p1 = p1
    p2 = p2
    p3 = p3
    NMigrations = 3
    Process = {p1, p2, p3}
    Newest <- NewestOf
    MaxFaults = 1
    Checkers = 3
    CheckerName <- NameOf
    HealthCall = {k1, k2}
    Hooks = 2
    Manual = {m1}
    Signals = {SIGTERM, SIGINT}
    Jobs = 2
    JobStarts = 2
    JobOverlap = 2
    Role = {admin, user}
    Required = {admin}
    TtlSeconds = {0, 1, 3}
    TimeoutMs = 2
    HttpTime = 4
    MaxAttempts = {0, 1, 4}
    InitialMs = {0, 3}
    Multiplier = {1, 2}
    MaxMs = {0, 5}
    TimerLimit = 10
    NFields = 2
    Name = {n1, n2}
    MaxLen = 3
    MinLength = 2
    FlagKey = {f1, f2}
    e1 = e1
    e2 = e2
    Entity = {e1, e2}
    HashBucket <- BucketOf
    Percentage = {0, 1, 99, 100}
    EnvFlags = {f1}
    Undefined = Undefined
INVARIANTS
    
    SettingsTrue
    CallsTrue
    WaitsGrow
    EffectsOnce
PROPERTIES
    AllEnd
    QuietAfterStop
    RolloutKept
CHECK_DEADLOCK FALSE
