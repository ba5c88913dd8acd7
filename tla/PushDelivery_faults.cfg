SPECIFICATION FairSpec
CONSTANTS
    Events = {e1}
    Targets = {t1, m1}
    Audiences <- OneEach
    Mail = {m1}
    Workers = {w1, w2}
    None = None
    MaxAttempts = 3
    BatchSize = 2
    Grace = 2
    Backoff <- BackoffInTicks
    Hold = 3
    Window = 5
    StaleRow = 4
    StaleLock = 3
    Budget = 2
    NowBudget = 1
    OneMax = 1
    Allowed = {"readfails", "upsertfails", "markfails", "die", "error", "timeout", "unknown", "unaddressed"}
    MaxFaults = 1
INVARIANTS
    TypeOK
    SentOnce
    NoneMissed
PROPERTIES
    Settles
CHECK_DEADLOCK FALSE
