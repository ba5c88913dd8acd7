SPECIFICATION Spec
CONSTANTS
    Events = {e1}
    Targets = {t1, t2}
    Audiences <- Both
    Mail = {}
    Workers = {w1, w2}
    None = None
    MaxAttempts = 3
    BatchSize = 2
    Grace = 2
    Backoff <- BackoffInTicks
    Hold = 3
    Window = 5
    StaleRow = 4
    StaleLock = 3
    Budget = 2
    NowBudget = 1
    OneMax = 1
    Allowed = {"die", "markfails", "timeout", "error"}
    MaxFaults = 1
INVARIANTS
    HeldByOne
SYMMETRY Symmetry
CHECK_DEADLOCK FALSE
