SPECIFICATION FairSpec
CONSTANTS
    Locals = {l1, l2}
    Clouds = {c1, c2, c3}
    Tables = {t1, t2}
    Handlers = {h1}
    None = None
    UserOps = {"open", "order", "move", "release"}
    MaxItems = 4
    MaxFaults = 1
    Allowed = {"timeout", "hubcrash"}
INVARIANTS
    AckedIsApplied
    SessionsStaySeparate
PROPERTIES
    PromiseKept
    QueueDrains
CHECK_DEADLOCK FALSE
