SPECIFICATION Spec
CONSTANTS
    Subs = {s1, s2}
    Pays = {p1, p2}
    Handlers = {h1}
    None = None
    Plans = {"basic", "pro"}
    Free = "free"
    Basic = "basic"
    Booked = {"basic"}
    Interval = 2
    Grace = 1
    MaxTime = 4
    Ops = {"checkout", "cancel", "undo", "change", "mandate", "health", "visit"}
    Allowed = {"midnight", "again", "vanish", "fetch", "get", "list", "create", "cancel", "patch", "read", "write", "blind", "customer", "due"}
    MaxFaults = 1
INVARIANTS
    TypeOK
    PaidIsServed
    BothAgree
    UnpaidIsDunned
SYMMETRY Symmetry
CHECK_DEADLOCK FALSE
