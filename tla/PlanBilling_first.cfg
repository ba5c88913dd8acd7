SPECIFICATION Spec
CONSTANTS
    Subs = {s1, s2, s3}
    Pays = {p1, p2}
    Handlers = {h1, h2}
    None = None
    Plans = {"basic"}
    Free = "free"
    Basic = "basic"
    Booked = {"basic"}
    Interval = 2
    Grace = 1
    MaxTime = 3
    Ops = {"checkout", "cancel", "undo", "change", "mandate", "health", "visit"}
    Allowed = {"overlap", "owner", "daily", "vanish", "fetch", "get", "list", "create", "cancel", "read", "write", "blind", "customer", "due"}
    MaxFaults = 1
INVARIANTS
    OneSubscription
SYMMETRY Symmetry
CHECK_DEADLOCK FALSE
