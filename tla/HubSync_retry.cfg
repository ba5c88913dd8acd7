SPECIFICATION Spec
CONSTANTS
    Locals = {l1, l2}
    Clouds = {c1, c2, c3}
    Tables = {t1, t2}
    Handlers = {h1}
    None = None
    UserOps = {"open", "reopen", "lanorder", "order", "pay", "fire", "move", "release"}
    MaxItems = 3
    MaxFaults = 2
    Allowed = {"timeout", "hubcrash", "register", "return"}
INVARIANTS
    AppliedAtMostOnce
    NothingLost
SYMMETRY Symmetry
CHECK_DEADLOCK FALSE
