SPECIFICATION Spec
CONSTANTS
    Locals = {l1, l2}
    Clouds = {c1, c2, c3}
    Tables = {t1, t2}
    Handlers = {h1, h2}
    None = None
    UserOps = {"open", "order"}
    MaxItems = 3
    MaxFaults = 1
    Allowed = {"register"}
INVARIANTS
    AckedIsApplied
SYMMETRY Symmetry
CHECK_DEADLOCK FALSE
