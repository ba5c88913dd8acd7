SPECIFICATION Spec
CONSTANTS
    Sessions = {s1, s2}
    Tables = {t1, t2}
    Lines = {l1}
    Payments = {p1, p2, p3}
    Handlers = {h1, h2}
    None = None
    MaxQty = 2
    Ops = {"open", "bill", "release", "move", "order", "pay", "wopen", "worder", "wpay", "wclose"}
    Allowed = {"concurrent", "vanish", "linesfail", "nestrows", "webrows", "writefail"}
    MaxFaults = 1
INVARIANTS
    PaidIsBacked
    PaidWithinQuantity
SYMMETRY Symmetry
CHECK_DEADLOCK FALSE
