SPECIFICATION Spec
CONSTANTS
    Sessions = {s1, s2}
    Tables = {t1, t2}
    Lines = {l1, l2}
    Payments = {p1, p2, p3}
    Handlers = {h1}
    None = None
    MaxQty = 2
    Ops = {"open", "bill", "release", "move", "order", "pay", "wopen", "worder", "wpay", "wclose", "void"}
    Allowed = {"linesfail", "webrows"}
    MaxFaults = 2
INVARIANTS
    TypeOK
    PaidIsSum
    PaymentHasRows
PROPERTIES
    NoWayBack
    PromiseKept
SYMMETRY Symmetry
CHECK_DEADLOCK FALSE
