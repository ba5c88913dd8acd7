SPECIFICATION Spec
CONSTANTS
    Sessions = {s1, s2}
    Txs = {t1, t2}
    Orders = {t1}
    Closings = {c1, c2}
    Handlers = {h1, h2}
    None = None
    MaxTime = 6
    Allowed = {"vanish", "readfails", "updatefails", "notready", "storefails", "putlost", "putfails", "rejects", "waitfails"}
    MaxFaults = 1
INVARIANTS
    TypeOK
    ClosedIsComplete
    CountedOnce
    NoneForgotten
    ZConsecutive
SYMMETRY Symmetry
CHECK_DEADLOCK FALSE
