SPECIFICATION Spec
CONSTANTS
    Locals = {l1, l2}
    Clouds = {c1, c2, c3}
    Tables = {t1, t2}
    Handlers = {h1, h2}
    None = None
    UserOps = {"open", "order", "release"}
    MaxItems = 3
    MaxFaults = 2
    Allowed = {"midflush", "timeout", "httperror", "hubcrash", "nestcrash", "dberror", "register", "pull"}
INVARIANTS
    TypeOK
    QueueInOrder
    AckedIsLogged
    NoCrossBooking
PROPERTIES
    MappingIsStable
SYMMETRY Symmetry
CHECK_DEADLOCK FALSE
