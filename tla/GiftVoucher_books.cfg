SPECIFICATION Spec
CONSTANTS
    Vouchers = {v1}
    Payments = {p1, p2, p3}
    Handlers = {h1, h2}
    None = None
    MaxAmount = 3
    Ops = {"issue", "look", "redeem", "void"}
    Allowed = {"concurrent", "vanish", "issuefails", "rowsfail", "readfails", "updatefails",
        "unbooked", "rebooked", "undone", "kept", "unearned", "unspent", "overbooked", "unlogged",
        "unissued", "unlinked", "unrefunded"}
    MaxFaults = 1
INVARIANTS
    TypeOK
    ValueKept
    BooksAgree
    NothingVanishes
    ActiveWhileFilled
PROPERTIES
    NeverRises
    FinalStays
SYMMETRY Symmetry
CHECK_DEADLOCK FALSE
