SPECIFICATION Spec
CHECK_DEADLOCK FALSE
CONSTANTS
    c1 = c1
    c2 = c2
    c3 = c3
    p1 = p1
    p2 = p2
    Clients = {c1, c2, c3}
    Procs = {c1, c2, c3}
    Host <- Apart
    CatchNodeExists = TRUE
    Faults = {"crash"}
INVARIANTS
    OnlyFirstNodeHolds
