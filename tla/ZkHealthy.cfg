SPECIFICATION FairSpec
CHECK_DEADLOCK FALSE
CONSTANTS
    c1 = c1
    c2 = c2
    c3 = c3
    p1 = p1
    p2 = p2
    Clients = {c1, c2, c3}
    Procs = {p1, p2}
    Host <- Sharing
    CatchNodeExists = TRUE
    Faults = {}
INVARIANTS
    MutualExclusion
    ClosedLeavesNoNode
PROPERTIES
    ImplementsTicketLock
    AwaitEnds
