SPECIFICATION FairSpec
CHECK_DEADLOCK FALSE
CONSTANTS
    Clients = {c1, c2, c3}
    None = None
    TTL = 3
    MaxHold = 2
    RefusedUnlocks = FALSE
    Faults = {"crash", "lostreply"}
INVARIANTS
    MutualExclusion
PROPERTIES
    ImplementsLeaseLock
    PollingEnds
