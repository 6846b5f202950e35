SPECIFICATION Spec
CHECK_DEADLOCK FALSE
CONSTANTS
    Procs = {p1, p2}
    None = None
    Keys = {k1, k2}
    MaxWrites = 2
    Ops = {"get", "update", "value", "delete", "save"}
    Habits = {"rename", "blind"}
    Expiry = TRUE
    Faults = {"redis", "commit", "crash"}
SYMMETRY AnyOrder
INVARIANTS
    CacheAgrees
    ReturnedIsReal
PROPERTIES
    EntriesExpire
