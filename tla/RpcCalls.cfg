SPECIFICATION FairSpec
CHECK_DEADLOCK FALSE
CONSTANTS
    Callers = {t1, t2}
    None = None
    Calls = 2
    PoolSize = 1
    Kinds = {"plain"}
    Copies = {"rpcdemo", "multiplex"}
    Faults = {"interrupt"}
INVARIANTS
    AnswersExpected
PROPERTIES
    CallsEnd
