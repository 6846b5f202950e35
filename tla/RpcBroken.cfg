SPECIFICATION Spec
CHECK_DEADLOCK FALSE
CONSTANTS
    Callers = {t1, t2}
    None = None
    Calls = 2
    PoolSize = 1
    Kinds = {"local", "plain", "throws", "unregistered", "noargs"}
    Copies = {"rpcdemo", "multiplex"}
    Faults = {"close", "refuse"}
SYMMETRY AnyOrder
INVARIANTS
    CallbacksRemoved
    NoStrayConnection
    PoolBounded
PROPERTIES
    ImplementsRemoteCalls
