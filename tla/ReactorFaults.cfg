SPECIFICATION Spec
CHECK_DEADLOCK FALSE
CONSTANTS
    s1 = s1
    s2 = s2
    s3 = s3
    BindOrder <- ThreeServers
    Clients = {k1, k2, k3}
    NBoss = 2
    NWorker = 2
    MaxInt = 2
    PeerFaults = {"reset"}
SYMMETRY AnyOrder
INVARIANTS
    OneSelector
    NoClientDropped
    IndexInRange
PROPERTIES
    ImplementsHandover
