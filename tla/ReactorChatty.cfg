SPECIFICATION ChattySpec
CHECK_DEADLOCK FALSE
CONSTANTS
    s1 = s1
    s2 = s2
    s3 = s3
    BindOrder <- OneServer
    Clients = {k1, k2, k3}
    NBoss = 1
    NWorker = 1
    MaxInt = 7
    PeerFaults = {"close"}
PROPERTIES
    AcceptedGetRegistered
    SentIsRead
