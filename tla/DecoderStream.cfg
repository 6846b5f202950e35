SPECIFICATION FairSpec
CHECK_DEADLOCK FALSE
CONSTANTS
    N = 3
    HeaderLen = 3
    MaxBody = 4
INVARIANTS
    Framed
PROPERTIES
    ImplementsChannel
    AllDecoded
