SPECIFICATION FairSpec
CONSTANTS
    Conns = {"c1", "c2"}
    NoConn = NoConn
    MaxMaintains = 1
INVARIANTS
    ServerInv
PROPERTIES
    ShutdownReturns
    SessionsEnd
CHECK_DEADLOCK FALSE
