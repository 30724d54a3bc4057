SPECIFICATION FairSpec
CONSTANTS
    Clients = {"c1"}
    Messages <- Played
    MaxSessionCount = 1
    MaxDowns = 3
INVARIANTS
    GatewayInv
PROPERTIES
    SessionEnds
    SuspendedResumes
CHECK_DEADLOCK FALSE
