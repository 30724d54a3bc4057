SPECIFICATION Spec
CONSTANTS
    Peers = {"a", "b"}
    Types = {"hall"}
    TypeOf <- OneType
    Users = {"u"}
    NoPeer = NoPeer
    NoUser = NoUser
    Procs = {"g1", "g2", "g3"}
    HostOf <- HostTwoOne
    TxnMayFail = FALSE
    MaxRev = 5
INVARIANTS
    HolderUnique
    LockedUserFindable
    NormalExitCleansUp
PROPERTIES
    WhereFindsHolder
    ImplementsUserLock
