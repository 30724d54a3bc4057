SPECIFICATION Spec
CONSTANTS
    Peers = {"a", "c"}
    Types = {"hall", "battle"}
    TypeOf <- TwoTypes
    Users = {"u"}
    NoPeer = NoPeer
    NoUser = NoUser
    Procs = {"g1", "g2", "g3"}
    HostOf <- HostTwoTypes
    TxnMayFail = TRUE
    MaxRev = 4
INVARIANTS
    KeysConsistent
    UserKeyNamesHolder
PROPERTIES
    LockReleasedOnlyByHolder
