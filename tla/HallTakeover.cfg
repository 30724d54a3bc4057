SPECIFICATION Spec
CONSTANTS
    Peers = {"a", "b"}
    Types = {"hall"}
    TypeOf <- OneType
    Users = {"u"}
    NoPeer = NoPeer
    Streams = {"s1", "s2", "s3"}
    HallOf <- TwoHalls
    UserOf <- OneUser
    Kicks = {"k"}
    KickAt <- KickHallA
    KickUser <- KickUserU
    NoStream = NoStream
    Env = {"load_fails", "unread", "crash", "commit_fails"}
INVARIANTS
    HallInv
    PlayingHoldsLock
    LockReleasable
CHECK_DEADLOCK FALSE
