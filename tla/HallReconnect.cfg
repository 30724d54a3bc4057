SPECIFICATION Spec
CONSTANTS
    Peers = {"a"}
    Types = {"hall"}
    TypeOf <- OneType
    Users = {"u"}
    NoPeer = NoPeer
    Streams = {"s1", "s2"}
    HallOf <- OneHall
    UserOf <- OneUser
    Kicks = {"k"}
    KickAt <- KickHallA
    KickUser <- KickUserU
    NoStream = NoStream
    Env = {"login_overlap", "same_hall", "load_fails", "unread", "slow_client", "crash", "stop", "stop_in_login"}
INVARIANTS
    HallSingleSession
    CountMatchesDict
CHECK_DEADLOCK FALSE
