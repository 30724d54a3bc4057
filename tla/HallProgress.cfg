SPECIFICATION FairSpec
CONSTANTS
    Peers = {"a", "b"}
    Types = {"hall"}
    TypeOf <- OneType
    Users = {"u"}
    NoPeer = NoPeer
    Streams = {"s1", "s2"}
    HallOf <- TwoHalls
    UserOf <- OneUser
    Kicks = {}
    KickAt <- KickHallA
    KickUser <- KickUserU
    NoStream = NoStream
    Env = {"load_fails", "stop"}
PROPERTIES
    LoginEnds
    StopEnds
    ExitSaves
CHECK_DEADLOCK FALSE
