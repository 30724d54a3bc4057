SPECIFICATION FairSpec
CONSTANTS
    Procs = {"gate", "hall", "hallB", "hall2"}
    Names = {"gateway_1", "hall_1", "hall_2"}
    NameOf <- Names2
    AddrOf <- Addrs2
    NoAddr = NoAddr
    Unknown = Unknown
    NoProc = NoProc
    Leased = TRUE
    Follows <- OwnKey
    Observers = {"gate"}
    Env <- Faults
    MaxStarts = 3
    MaxExpiries = 1
    Gateway = "gate"
    Halls = {"hall_1", "hall_2"}
    BuildOf <- Builds2
INVARIANTS
    PeersInv
    StopReleasesKey
    UpstreamsFollowPeers
PROPERTIES
    HallBecomesSelectable
    LostKeyReclaimed
CHECK_DEADLOCK FALSE
