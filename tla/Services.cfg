SPECIFICATION Spec
CONSTANTS
    Procs = {"a", "b"}
    Names = {"a", "b"}
    NameOf <- Self
    AddrOf <- Self
    NoAddr = NoAddr
    Unknown = Unknown
    NoProc = NoProc
    Leased = TRUE
    Follows <- AllNames
    Observers = {}
    Env <- Faults
    MaxStarts = 2
    MaxExpiries = 0
    Services <- HallOne
    Offers <- Offered
    MaxCalls = 2
INVARIANTS
    ServicesInv
    ServicesFound
    StopReleasesServices
CHECK_DEADLOCK FALSE
