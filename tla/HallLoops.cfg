SPECIFICATION FairSpec
CONSTANTS
    RequestBufferSize = 1
    ResponseBufferSize = 1
    PushBufferSize = 1
    SessionActorBuffSize = 1
    Pushers = {"p1", "p2"}
    Environments <- Around
    MaxRequests = 2
    MaxReplies = 1
    MaxEvents = 2
INVARIANTS
    LoopInv
CHECK_DEADLOCK FALSE
PROPERTIES
    GoneClientLoggedOut
    GoroutinesEnd
    InputsTaken
