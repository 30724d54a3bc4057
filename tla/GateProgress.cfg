SPECIFICATION FairSpec
CONSTANTS
    SendBacklog = 1
    RecvBacklog = 1
    Batches <- AckedBatches
    Senders = {"s1"}
    MaxReads = 0
    MaxTicks = 2
    MaxCalls = 3
    Env = {"quit", "write_fails", "shutdown"}
PROPERTIES
    HandshakeEnds
    SendReturns
    ServeEnds
CHECK_DEADLOCK FALSE
