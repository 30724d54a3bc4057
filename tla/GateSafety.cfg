SPECIFICATION Spec
CONSTANTS
    SendBacklog = 1
    RecvBacklog = 1
    Batches <- AllBatches
    Senders = {"s1"}
    MaxReads = 1
    MaxTicks = 2
    MaxCalls = 2
    Env = {"quit", "write_fails", "shutdown", "bad_token"}
INVARIANTS
    RecvDrains
    SendsFlushed
CHECK_DEADLOCK FALSE
