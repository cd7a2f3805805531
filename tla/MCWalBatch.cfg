CONSTANTS
    a = a
    b = b
    Nobody = Nobody
    Writers <- MCTwoWriters
    ChannelCap = 1
    Durability = "Batch"
    BatchSize = 2
    UsizeMax = 255
    DiskMayFail = FALSE
    MaxWrites = 2
    MaxOpens = 2
SPECIFICATION FairSpec
INVARIANTS
    FileIsLogPrefix
    FlushIsSyncPoint
    WakeIsNotLogged
PROPERTIES
    ImplementsDurableLog
    FlushReturns
    WritesBecomeDurable
    CloseReturns
\* A closed store may stay closed.
CHECK_DEADLOCK FALSE
