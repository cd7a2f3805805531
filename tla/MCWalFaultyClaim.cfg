CONSTANTS
    a = a
    b = b
    Nobody = Nobody
    Writers <- MCOneWriter
    ChannelCap = 2
    Durability = "Batch"
    BatchSize = 2
    UsizeMax = 255
    DiskMayFail = TRUE
    MaxWrites = 2
    MaxOpens = 1
SPECIFICATION Spec
INVARIANTS
    FlushIsSyncPoint
\* A closed store may stay closed.
CHECK_DEADLOCK FALSE
