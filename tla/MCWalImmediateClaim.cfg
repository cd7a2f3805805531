CONSTANTS
    a = a
    b = b
    Nobody = Nobody
    Writers <- MCOneWriter
    ChannelCap = 2
    Durability = "Immediate"
    BatchSize = 2
    UsizeMax = 255
    DiskMayFail = FALSE
    MaxWrites = 2
    MaxOpens = 1
SPECIFICATION Spec
INVARIANTS
    ImmediateIsDurable
\* A closed store may stay closed.
CHECK_DEADLOCK FALSE
