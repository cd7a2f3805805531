CONSTANTS
    a = a
    b = b
    Nobody = Nobody
    Writers <- MCOneWriter
    ChannelCap = 2
    Durability = "Batch"
    BatchSize = 2
    UsizeMax = 255
    DiskMayFail = FALSE
    MaxWrites = 2
    MaxOpens = 1
SPECIFICATION Spec
PROPERTIES
    ShutdownDrains
\* A closed store may stay closed.
CHECK_DEADLOCK FALSE
