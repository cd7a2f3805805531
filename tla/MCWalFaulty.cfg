CONSTANTS
    a = a
    b = b
    Nobody = Nobody
    Writers <- MCTwoWriters
    ChannelCap = 1
    Durability = "Batch"
    BatchSize = 2
    UsizeMax = 255
    DiskMayFail = TRUE
    MaxWrites = 3
    MaxOpens = 2
SPECIFICATION Spec
SYMMETRY MCSymmetry
INVARIANTS
    FileIsOrdered
    PendingIsBounded
\* A closed store may stay closed.
CHECK_DEADLOCK FALSE
