CONSTANTS
    nodes_wal = nodes_wal
    edges_wal = edges_wal
    Files <- MCFiles
    Rotating = TRUE
    interval = 2
    MaxWrites = 3
    MaxId = 3
SPECIFICATION Spec
SYMMETRY MCSymmetry
INVARIANTS
    NamedIsWhole
    NothingIsLost
    DueIsNoticed
PROPERTIES
    NamedIsKept
CHECK_DEADLOCK FALSE
