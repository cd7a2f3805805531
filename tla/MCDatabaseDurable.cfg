CONSTANTS
    a = a
    b = b
    p = p
    Absent = Absent
    Clients <- MCClients
    Calls <- MCNoUpdates
    Polite = TRUE
    Cells <- MCCells
    MaxKeys = 1
    MaxTx = 2
    MaxOps = 2
    MaxCrashes = 1
SPECIFICATION Spec
SYMMETRY MCSymmetry
INVARIANTS
    CommitIsDurable
PROPERTIES
    SettledReadsRepeat
\* The bounds on tickets and restarts stop the model, not the database.
CHECK_DEADLOCK FALSE
