CONSTANTS
    a = a
    b = b
    p = p
    Absent = Absent
    Clients <- MCClients
    Calls <- MCInserts
    Polite = FALSE
    Cells <- MCNoCells
    MaxKeys = 1
    MaxTx = 2
    MaxOps = 1
    MaxCrashes = 1
SPECIFICATION Spec
SYMMETRY MCSymmetry
INVARIANTS
    StampsAreCommitted
\* The bounds on tickets and restarts stop the model, not the database.
CHECK_DEADLOCK FALSE
