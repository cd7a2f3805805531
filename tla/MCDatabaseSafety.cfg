CONSTANTS
    a = a
    b = b
    p = p
    Absent = Absent
    Clients <- MCClients
    Calls <- MCAllCalls
    Polite = FALSE
    Cells <- MCCells
    MaxKeys = 1
    MaxTx = 2
    MaxOps = 2
    MaxCrashes = 0
SPECIFICATION Spec
SYMMETRY MCSymmetry
INVARIANTS
    StampsAreCommitted
    EdgesHaveNodes
\* The bounds on tickets and restarts stop the model, not the database.
CHECK_DEADLOCK FALSE
