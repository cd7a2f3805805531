CONSTANTS
    a = a
    b = b
    p = p
    Absent = Absent
    Clients <- MCClients
    Calls <- MCNodesAndEdges
    Polite = FALSE
    Cells <- MCNoCells
    MaxKeys = 1
    MaxTx = 2
    MaxOps = 2
    MaxCrashes = 1
SPECIFICATION Spec
SYMMETRY MCSymmetry
INVARIANTS
    RecoveryIsAtomic
\* The bounds on tickets and restarts stop the model, not the database.
CHECK_DEADLOCK FALSE
