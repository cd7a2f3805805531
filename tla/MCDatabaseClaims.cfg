\* Refuted, each of them (run with -continue): an earlier transaction overwrites a
\* later one, an update disturbs older snapshots, two updates of a node both commit.
CONSTANTS
    a = a
    b = b
    p = p
    Absent = Absent
    Clients <- MCClients
    Calls <- MCUpdates
    Polite = FALSE
    Cells <- MCNoCells
    MaxKeys = 1
    MaxTx = 3
    MaxOps = 1
    MaxCrashes = 0
SPECIFICATION Spec
SYMMETRY MCSymmetry
INVARIANTS
    FirstCommitterWins
PROPERTIES
    LabelsMoveForward
    SettledReadsRepeat
\* The bounds on tickets and restarts stop the model, not the database.
CHECK_DEADLOCK FALSE
