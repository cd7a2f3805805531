CONSTANTS
    a = a
    b = b
    x = x
    y = y
    Absent = Absent
    Threads <- MCThreads
    Deleters <- MCOneDeleter
    Exclusive = FALSE
    Persistent = FALSE
    Data <- MCOneValue
    MaxTx = 2
    CountMod = 4
    MaxIds = 3
    MaxInserts = 5
    MaxLog = 0
    MaxCrashes = 0
SPECIFICATION Spec
SYMMETRY MCValues
INVARIANTS
    IdOwnership
    FreeCountBalances
    SweepIsDead
\* The bounds on ids, records and restarts stop the model, not the store.
CHECK_DEADLOCK FALSE
