CONSTANTS
    a = a
    b = b
    x = x
    y = y
    Absent = Absent
    Threads <- MCThreads
    Deleters <- MCOneDeleter
    Exclusive = TRUE
    Persistent = TRUE
    Data <- MCData
    MaxTx = 1
    CountMod = 4
    MaxIds = 2
    MaxInserts = 9
    MaxLog = 4
    MaxCrashes = 1
SPECIFICATION Spec
SYMMETRY MCValues
INVARIANTS
    FreshIsUnused
    LogMatchesMemory
\* The bounds on ids, records and restarts stop the model, not the store.
CHECK_DEADLOCK FALSE
