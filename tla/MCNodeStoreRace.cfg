CONSTANTS
    a = a
    b = b
    x = x
    y = y
    Absent = Absent
    Threads <- MCThreads
    Deleters <- MCThreads
    Exclusive = FALSE
    Persistent = TRUE
    Data <- MCData
    MaxTx = 1
    CountMod = 4
    MaxIds = 2
    MaxInserts = 9
    MaxLog = 4
    MaxCrashes = 0
SPECIFICATION Spec
SYMMETRY MCBoth
INVARIANTS
    LogMatchesMemory
\* The bounds on ids, records and restarts stop the model, not the store.
CHECK_DEADLOCK FALSE
