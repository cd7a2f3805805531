CONSTANTS
    batch_size = 20
    MaxWrites = 3
    MaxFile = 16
    MaxOpens = 3
    MaxFaults = 1
SPECIFICATION Spec
INVARIANTS
    SyncedIsReplayed
    ReplayIsOrdered
    RefusedOnlyWhenTorn
\* A closed log may stay closed.
CHECK_DEADLOCK FALSE
