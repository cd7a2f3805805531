CONSTANTS
    a = a
    b = b
    name = name
    age = age
    long = long
    taken = taken
    x = x
    None = None
    Threads <- MCThreads
    Props <- MCProps
    LongNames <- MCLong
    Misread <- MCMisread
    Values <- MCValues
    DirectRows = FALSE
    MaxRows = 2
    MaxProps = 2
    MaxLog = 3
SPECIFICATION Spec
SYMMETRY MCSymmetry
INVARIANTS
    RowsAreFresh
    CellsSurvive
    RowsRecoverInOrder
\* The bounds on rows and records stop the model, not the store.
CHECK_DEADLOCK FALSE
