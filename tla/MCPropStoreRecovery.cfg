\* Refuted: two writers of a cell reach the log in the other order.  With
\* Threads <- MCOneThread: the record of a long name is taken for the cell.
CONSTANTS
    a = a
    b = b
    name = name
    age = age
    long = long
    taken = taken
    x = x
    None = None
    Threads <- MCThreads
    Props <- MCProps
    LongNames <- MCLong
    Misread <- MCMisread
    Values <- MCValues
    DirectRows = FALSE
    MaxRows = 2
    MaxProps = 2
    MaxLog = 3
SPECIFICATION Spec
INVARIANT EveryCellSurvives
CHECK_DEADLOCK FALSE
