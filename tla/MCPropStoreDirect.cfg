\* Refuted: cells on a row that alloc_row has still to hand out.
CONSTANTS
    a = a
    b = b
    name = name
    age = age
    long = long
    taken = taken
    x = x
    None = None
    Threads <- MCThreads
    Props <- MCProps
    LongNames <- MCLong
    Misread <- MCMisread
    Values <- MCValues
    DirectRows = TRUE
    MaxRows = 2
    MaxProps = 2
    MaxLog = 3
SPECIFICATION Spec
INVARIANT DirectRowsAreCounted
CHECK_DEADLOCK FALSE
