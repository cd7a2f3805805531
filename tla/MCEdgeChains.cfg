CONSTANTS
    a = a
    b = b
    w = w
    m = m
    n = n
    e1 = e1
    e2 = e2
    e3 = e3
    Absent = Absent
    NULL_EDGE = NULL_EDGE
    Threads <- MCThreads
    Walkers <- MCWalkers
    Nodes <- MCNodes
    Ends <- MCEnds
    Ids <- MCIds
    Quiet = TRUE
SPECIFICATION Spec
SYMMETRY MCSymmetry
INVARIANTS
    ChainsAreExact
    WalkFindsStable
    WalkStaysInChain
    RecoveredChainsEnd
