CONSTANTS
    c1 = c1
    c2 = c2
    c3 = c3
    Clients <- MCTwoClients
    SpinLimit = 1
    MaxTx = 2
SPECIFICATION LazySpec
PROPERTIES
    AbandonedHandleIsReleased
CHECK_DEADLOCK FALSE
