CONSTANTS
    c1 = c1
    c2 = c2
    c3 = c3
    Clients <- MCThreeClients
    SpinLimit = 1
    MaxTx = 3
SPECIFICATION ScopedSpec
INVARIANTS
    TicketsAccounted
    TurnIsExclusive
    SnapshotsAreSettled
PROPERTIES
    ImplementsTicketOrder
    TicketsRetire
    AbandonedHandleIsReleased
\* rollback() of a finished handle never returns, so every client may stop.
CHECK_DEADLOCK FALSE
