\* Refuted, each of them (run with -continue): a torn record keeps the file from
\* being opened; what is appended after a torn length is synced and unreadable;
\* sync_now writes the buffer and keeps it.
CONSTANTS
    batch_size = 20
    MaxWrites = 3
    MaxFile = 16
    MaxOpens = 2
    MaxFaults = 1
SPECIFICATION Spec
INVARIANTS
    NeverRefused
    FlushedIsRecovered
    ReplayedOnce
CHECK_DEADLOCK FALSE
