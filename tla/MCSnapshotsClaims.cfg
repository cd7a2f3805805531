\* Refuted, both (run with -continue): recover replays no WAL without a snapshot,
\* nor one marked by name; manifest.json is truncated in place.
CONSTANTS
    nodes_wal = nodes_wal
    edges_wal = edges_wal
    Files <- MCFiles
    Rotating = FALSE
    interval = 2
    MaxWrites = 3
    MaxId = 3
SPECIFICATION Spec
INVARIANTS
    RecoveryIsComplete
    ManifestIsReadable
CHECK_DEADLOCK FALSE
