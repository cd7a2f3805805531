# Verification of lightgraph in TLA+

lightgraph is an embedded graph database: three stores (nodes, edges,
properties) with a write-ahead log (WAL) each, multi-version transactions over
them, indexes and queries on top. This directory holds TLA+ models of the
transactional core, translated from the Rust source, the TLC configurations that
check them, and TLAPS proofs of the results that do not depend on the size of the
instance. Source paths below are relative to the repository; `PROJECT.json` gives
the lines every definition stands for.

## 1. Inventory

| Part | State | Operations | Model |
|---|---|---|---|
| `TxManager` (`src/transaction/tx_manager.rs`) | two atomics, `next_tx_id` and `committed_tx_id` | `begin_read`, `begin_write`, `commit` (spins up to `SPIN_LIMIT`), `rollback` (spins for ever), `latest_committed` | `TxManager`, abstractly `TicketOrder` |
| `Transaction`, `Database` (`src/transaction/mod.rs`) | six vectors of buffered writes, ticket, snapshot, `committed` cell | `begin_*`, `create_node`, `create_edge`, `update_node_labels`, `delete_*`, `set_prop`, `get_*`, `commit`, `rollback`, `Drop`, `open` | `Database` |
| `WalThread` (`src/storage/wal_thread.rs`) | bounded channel, `running`, `pending_bytes`; in the thread a buffer, a `BufWriter` and the time of the last sync | `spawn`, `send_*`, `flush`, `shutdown`, `Drop`, `wal_loop`, `flush_and_sync`, `replay_wal` | `WalThread`, abstractly `DurableLog`; its bytes in `Frames` and `LogFiles` |
| Contract (`src/storage/consistency.rs`) | configuration | `batch_bytes`, `fsync_enabled`, `batch_timeout`; guarantees G1 to G4 in its documentation | constants of `WalThread`; properties of `WalThread` and `LogFiles` |
| `NodeStore` (`src/storage/node_store.rs`) | concurrent map, `next_id`, lock-free free list, `free_count`, `total_ever`, WAL handle | alloc, insert, updates, soft and hard delete, `compact`, `flush`, `open` | `NodeStore` |
| `EdgeStore` (`src/storage/edge_store.rs`) | as above, and adjacency chains threaded through edges and nodes | as above, `link_into_chains`, `unlink_from_chains`, `out_edges`, `in_edges` | chains, insert, hard delete in `EdgeChains`; soft delete, flush, open in `Database` |
| `PropStore` (`src/storage/prop_store.rs`) | columns of cells, a row counter per label, WAL handle | `alloc_row`, `insert_prop`, `set_prop`, `insert_row`, `flush`, `open` | `PropStore`; cells of transactions in `Database` |
| `StoreLog` (`src/storage/store_log.rs`), `WalWriter`/`WalReader` (`src/wal/mod.rs`) | a file of framed records, a buffer, a `BufWriter` | open, append, sync, drop, replay | `Frames`, `LogFiles` |
| `SnapshotManager` (`src/snapshot/mod.rs`) | snapshot files, a manifest with the list of merged WALs, a byte count | `new`, `take_snapshot`, `merge_wal`, `add_wal_bytes`, `should_snapshot`, `recover` | `Snapshots` |
| `CjkAnalyzer` (`src/index/fulltext/analyzer.rs`) | none: a loop over the characters of a text | `tokenize` | `CjkAnalyzer` |
| Query, property index, full-text index | builders, and indexes that nothing fills | plan, filter, search | not modelled (section 5) |
| Vector index, distributed layer, Python SDK | stubs | | not modelled (section 5) |

**How they interact.** A client thread owns a `Transaction`. `begin_write` takes a
ticket from `TxManager` and, in a second access, a snapshot. Writes are buffered in
the handle. `Transaction::commit` has three phases: it waits for its turn and
advances `committed_tx_id`; it applies the vectors to the stores (nodes, edges,
properties in a fixed order); it flushes the three WALs one after the other. Each
store changes its in-memory map and then sends a record through a bounded channel
to its own WAL thread, which batches, writes and fsyncs. `open` replays each WAL
into a fresh store and starts a fresh `TxManager`. There is no lock across any of
these steps. `StoreLog`, `WalWriter` and `SnapshotManager` are called by tests and by
users of the crate, not by `Database`; the analyzer would feed the full-text index.

**What is hard, and what makes each part correct.**

- *Tickets.* A load that finds the turn and the store that passes it on are not
  one step; a commit may time out and keep its ticket; Drop waits for a turn. The
  counter must advance one ticket at a time, no ticket may be lost, and the queue
  must not stall.
- *WAL.* The file must always be a prefix of what the channel accepted; a flush
  that returned must have made everything before it durable, through batches,
  full channels, closes, crashes and reopenings; flush and close must return.
- *Node store.* Ids move between a map, a lock-free queue and running calls, in
  separate steps. An id must never be in two places; the log must replay to the
  map; compaction must not remove the living.
- *Chains.* Walks run beside links and unlinks without a lock: they must end, miss
  nothing that stays, and stay in their chain.
- *Files.* A record is a length, an opcode and a payload; a crash cuts the file at
  any byte, a disk error leaves part of a batch in the file and part in a
  `BufWriter`. What was synced must come back, in order and unaltered.
- *Properties.* A cell changes in memory and in the log in two steps, rows are
  handed out by a counter that is not logged. While the store is open a row must be
  handed out once, after a restart none that has a cell, and the cells must come back.
- *Snapshots.* A snapshot and the manifest that names it are two files, the WALs
  go on meanwhile. Whatever manifest survives must name a whole snapshot that,
  with the WALs it does not list, holds every write.
- *Analyzer.* Runs and bigrams end where scripts meet or the text ends. The tokens
  must be exactly the terms of the text.
- *Transactions.* A snapshot must separate what it may see from what it may not;
  a handle must read the same throughout; a commit that returned must be durable.

The `hazards` of `PROJECT.json` list the places in the code, each with the
properties that would catch it going wrong, and say in a note what those leave out.
Where the code does go wrong no property of a run names the place, and the note gives
the configuration of section 6 that shows it.

## 2. Modules

```
TicketOrder  <--- refined by --- TxManager    <- TxManagerProofs,  MCTxManager
     ^
     | used by
Database  <- DatabaseProofs, MCDatabase
     | each store's WAL behaves as
     v
DurableLog   <--- refined by --- WalThread    <- WalThreadProofs,  MCWalThread

Frames  <--- extended by --- LogFiles         <- LogFilesProofs,   MCLogFiles

NodeStore   <- NodeStoreProofs,   MCNodeStore
EdgeChains  <- EdgeChainsProofs,  MCEdgeChains
PropStore   <- PropStoreProofs,   MCPropStore
Snapshots   <- SequentialProofs,  MCSnapshots
CjkAnalyzer <- SequentialProofs,  MCCjkAnalyzer
```

**TicketOrder** is the promise of the ticket lock: tickets are issued one by one
and retire in that order, one at a time. `next`, `frontier` and the set `open`.

**TxManager** takes every atomic access as a step. `pc` says where each client is:
`BeginWrite` is the `fetch_add`, `TakeSnapshot` the later load, `CallCommit`,
`CommitLoad` (one iteration of the loop: turn, time-out or spin), `CommitStore`,
`CallRollback`, `DropHandle`, `RollbackLoad`, `RollbackStore`. A handle that is
finished may still be rolled back by its owner, as in the code (it then waits for
ever). `SPIN_LIMIT` is the constant `SpinLimit`; back-off is left out.

**DurableLog** is G1 to G3 of `consistency.rs` seen from outside: a log, a durable
prefix, what flushes have vouched for; a crash or a close takes away a suffix that
is not durable.

**WalThread** has the channel, the thread (`Recv`, `RecvTimeout`, `Dispatch*`,
`CheckSync`, then `WriteFile` and `SyncFile` for `flush_and_sync`), writers in
`send_*` and `flush()`, and the life of the value (`Spawn`, `BeginClose`,
`DropSend`, `ShutdownSend`, `Join`, `Crash`). A record is a number; what the code
counts in bytes is counted in records. `due` stands for the clock. With
`DiskMayFail` every write and fsync may return an error, which the code prints; the
batch is not retried, and `held` is what the `BufWriter` had taken of it, to be
written in front of a later batch or when the thread ends. `log`, `base`, `upto`,
`acked` are history: the order of acceptance, its length at the last open, what each
flush has to cover, and the best a returned flush has vouched for. A flush is only
held to the writes of the current opening of the store; the rest is disagreement 5
below.

**Frames** has the three record formats as bytes: `encode` (a length that counts the
opcode or, in `StoreLog`, does not; opcode, id, payload) and `replay`, the loop with
its early returns: an end of file inside the length is the end of the log, one
inside the body an error. `Round` is one iteration at a byte, `ReplayLoop` the
recursive function of that byte it gives. **LogFiles** is a file under each of the three loggers:
`Open` and `OpenSync` (the magic), `append`, `maybe_sync` and `write`, `sync_now`,
`flush`, then `WriteOut` and `SyncAll` or their failures, `Close` and `Crash`. They
differ in what becomes of the buffer after a sync (`clear`), after an error (`Fail`:
kept, or dropped by the WAL thread) and on drop, and in whether a torn file is
refused (`Refuses`). History: the writes in the buffer, vouched for, dropped; and
`clean`, that no torn tail was appended to.

**NodeStore** splits each call where another thread can get in between: `AllocPop`,
`AllocSub`, `AllocFresh` for `alloc_id`; `InsertMem`, `InsertLog` for the map
insert and the record; `hard_delete` (the DELETE record), `Remove`, `Push`,
`CountFreed`; `Compact`, `CompactScan`, `CompactCollected`, `CompactNext`,
`CompactDone`. Updates hold the map entry while they send, so they are one step.
`free_count` wraps modulo `CountMod`, as a `u64` does. `Persistent` chooses between
`new()` and `open()`; `Crash` and `Open` cut the log and replay it. `Deleters` are
the threads that call `hard_delete` and `compact`; `Exclusive` restricts callers to
one call per id at a time. A node is its two stamps and a value.

**EdgeChains** is the pair of singly linked lists every edge is on. The two heads are
`&mut` arguments, so a call has them to itself (`Borrowed`, `Borrowable`); the entries
of the map are locked one access at a time. `LinkOne` is done for the out chain, then
for the in chain, `UnlinkHead` and `Search` likewise; the records follow at the end
(`LinkLog`, `UnlinkLog`). `StartWalk`, `WalkOn`, `WalkEnd` are `out_edges` and
`in_edges`. `stored` is what the log replays to at that moment. The caller passes the
heads of the edge's own nodes, links an edge once and unlinks it before
`hard_delete`. These are assumptions on callers that the store does not check and
nobody else makes: `Database` never links an edge, and the tests link each edge once,
most of them with a head for the in chain that no node has, and delete none. `Quiet` says the caller
deletes while nobody walks. `linked` and `stable` are history.

**PropStore** has the columns of one label and its row counter. `Change` alters the
column and leaves the record to be sent (`wal_send_cell`); `insert_row` takes the row
and `InsertNext` does one property after the other; `open` replays the cells and
raises the counter. The length of a name of 256 bytes or more (`LongNames`) is cut to a
byte, and what then stands where the replay looks for the row and the value are bytes of
the name: `Misread` says, for every record of such a name, which cell it is taken for, if
for any (`Parses`, `Cell`). `DirectRows` lets callers write to rows that `alloc_row` did not give
them. The WAL thread is the order in which records arrive and a synced prefix, as
`DurableLog` says. `raced`, `lists`, `given` (the rows handed out since the last crash)
and `old` (how much of the log that crash left) are history.

**Snapshots** cuts `take_snapshot` and `merge_wal` at their file operations
(`CreateSnapshot`, `SyncSnapshot`, `AdvanceManifest`, `WriteManifest`), where `Fail`,
`Kill` or `PowerLoss` may come, and writes to the WALs at any time. `json` is
manifest.json, `stable` all its contents since the last power failure, any of which
the next one may bring back, as it is never fsynced. `Recovered` is what `recover`
restores from a manifest. `Rotating` restricts callers to merging a file that the
snapshot covers and leaving it alone afterwards.

**CjkAnalyzer** is the loop of `tokenize`, one step per round (`Bigram`, `Word`,
`Number`, `Skip`; together `Round`, and `Tokenize` is the specification), on every text
up to a length. `Terms` says without a loop what the
text should be cut into. A character is one of six classes: CJK letters, marks in the CJK
ranges, other letters, letter numbers (U+2167 or U+3007, which are alphabetic and numeric),
other numerals, and the rest; lowercasing is left out.

**Database** composes tickets (`Tickets == INSTANCE TicketOrder`, so that
`commit` and `rollback` contain `Tickets!Retire`) with three stores whose WALs are
logs with a synced prefix, as `DurableLog` says. `Apply` is one buffered write and
its record; `FirstPhase` picks the vector the code would apply next; `flush` is one
store's flush. `Calls` selects the buffering calls in use, `Polite` says nobody
deletes what is deleted already or about to be. Data of a node or a cell is the
transaction that wrote it, that of an edge its source node.

## 3. Runs

| Run | Instance | What it shows |
|---|---|---|
| `tx_scoped` | 3 clients, 3 tickets, `SpinLimit` 1, `ScopedSpec` | the two counters implement `TicketOrder` (`ImplementsTicketOrder`); the turn is exclusive between load and store (`TurnIsExclusive`); no ticket is lost or shared (`TicketsAccounted`); snapshots are settled and older than their owner; every ticket retires and every Drop returns |
| `wal_batch` | 2 writers, channel 1, batch 2, 2 writes, 2 openings, crash, `FairSpec` | the file is a prefix of the accepted log, flush is a sync point, the wake-up record stays out of the file, `DurableLog` is implemented; flush and close return, a write becomes durable without a flush |
| `wal_faulty` | 2 writers, channel 1, 3 writes, 2 openings, failing disk | gaps but no reordering or repetition in the file; `pending_bytes` leaves no residue |
| `node_ids` | 2 threads, one of them deleting, 3 ids, in memory | an id is in one place, the free counter balances modulo its width, `compact` only removes the dead |
| `node_log` | 2 threads, one deleting, 2 ids, 4 records, 1 crash, exclusive calls | the log replays to the map, before and after a restart; fresh ids are unused after recovery too |
| `edge_chains` | 2 threads, 1 walker, 2 nodes, 3 edges (one a loop), any number of calls | an unborrowed chain holds exactly the linked edges of its node, once each; a walk finds every edge that stays linked and only edges of its node; no prefix of the log replays to a circle |
| `db_safety` | 2 clients, 2 tickets, 2 writes each, all six kinds of write | no stamp of an uncommitted transaction is in a store; no edge without its source node |
| `db_durable` | 2 clients, 2 tickets, 2 writes each, 1 crash, no updates | every record of a commit that returned is on disk; a handle with a settled snapshot reads the same until it ends |
| `log_files` | three formats, 3 writes of 2 kinds, 3 openings, 1 disk error, crash at every byte | what a sync vouched for is replayed (`SyncedIsReplayed`); replay keeps the order, without holes or inventions, and meets a write once (`ReplayIsOrdered`); only a crash or an error makes a file unreadable (`RefusedOnlyWhenTorn`) |
| `snapshots` | 2 WAL files, 3 writes, 3 ids, interval 2, rotating callers | the snapshot that any surviving manifest names is whole (`NamedIsWhole`) and is not rewritten (`NamedIsKept`); recovery restores every write (`NothingIsLost`); a snapshot that is due is asked for (`DueIsNoticed`) |
| `prop_store` | 2 threads, 4 names (two long, one of them taken for a cell), 2 rows, 3 records, any number of crashes | within an opening a row is handed out once, empty, and none of which a cell came back (`RowsAreFresh`); a cell comes back as it is unless two threads changed it at once or a long name's record is taken for it (`CellsSurvive`); a row cut by a crash keeps its first properties (`RowsRecoverInOrder`) |
| `analyzer` | every text of up to 5 characters of 6 classes | the tokens are exactly the terms, each once, numbered in order (`TokensAreExact`); `tokenize` returns |

Every property of a run has a mutant in `PROJECT.json`: a definition with a
plausible slip of the code (a lost guard, a missing reset, a swapped order) under
which TLC finds the property violated. `TypeOK` is a theorem for `TxManager`,
`WalThread` and `NodeStore`; in the other modules it is a conjunct of an invariant
of the run (`ChainsAreExact`, `EdgesHaveNodes`, `ReplayIsOrdered`, `NamedIsWhole`,
`RowsAreFresh`, `TokensAreExact`), all of them theorems. The other configurations are the disagreements of section 6, each of which TLC refutes.

**Bounds, and why they are enough.** `SpinLimit` 1 already gives a commit that
succeeds at once, one that succeeds after spinning, and one that times out and is
retried or dropped; three clients give a holder, a waiter and one that arrives in
between. A channel of 1 is full in most states; a batch of 2 is reached, or
not, within 2 or 3 writes; two openings give a crash or a close with everything before
and after it. `UsizeMax` 255 keeps the arithmetic of the buffer's capacity. In
`NodeStore`, 3 ids and 5 inserts let an id be freed and handed out again twice
while another is on its way; `CountMod` 4 wraps where 2^64 does, with a gap between
the wrapped value and any real length. In `Database` two tickets are two
overlapping commits (retire, apply and flush interleave freely), two writes per
transaction reach two stores, one crash falls at every point of them. `EdgeChains` has
no bound on calls: three edges give a head, a middle and a tail, and pairs of edges
with both, one or no chain in common. With `Quiet` false TLC refutes the two properties
of walks: `hard_delete` under a walk ends it early or, once the id is used again, leads
it into another chain; nothing in the code's documentation promises otherwise. In
`LogFiles` three records of two lengths fill a buffer of 20 bytes or do not, three
openings give a file closed, crashed and appended to, and `MaxFile` only limits how
often `sync_now` repeats itself. In `Snapshots` three ids give a named snapshot, one
that was written and never named, and one whose id is used again; three writes with an
interval of two make a snapshot due before, during and after another. In `PropStore`
three records, sent or on their way, are two properties of a row and a change of one of
them; of the two long names one does not parse and one is taken for the removal of a cell
of a row that may or may not have been handed out. (A record taken for a row in the
billions would also make `open` ask for as long a column, which is not modelled:
`MaxRows` bounds that row too.) Five characters hold two runs with a border on each side. Each bound
is a guard of the model on a counter that is unbounded in the code; as the bounds
and finished handles stop a model, deadlock is not checked where a `.cfg` says so.

**Fairness.** In `TxManager`, weak fairness of a client inside the manager: its
loops only spin and yield, so a thread the scheduler runs makes progress
(`LazySpec`). `ScopedSpec` also assumes that a handle is eventually ended, which is
Rust's scope rule for a handle that is not leaked; without it the queue does stall
(disagreement 1). In `WalThread`, weak fairness of the WAL thread, the clock, the
closing thread and the return from `flush`; strong fairness of a send on a full
channel, because the channel wakes blocked senders when slots become free. Calls,
closes and crashes have no fairness: they may never happen. `WritesBecomeDurable`
speaks of the writes of the current opening, because records replayed after a crash
are not synced again (disagreement 5). `CjkAnalyzer` is a loop in one thread: weak
fairness of its next round.

## 4. Proofs

| Theorem | Statement | Under |
|---|---|---|
| `TxManagerProofs!TypeCorrect` | `Spec => []TypeOK` | |
| `TurnsAreExclusive` | `Spec => []TurnIsExclusive` | |
| `TicketsAreAccounted` | `Spec => []TicketsAccounted` | |
| `SnapshotsSettled` | `Spec => []SnapshotsAreSettled` | |
| `CounterAdvancesByOne` | `Spec => AdvancesByOne` | |
| `Implementation` | `Spec => ImplementsTicketOrder` | |
| `WalThreadProofs!TypeCorrect` | `Spec => []TypeOK` | |
| `WriteOrdering` | `Spec => []FileIsLogPrefix` | `ReliableDisk` |
| `FlushMakesDurable` | `Spec => []FlushIsSyncPoint` | `ReliableDisk` |
| `WakeStaysOut` | `Spec => []WakeIsNotLogged` | `ReliableDisk` |
| `Implementation` | `Spec => ImplementsDurableLog` | `ReliableDisk` |
| `FileStaysOrdered` | `Spec => []FileIsOrdered` | |
| `PendingStaysBounded` | `Spec => []PendingIsBounded` | |
| `NoFlushIsForgotten` | `Spec => []FlushIsNotForgotten` | |
| `LogFilesProofs!SyncedIsReplayedTheorem` | `Spec => []SyncedIsReplayed` | |
| `ReplayIsOrderedTheorem` | `Spec => []ReplayIsOrdered` | |
| `RefusedOnlyWhenTornTheorem` | `Spec => []RefusedOnlyWhenTorn` | |
| `SyncedBytesStay` | `Spec => SyncedStays` | |
| `ReplayReadsBack` | `Covers(...) => \E m : Delivers(..., m)`: `replay` inverts `encode` | |
| `NodeStoreProofs!TypeCorrect` | `Spec => []TypeOK` | |
| `FreshIdsAreNew` | `Spec => []FreshIsUnused` | |
| `FreeCountIsRight` | `Spec => []FreeCountBalances` | |
| `LogGivesTheMap` | `Spec => []LogMatchesMemory` | `Exclusive` |
| `IdsAreOwnedOnce` | `Spec => []IdOwnership` | `OneLifetime` |
| `CompactionSparesTheLiving` | `Spec => []SweepIsDead` | `OneLifetime`, `OneDeleter` |
| `EdgeChainsProofs!ChainsStayExact` | `Spec => []ChainsAreExact` | |
| `RecoveredChainsAlwaysEnd` | `Spec => []RecoveredChainsEnd` | |
| `WalksFindWhatStays` | `Spec => []WalkFindsStable` | `Quiet` |
| `WalksStayOnTheirChain` | `Spec => []WalkStaysInChain` | `Quiet` |
| `DatabaseProofs!CommittedIsDurable` | `Spec => []CommitIsDurable` | |
| `StampsOfCommitted` | `Spec => []StampsAreCommitted` | `OneLifetime` |
| `EdgesFindTheirNodes` | `Spec => []EdgesHaveNodes` | `OneLifetime` |
| `SettledReadsAreRepeatable` | `Spec => SettledReadsRepeat` | `Polite`, `NoUpdates` |
| `SequentialProofs!NamedSnapshotIsWhole` | `Spec => []NamedIsWhole` | |
| `NamedSnapshotIsKept` | `Spec => NamedIsKept` | |
| `RotatedWritesSurvive` | `Spec => []NothingIsLost` | |
| `DueSnapshotIsNoticed` | `Spec => []DueIsNoticed` | |
| `TextIsCutExactly` | `Tokenize => []TokensAreExact` | |
| `RoundsMoveOn` | `Tokenize => MovesOn` | |
| `PropStoreProofs!RowsStayFresh` | `Spec => []RowsAreFresh` | |
| `CellsAreRecovered` | `Spec => []CellsSurvive` | |
| `RowsComeBackInOrder` | `Spec => []RowsRecoverInOrder` | |

They hold for every number of clients, writers, threads, walkers, ids, files, rows and
characters, every capacity, batch size and bound, from the named assumptions on the
constants only. Every hypothesis of the last column holds in the run that checks
the property; without it the statement is false, for the reasons given below.
`NothingIsLost` and the rows' properties carry theirs (`Rotating`, `~DirectRows`) inside,
those of `LogFiles` what they say of `clean`, `crashed` and `faults`. `LogFiles` numbers its
writes in one byte (`MaxWrites \in 0 .. 255`), as a payload is that number.

- *TxManager.* The turn is exclusive because every unretired ticket has one holder:
  `Inv` says that each number between the counters is held (`WindowIsHeld`), by one
  client (`HeldOnce`), that a holder's ticket is in that window (`HeldInWindow`), a
  finished handle's is behind it (`FinishedIsBehind`), and a client about to store
  has the turn (`StoreHasTurn`). `TurnIsExclusive` alone is not inductive: nothing
  in it keeps two clients from holding the same number.
- *WalThread.* `ReliableDisk` is `~DiskMayFail /\ fsync_enabled`: with errors, or
  under Async, the statements are false. The strengthening says that the file, the
  buffer, the command in hand and the channel are the log cut into consecutive
  pieces, using the position each command was stamped with on acceptance; that each
  flush under way has one waiting writer and stands behind its writes; that the
  `BufWriter` is empty between batches (`NothingIsHeld`, a theorem of its own, as only
  errors leave something in it); and that between two syncs the file is synced, unless
  nothing was written since the open. On a disk that fails, `PipeIsOrdered` is what is
  left: file, `BufWriter`, buffer, command and channel, read in this order, are
  increasing, with gaps. `PendingIsBounded` only needs that the senders are finitely
  many (`PendingInv`); the lemmas are about the cardinality of the records in a channel.
  `FlushIsNotForgotten` is the part of `FlushReturns` that is not about fairness: the
  command of a writer that waits is in the channel or in hand, and the thread has not
  left. It holds because `LifeInv` ties a writer inside a call to a store that is up,
  and that to a thread which is running and has no reason to leave.
- *LogFiles.* The argument is about bytes. `Lays` says at which bytes the frames of a list
  of records begin, each as far from the last as its frame is long; `Covers`, that a file
  is the beginning of the magic and such frames, cut anywhere; `Complete`, how many of them
  are whole. `FrameRead` reads one frame back through the little-endian length and, for
  the WAL thread, the id. `LoopAtFrame` is an induction over the frames from the last one
  backwards, on the recursive function of the position; `ReplayReadsBack` follows. The
  invariant says that the buffer is whole frames of the writes in it, in order
  (`BufferInv`), and that the file followed by what is left in the `BufWriter` covers some
  frames (`FileInv`), of which those vouched for end within what was synced (`Vouched`),
  which are in order and without holes but for dropped batches (`InOrder`), and which end
  where the file ends while it is open (`OpenFile`); so that the next batch begins at the
  end of a frame. The properties alone are not inductive, as they do not see the bytes in
  the buffer and in the `BufWriter`. All of it is said under `clean`: once a torn record is
  appended to, boundaries are lost (disagreement 17). `Glue` appends whole frames, `CutCovers`
  takes bytes from the end, as a crash and a failed write do; after a failed write, `WriteFails`
  asks replay itself whether the rest is torn. `SyncedStays` says of the bytes what
  `SyncedIsReplayed` says of the records, with or without `clean`.
- *NodeStore.* `IdOwnership` together with "ids in use are below `next_id`" and the
  types is inductive; the lemmas `PopMoves`, `FreshMoves`, `InsertMoves`,
  `RemoveMoves`, `PushMoves` are the moves of an id. `OneLifetime` (`MaxCrashes = 0`)
  is one value from its creation on: after a restart `IdOwnership` is false
  (disagreement 7). `SweepInv` adds that what a compaction has listed stays dead,
  which needs a single deleting thread: with two, an id listed by one can be freed by
  the other and given to a new node. Across restarts, `LivesInv` says that replay puts
  no id at or above its count into map or queue. For `LogMatchesMemory`, `LogInv` adds
  that two calls never change one id, that an insert which has still to log has its own
  node in the map and a removal node in the map and a removal has its DELETE in the log. It is about the nodes: the
  counters do not come back as they were, as replay counts every record of an update in
  `total_ever` (`node_store.rs:96`). free counter is a sum
  of cardinalities (`CountInv`), each moved by one by each step of a call.
- *EdgeChains.* A chain is a sequence: `Path` says that a set of edges, in some order
  and each once, is what the links lead through from the head to the null edge. The set
  has to be right in the middle of the calls too, when an edge is already on one of its
  chains and not on the other: `On(d, n)` are the edges of node `n` that `LinkOne` has
  put on the chain and no `Search` has taken out. `ChainInv` says that every chain is
  the path of its `On`; `SearchInv` that a search stands on its chain and has not passed
  its edge; `CopyInv` that the copy which `unlink_from_chains` works from is up to date,
  because nobody else has borrowed the heads of that edge. Linking pushes to the front
  of a path, unlinking removes a member, and lemmas say what that does to paths. A walk
  has no borrow, so it may stand on an edge that is taken out under it. `Ahead` allows
  that: from where it is,
  links lead through edges of the node taken out earlier, back to the chain, at a point
  with all stable edges it has not found yet still to come. `Quiet` keeps
  `hard_delete` from removing the edge it stands on. For what the log replays to, the
  records of several edges change at different times from the entries. `StoreInv` says
  that the record of a linked edge agrees with its entry unless it is the predecessor of
  an unlink whose records are to come; `RankInv`, that the edges can be numbered so that
  all recorded links and the links of linked edges lead downwards, linked edges being
  below the others. A record that goes down in rank at each link cannot return to itself, and
  a pigeonhole argument gives the end within `Cardinality(Ids)` links.
- *Database.* `TypeInv` holds through crashes; it and `TicketsAreOwned` (a ticket belongs
  to one handle, and to none once its commit returned) go with every result.
  `FlushedSoFar` is what a commit in the middle of its three flushes has made durable.
  `SourcesAreKnown` says that the source of a buffered edge is in the store or earlier in
  the same transaction. After a restart the counter is behind the stamps and a crash may
  have kept an edge without its node (disagreements 14 and 15), hence `OneLifetime`.
  That a settled snapshot reads the same until it ends needs that inserted ids are in no
  store and in one buffer only (`InsertsAreFresh`), that deletes are of living versions,
  each once (`DeletesAreDue`), and that nobody relabels (`NoneRelabels`).
- *Snapshots.* `NameInv`: no readable manifest has an id above the manager's, so that
  the next id is free to be written; a snapshot is whole before the manifest moves to
  it; a `manifest.json` that was cut short names nothing. `MergedIsCovered`: what any surviving
  manifest lists as merged is retired and in its snapshot. `CountIsKept`: the writes of
  this manager that are in no snapshot are counted or still to be reported.
- *PropStore.* `RowsAreCounted` bounds the columns, and the rows of calls, by the
  counter. `SendsAreCurrent` says that what a call has still to send is in the column
  and nobody else's, unless two raced. `OrderInv` follows the list of an `insert_row`
  through the log, for every prefix of it. `GivenRowsAreCounted` says that the counter is
  above the rows handed out and above every row the replay has read a cell of, so that the
  next row handed out is neither. `Misread` is any function: nothing is assumed of what a long name is taken for, except
  that it is a record.
- *CjkAnalyzer.* The loop's invariant: tokens so far are terms (`Sound`), all terms that
  begin before the loop's place are among them (`Complete`), and a word or number that the
  place is in begins there (`Cut`). What a letter number belongs to depends on what stands
  before it: `NumberIs` and `WordIs` say how a number and a word go on from one character to
  the next, and `WordsAreNoNumbers` that no character is in both. `MovesOn` is the part of `Returns` that is not about
  fairness: a run that a character begins goes past it (`EndOfRunIs`), so every round comes
  nearer to the end of the text.

Replay is a recursive function, of the log's length in `NodeStore` and `PropStore` and of the
position in the file in `Frames`, not a `RECURSIVE` operator. The theorems use what it
gives for one more record, and, where a fact is needed of every prefix, induction in the
form of a least counterexample, which the provers can follow.

**Only model-checked.** Liveness: `TicketsRetire`, `AbandonedHandleIsReleased`,
`FlushReturns`, `WritesBecomeDurable`, `CloseReturns` and `Returns`. They rest on fairness,
which is beyond the proof system; what they need of the states besides is proved where it
is not by construction (`TicketsAreAccounted`: each number between the counters has a
holder; `NoFlushIsForgotten`; `RoundsMoveOn`). All other properties of the runs are theorems.

## 5. Not modelled

- Queries, the property index and the full-text index. The builder collects fields
  into a plan that nothing executes. `hybrid_search` combines the answers of indexes
  whose fields are private and that have no operation to fill them: every predicate
  evaluates to the empty set and every search returns nothing, whatever the program
  does, and the scores of its pre-filter branch are constants marked TODO. There is no
  reachable state to check a property in.
- The vector index (`insert` and `search` are `unimplemented!`), the shard router and
  the hash ring (likewise), the Raft node (a flag) and the Python SDK (stubs).
- The id allocator of `EdgeStore` repeats that of `NodeStore` statement for statement
  and is modelled there only.
- Getters and statistics (`get_row`, `row_count`, `size_bytes`, `stats`): they read
  and change nothing. `PropStore::new` is the store of `PropStore` without its log.
- A WAL file of another format or with bits changed: files are only cut short.
- The order of memory operations below sequential consistency. The two transaction
  counters are loaded with acquire and stored with release, `next_id` and `running`
  are sequentially consistent; the relaxed counters (`pending_bytes`, `free_count`,
  `total_ever`) are modelled access by access, each atomic, and nothing in the code
  is decided by them. The map, the queue and the channel are taken as linearizable.
- Overflow of the 64-bit transaction and id counters and of 32-bit rows, which no run
  reaches.

## 6. Where the code disagrees with what it says

Each item is a property quoted from a comment or a test, kept at the end of its
module, and the configuration with which TLC refutes it. They stand beside the runs of
`PROJECT.json`, which are the properties that hold. The three `...Claims.cfg` that
state several properties are run with `-continue`, so that TLC reports each of them.

1. `MCTxManagerConvoy.cfg`: `rollback`, which Drop calls, spins without a limit
   (`tx_manager.rs:115`), so a handle somebody keeps open blocks every later one
   that is given up. The header (lines 29-32) offers dropping and retrying as the
   way "to prevent indefinite waiting".
2. `MCWalShutdown.cfg`: `shutdown` clears `running` before it sends its command,
   so commands still in the channel are thrown away (`wal_thread.rs:188`); the
   comment says "drain + fsync + stop thread".
3. `MCWalImmediateClaim.cfg`: under Immediate a write returns before its fsync;
   `consistency.rs:68` says "Every write is fsynced before returning."
4. `MCWalAsyncClaim.cfg`: under Async the buffer's capacity is `usize::MAX * 2`
   (`wal_thread.rs:77`), and opening the store panics.
5. `MCWalReopened.cfg`: `flush_and_sync` returns at once on an empty buffer; records
   that were replayed after a process crash but never fsynced are not covered by a
   later flush (G2).
6. `MCWalFaultyClaim.cfg`: a failed write or fsync is printed and flush reports
   success (G2). The batch is not retried; only what the `BufWriter` had taken of it
   is written later.
7. `MCNodeStoreReopened.cfg`: replay pushes a deleted id to the free list and leaves
   it there when a later record re-uses it (`node_store.rs:96`); after a restart
   `alloc_id` hands out the id of a live node.
8. `MCNodeStoreRace.cfg`: map and channel are changed in two steps; two calls on one
   id leave records in the other order, and a restart brings back the older state.
9. `free_count` wraps below zero when an id is popped between its push and the count
   (`node_store.rs:144`); the test calls the counter "approximate". `FreeCountBalances`
   states what does hold, modulo its width.
10. `MCDatabaseIsolation.cfg`: `commit` advances `committed_tx_id` before it applies
    the writes (`transaction/mod.rs:147`): a reader that begins in between sees them
    appear, against "MVCC snapshot isolation".
11. `MCDatabaseClaims.cfg` (`SettledReadsRepeat`): `update_labels` overwrites `created_tx` in place
    (`node_store.rs:192`), and the node disappears from older snapshots.
12. `MCDatabaseClaims.cfg` (`FirstCommitterWins`): two concurrent updates of a node both commit, against
    "first-committer-wins" (`transaction/mod.rs:3`).
13. `MCDatabaseClaims.cfg` (`LabelsMoveForward`): as the turn is passed on before the writes are applied, an
    earlier transaction may overwrite a later one (`transaction/mod.rs:137`).
14. `MCDatabaseRecovery.cfg`: a crash between the flushes of two stores keeps part of
    a transaction, against "atomic across all stores" (`transaction/mod.rs:27`).
15. `MCDatabaseReopened.cfg`: `open` starts the transaction counter at 0 while the
    stores recover their stamps (`transaction/mod.rs:210`); recovered nodes are
    invisible until as many tickets have been used again (G3).
16. `MCLogFilesClaims.cfg` (`NeverRefused`): a crash in the middle of a record leaves a file that
    `replay_wal` refuses, and the store does not open any more; G4 says "A crash
    during append never produces a corrupt record" (`consistency.rs:28`).
17. `MCLogFilesClaims.cfg` (`FlushedIsRecovered`): if the tear is inside a length, replay takes it for the
    end and the store opens, but the records appended behind it, flushed or not, are
    read with wrong boundaries at the next opening (G2, `consistency.rs:19-20`).
18. `MCLogFilesClaims.cfg` (`ReplayedOnce`): `StoreLog::sync_now` writes the buffer and does not clear
    it, so the next batch writes the same records again (`store_log.rs:101`).
19. `MCSnapshotsClaims.cfg` (`RecoveryIsComplete`): without a snapshot `recover` replays no WAL at all, and a
    WAL file merged by name is skipped with everything appended to it since;
    "Recovery: load latest snapshot, replay WAL records since snapshot"
    (`snapshot/mod.rs:13`).
20. `MCSnapshotsClaims.cfg` (`ManifestIsReadable`): manifest.json is truncated and rewritten in place; after a
    crash in between `SnapshotManager::new` fails and no snapshot is found.
21. `MCPropStoreRecovery.cfg`: two writers of a cell may send their records in the other
    order, and a restart brings back the older value (G3). With `Threads <- MCOneThread`
    TLC finds the other reason: the length of a long name is cut to a byte
    (`prop_store.rs:129`), its record is taken for a cell of another name, since
    `deserialize` ignores what is left over, and a restart brings back that cell changed.
    The long name's own cell does not come back in any case.
22. `MCPropStoreDirect.cfg`: `Transaction::commit` writes to rows that `alloc_row` never
    handed out (`transaction/mod.rs:167`), and `alloc_row` then hands them out filled.
    Moreover the header says a mutation "serializes the full column"
    (`prop_store.rs:6`), while `wal_send_cell` logs one cell.
23. `MCCjkAnalyzerMixed.cfg`: a CJK character that follows a letter is swallowed by the
    word, as it is alphabetic too; the header promises single characters and bigrams
    for all of them (`analyzer.rs:4`).

## 7. What is left

Every part of the code with behaviour of its own is modelled, and every safety property
of a run is a theorem. When the code changes:

1. The query planner, the property index and the full-text index get modules once
   something fills the indexes; `CjkAnalyzer` is then what the full-text index is fed by.
2. A fix of a disagreement of section 6 turns its property into one that a run checks and
   a theorem states. Most of the inductive invariants are there: a replay that cuts a torn
   tail off leaves only disk errors to end `clean` in `LogFiles`, and a counter recovered
   from the stamps is what `StampsOfCommitted` needs `OneLifetime` for.
