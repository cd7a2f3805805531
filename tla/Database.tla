------------------------------ MODULE Database ------------------------------
(***************************************************************************)
(* src/transaction/mod.rs: transactions over the node, edge and property   *)
(* stores.                                                                 *)
(*                                                                         *)
(* A handle buffers its writes; commit() waits for its ticket, retires it, *)
(* applies the buffer store by store and flushes the three WALs.  Tickets  *)
(* follow TicketOrder, which TxManager implements; a store's WAL follows   *)
(* DurableLog, which WalThread implements.  A write to a store changes the *)
(* map and appends a record in one step here; NodeStore has the detail.    *)
(*                                                                         *)
(* The data of a node or a property cell is the transaction that wrote it; *)
(* that of an edge is its source node.                                     *)
(***************************************************************************)
EXTENDS Integers, Sequences, FiniteSets

CONSTANTS
    Clients,      \* threads, each with at most one handle
    Calls,        \* the buffering calls the clients make
    Polite,       \* nobody deletes what is deleted or about to be
    Absent,       \* nothing under this key
    Cells,        \* property cells (label, name, row)
    MaxKeys,      \* bound on the ids of nodes, and of edges
    MaxTx,        \* bound on the tickets of a lifetime
    MaxOps,       \* bound on the writes of a transaction
    MaxCrashes    \* bound on the restarts

\* The six vectors of a Transaction, in the order commit() applies them.
Phases == <<"node_inserts", "node_updates", "node_deletes",
            "edge_inserts", "edge_deletes", "prop_writes">>
Vectors == {Phases[i] : i \in DOMAIN Phases}

ASSUME CallsAssumption == Calls \subseteq Vectors
ASSUME PoliteAssumption == Polite \in BOOLEAN
ASSUME BoundsAssumption ==
    /\ MaxKeys \in Nat /\ MaxTx \in Nat /\ MaxOps \in Nat /\ MaxCrashes \in Nat

Ids == 0 .. MaxKeys - 1
Stores == {"nodes", "edges", "props"}
Keys(s) == IF s = "props" THEN Cells ELSE Ids
MAX_TX_ID == MaxTx + 1

Version == [created_tx : 0 .. MaxTx, deleted_tx : 1 .. MAX_TX_ID, data : Nat]

ASSUME AbsentAssumption == Absent \notin Version

VARIABLES
    next_tx_id, committed_tx_id,   \* TxManager
    tickets,     \* tickets issued and not retired
    store,       \* what each store's map holds
    next_id,     \* id allocators of nodes and edges
    log, synced, \* each store's WAL, and how much of it is on disk
    up,          \* the database is open
    pc,          \* where each client is
    tx_id,       \* its ticket; 0 for a read-only handle
    snapshot,    \* its snapshot
    buf,         \* its six vectors
    \* what follows is history, not program state
    done,        \* the committed transactions of this lifetime
    applied,     \* the records of this lifetime: who wrote which
    acked,       \* transactions whose commit() returned
    crashes      \* restarts so far

tm == <<next_tx_id, committed_tx_id, tickets>>
stores == <<store, log>>
handle == <<tx_id, snapshot>>
history == <<done, applied, acked>>
vars == <<tm, stores, next_id, synced, up, pc, handle, buf, history, crashes>>

Tickets == INSTANCE TicketOrder
           WITH next <- next_tx_id, frontier <- committed_tx_id, open <- tickets

NoWrites == [v \in Vectors |-> <<>>]

StoreOf(v) == CASE v \in {"node_inserts", "node_updates", "node_deletes"} -> "nodes"
                [] v \in {"edge_inserts", "edge_deletes"} -> "edges"
                [] v = "prop_writes" -> "props"

-----------------------------------------------------------------------------
(* Database::begin_read, begin_write                                       *)

begin_read(c) ==
    /\ up /\ pc[c] = "idle"
    /\ pc' = [pc EXCEPT ![c] = "reading"]
    /\ snapshot' = [snapshot EXCEPT ![c] = committed_tx_id]
    /\ UNCHANGED <<tm, stores, next_id, synced, up, tx_id, buf, history, crashes>>

\* A read-only handle is dropped, or its commit() returns Ok at once.
EndRead(c) ==
    /\ up /\ pc[c] = "reading"
    /\ pc' = [pc EXCEPT ![c] = "idle"]
    /\ snapshot' = [snapshot EXCEPT ![c] = 0]
    /\ UNCHANGED <<tm, stores, next_id, synced, up, tx_id, buf, history, crashes>>

begin_write(c) ==
    /\ up /\ pc[c] = "idle"
    /\ next_tx_id <= MaxTx
    /\ Tickets!Issue
    /\ tx_id' = [tx_id EXCEPT ![c] = next_tx_id]
    /\ pc' = [pc EXCEPT ![c] = "ticketed"]
    /\ UNCHANGED <<stores, next_id, synced, up, snapshot, buf, history, crashes>>

latest_committed(c) ==
    /\ up /\ pc[c] = "ticketed"
    /\ snapshot' = [snapshot EXCEPT ![c] = committed_tx_id]
    /\ pc' = [pc EXCEPT ![c] = "open"]
    /\ UNCHANGED <<tm, stores, next_id, synced, up, tx_id, buf, history, crashes>>

-----------------------------------------------------------------------------
(* Buffered writes                                                         *)

Buffered(c) == {w \in Vectors \X (1 .. MaxOps) : w[2] \in DOMAIN buf[c][w[1]]}

Buffer(c, v, op) ==
    /\ up /\ pc[c] = "open" /\ v \in Calls
    /\ Cardinality(Buffered(c)) < MaxOps
    /\ buf' = [buf EXCEPT ![c][v] = Append(@, op)]
    /\ UNCHANGED <<tm, stores, synced, up, pc, handle, history, crashes>>

\* alloc_id_direct, then the push.
create_node(c) ==
    /\ next_id["nodes"] < MaxKeys
    /\ Buffer(c, "node_inserts", [key |-> next_id["nodes"], data |-> tx_id[c]])
    /\ next_id' = [next_id EXCEPT !["nodes"] = @ + 1]

\* The source is a node the client knows: one it created or one in the store.
KnownNodes(c) ==
    {i \in Ids : store["nodes"][i] # Absent} \cup
    {buf[c]["node_inserts"][i].key : i \in DOMAIN buf[c]["node_inserts"]}

create_edge(c) ==
    /\ next_id["edges"] < MaxKeys
    /\ \E src \in KnownNodes(c) :
          Buffer(c, "edge_inserts", [key |-> next_id["edges"], data |-> src])
    /\ next_id' = [next_id EXCEPT !["edges"] = @ + 1]

update_node_labels(c, k) ==
    /\ Buffer(c, "node_updates", [key |-> k, data |-> tx_id[c]])
    /\ UNCHANGED next_id

Spared(v, k) ==
    LET s == StoreOf(v)
    IN  /\ store[s][k] # Absent => store[s][k].deleted_tx = MAX_TX_ID
        /\ \A c \in Clients : \A i \in DOMAIN buf[c][v] : buf[c][v][i].key # k

\* delete_node and delete_edge
delete(c, v, k) ==
    /\ Polite => Spared(v, k)
    /\ Buffer(c, v, [key |-> k, data |-> 0])
    /\ UNCHANGED next_id

set_prop(c, k) ==
    /\ Buffer(c, "prop_writes", [key |-> k, data |-> tx_id[c]])
    /\ UNCHANGED next_id

-----------------------------------------------------------------------------
(* commit                                                                  *)

\* Mutant: applying the buffer before the ticket's turn.
commitEarly(c) ==
    /\ up /\ pc[c] = "open"
    /\ pc' = [pc EXCEPT ![c] = "apply"]
    /\ UNCHANGED <<tm, stores, next_id, synced, up, handle, buf, history, crashes>>

\* Phase 1.  A commit() that times out returns Err and changes nothing.
commit(c) ==
    /\ up /\ pc[c] = "open"
    /\ tx_id[c] = committed_tx_id + 1
    /\ Tickets!Retire
    /\ pc' = [pc EXCEPT ![c] = "apply"]
    /\ done' = done \cup {[tx |-> tx_id[c], snapshot |-> snapshot[c]]}
    /\ UNCHANGED <<stores, next_id, synced, up, handle, buf, applied, acked, crashes>>

\* insert_with_id of either store
Inserted(x, d) == [created_tx |-> x, deleted_tx |-> MAX_TX_ID, data |-> d]

\* update_labels: in place, the creation stamp included
Relabelled(old, x, d) == [created_tx |-> x, deleted_tx |-> old.deleted_tx, data |-> d]

\* Mutant: a delete that takes effect one transaction too early.
DeletedEarly(old, x) == [old EXCEPT !.deleted_tx = x - 1]

\* soft_delete of either store
Deleted(old, x) == [old EXCEPT !.deleted_tx = x]

\* insert_prop: a cell has no stamps, everyone sees it at once
Cell(d) == [created_tx |-> 0, deleted_tx |-> MAX_TX_ID, data |-> d]

\* What the store holds under the key after a write of vector v; Absent when
\* an update or a delete finds nothing there and does nothing.
Written(v, old, op, x) ==
    CASE v \in {"node_inserts", "edge_inserts"} -> Inserted(x, op.data)
      [] v = "prop_writes" -> Cell(op.data)
      [] v = "node_updates" /\ old # Absent -> Relabelled(old, x, op.data)
      [] v \in {"node_deletes", "edge_deletes"} /\ old # Absent -> Deleted(old, x)
      [] OTHER -> Absent

\* Mutant: applying the edges before the nodes.
FirstPhaseBackwards(c, v) ==
    \E i \in DOMAIN Phases :
        /\ Phases[i] = v /\ buf[c][v] # <<>>
        /\ \A j \in DOMAIN Phases : j > i => buf[c][Phases[j]] = <<>>

\* The first of the vectors with something left to apply.
FirstPhase(c, v) ==
    \E i \in DOMAIN Phases :
        /\ Phases[i] = v /\ buf[c][v] # <<>>
        /\ \A j \in 1 .. i - 1 : buf[c][Phases[j]] = <<>>

\* Phase 2, one write.
Apply(c) ==
    /\ up /\ pc[c] = "apply"
    /\ \E v \in Vectors :
          LET op == Head(buf[c][v])
              s == StoreOf(v)
              new == Written(v, store[s][op.key], op, tx_id[c])
          IN  /\ FirstPhase(c, v)
              /\ buf' = [buf EXCEPT ![c][v] = Tail(@)]
              /\ IF new = Absent
                 THEN UNCHANGED <<stores, applied>>
                 ELSE /\ store' = [store EXCEPT ![s][op.key] = new]
                      /\ log' = [log EXCEPT ![s] = Append(@, [key |-> op.key, ver |-> new])]
                      /\ applied' = applied \cup
                            {[tx |-> tx_id[c], by |-> v, store |-> s, key |-> op.key,
                              pos |-> Len(log[s]) + 1]}
    /\ UNCHANGED <<tm, next_id, synced, up, pc, handle, done, acked, crashes>>

Applied(c) ==
    /\ up /\ pc[c] = "apply" /\ buf[c] = NoWrites
    /\ pc' = [pc EXCEPT ![c] = "nodes"]
    /\ UNCHANGED <<tm, stores, next_id, synced, up, handle, buf, history, crashes>>

\* The handle is gone.
Close(c) ==
    /\ pc' = [pc EXCEPT ![c] = "idle"]
    /\ tx_id' = [tx_id EXCEPT ![c] = 0]
    /\ snapshot' = [snapshot EXCEPT ![c] = 0]

\* Mutant: a commit() that leaves out edges.flush().
flushSkipsEdges(c) ==
    /\ up /\ pc[c] \in Stores
    /\ synced' = [synced EXCEPT ![pc[c]] = Len(log[pc[c]])]
    /\ \/ /\ pc[c] = "props"
          /\ Close(c)
          /\ acked' = acked \cup {tx_id[c]}
       \/ /\ pc[c] # "props"
          /\ pc' = [pc EXCEPT ![c] = "props"]
          /\ UNCHANGED <<handle, acked>>
    /\ UNCHANGED <<tm, stores, next_id, up, buf, done, applied, crashes>>

\* Phase 3: pc names the store to flush.  commit() returns after the last.
flush(c) ==
    /\ up /\ pc[c] \in Stores
    /\ synced' = [synced EXCEPT ![pc[c]] = Len(log[pc[c]])]
    /\ \/ /\ pc[c] = "props"
          /\ Close(c)
          /\ acked' = acked \cup {tx_id[c]}
       \/ /\ pc[c] # "props"
          /\ pc' = [pc EXCEPT ![c] = IF @ = "nodes" THEN "edges" ELSE "props"]
          /\ UNCHANGED <<handle, acked>>
    /\ UNCHANGED <<tm, stores, next_id, up, buf, done, applied, crashes>>

\* rollback(), or Drop of a handle that was not committed.
rollback(c) ==
    /\ up /\ pc[c] = "open"
    /\ tx_id[c] = committed_tx_id + 1
    /\ Tickets!Retire
    /\ Close(c)
    /\ buf' = [buf EXCEPT ![c] = NoWrites]
    /\ UNCHANGED <<stores, next_id, synced, up, history, crashes>>

-----------------------------------------------------------------------------
(* The end of the process, and Database::open                              *)

\* Each WAL keeps its synced records and any number after them.
Crash ==
    /\ up /\ crashes < MaxCrashes
    /\ up' = FALSE
    /\ crashes' = crashes + 1
    /\ \E n \in [Stores -> 0 .. MaxTx * MaxOps] :
          /\ \A s \in Stores : synced[s] <= n[s] /\ n[s] <= Len(log[s])
          /\ log' = [s \in Stores |-> SubSeq(log[s], 1, n[s])]
          /\ synced' = n
    /\ pc' = [c \in Clients |-> "idle"]
    /\ tx_id' = [c \in Clients |-> 0]
    /\ snapshot' = [c \in Clients |-> 0]
    /\ buf' = [c \in Clients |-> NoWrites]
    /\ UNCHANGED <<tm, store, next_id, history>>

\* The last record of a key wins.
replay_wal(s) ==
    [k \in Keys(s) |->
        LET of == {i \in DOMAIN log[s] : log[s][i].key = k}
        IN  IF of = {} THEN Absent
            ELSE log[s][CHOOSE i \in of : \A j \in of : j <= i].ver]

\* TxManager::new() starts from nothing; the stores replay their WALs.
Open ==
    /\ ~up
    /\ up' = TRUE
    /\ next_tx_id' = 1 /\ committed_tx_id' = 0 /\ tickets' = {}
    /\ store' = [s \in Stores |-> replay_wal(s)]
    /\ next_id' = [s \in DOMAIN next_id |->
          IF log[s] = <<>> THEN 0
          ELSE CHOOSE n \in 1 .. MaxKeys :
                  /\ \A i \in DOMAIN log[s] : log[s][i].key < n
                  /\ \E i \in DOMAIN log[s] : log[s][i].key = n - 1]
    /\ done' = {} /\ applied' = {} /\ acked' = {}
    /\ UNCHANGED <<log, synced, pc, handle, buf, crashes>>

-----------------------------------------------------------------------------
Init ==
    /\ Tickets!Init
    /\ store = [s \in Stores |-> [k \in Keys(s) |-> Absent]]
    /\ next_id = [s \in {"nodes", "edges"} |-> 0]
    /\ log = [s \in Stores |-> <<>>]
    /\ synced = [s \in Stores |-> 0]
    /\ up = TRUE
    /\ pc = [c \in Clients |-> "idle"]
    /\ tx_id = [c \in Clients |-> 0]
    /\ snapshot = [c \in Clients |-> 0]
    /\ buf = [c \in Clients |-> NoWrites]
    /\ done = {} /\ applied = {} /\ acked = {}
    /\ crashes = 0

Step(c) ==
    \/ begin_read(c) \/ EndRead(c) \/ begin_write(c) \/ latest_committed(c)
    \/ create_node(c) \/ create_edge(c)
    \/ \E k \in Ids : \/ update_node_labels(c, k)
                      \/ delete(c, "node_deletes", k)
                      \/ delete(c, "edge_deletes", k)
    \/ \E k \in Cells : set_prop(c, k)
    \/ commit(c) \/ Apply(c) \/ Applied(c) \/ flush(c) \/ rollback(c)

Next ==
    \/ \E c \in Clients : Step(c)
    \/ Crash \/ Open

Spec == Init /\ [][Next]_vars

-----------------------------------------------------------------------------
States == {"idle", "reading", "ticketed", "open", "apply"} \cup Stores

\* Types; a handle has a ticket exactly while it is a write transaction.
TypeOK ==
    /\ next_tx_id \in 1 .. MaxTx + 1 /\ committed_tx_id \in 0 .. MaxTx
    /\ \A s \in Stores : store[s] \in [Keys(s) -> Version \cup {Absent}]
    /\ next_id \in [{"nodes", "edges"} -> 0 .. MaxKeys]
    /\ \A s \in Stores : synced[s] \in 0 .. Len(log[s])
    /\ up \in BOOLEAN /\ crashes \in 0 .. MaxCrashes
    /\ pc \in [Clients -> States]
    /\ \A c \in Clients : tx_id[c] # 0 <=> pc[c] \notin {"idle", "reading"}
    /\ snapshot \in [Clients -> 0 .. MaxTx]

(***************************************************************************)
(* No store holds a stamp of a transaction that has not committed: a       *)
(* snapshot, being a value committed_tx_id has had, separates what it may  *)
(* see from what it may not.                                               *)
(***************************************************************************)
StampsAreCommitted ==
    up => \A s \in Stores : \A k \in Keys(s) : store[s][k] # Absent =>
             LET v == store[s][k]
             IN  /\ v.created_tx <= committed_tx_id
                 /\ v.deleted_tx = MAX_TX_ID \/ v.deleted_tx <= committed_tx_id

(***************************************************************************)
(* When commit() has returned, every record of the transaction is on the   *)
(* disk of its store, so that it survives any crash.                       *)
(***************************************************************************)
CommitIsDurable ==
    \A w \in applied : w.tx \in acked => w.pos <= synced[w.store]

(***************************************************************************)
(* An edge in memory has its source node in memory: commit() applies the   *)
(* nodes before the edges.  (And the types are right.)                     *)
(***************************************************************************)
EdgesHaveNodes ==
    /\ TypeOK
    /\ up => \A k \in Ids : store["edges"][k] # Absent =>
                store["nodes"][store["edges"][k].data] # Absent

-----------------------------------------------------------------------------
(* Reads                                                                   *)

is_alive(v, x) == v.created_tx <= x /\ v.deleted_tx > x

\* get_node and get_edge of a handle
get(c, s, k) ==
    IF store[s][k] # Absent /\ is_alive(store[s][k], snapshot[c])
    THEN {store[s][k].data} ELSE {}

InTransaction(c) == pc[c] \in {"reading", "open"}
Reads(c) == [s \in {"nodes", "edges"} |-> [k \in Ids |-> get(c, s, k)]]

\* No transaction of the snapshot is still applying its writes.
Settled(c) ==
    \A d \in Clients : pc[d] = "apply" => tx_id[d] > snapshot[c]

(***************************************************************************)
(* A handle whose snapshot is settled reads the same nodes and edges until *)
(* it ends, whatever commits meanwhile.                                    *)
(***************************************************************************)
SettledReadsRepeat ==
    [][\A c \in Clients :
          InTransaction(c) /\ InTransaction(c)' /\ Settled(c) => Reads(c)' = Reads(c)]_vars

\* "MVCC snapshot isolation", transaction/mod.rs:1: the same for any handle.
ReadsRepeat ==
    [][\A c \in Clients :
          InTransaction(c) /\ InTransaction(c)' => Reads(c)' = Reads(c)]_vars

\* "first-committer-wins", transaction/mod.rs:3: of two transactions that
\* replaced the same node's labels, the later one had seen the earlier one.
FirstCommitterWins ==
    \A m, n \in {w \in applied : w.by = "node_updates"} :
        m.key = n.key /\ m.tx < n.tx
            => \E d \in done : d.tx = n.tx /\ d.snapshot >= m.tx

\* "The ticket-lock ensures in-order visibility", transaction/mod.rs:137: a
\* node's labels are never replaced by those of an earlier transaction.
LabelsMoveForward ==
    [][up /\ up' => \A k \in Ids :
          store["nodes"][k] # Absent /\ store'["nodes"][k] # Absent
              => store'["nodes"][k].data >= store["nodes"][k].data]_vars

\* "tx.commit().unwrap(); // atomic across all stores", transaction/mod.rs:27:
\* a crash leaves all of a transaction's records or none.
RecoveryIsAtomic ==
    ~up => \A d \in done :
              LET mine == {w \in applied : w.tx = d.tx}
              IN  \/ \A w \in mine : w.pos <= Len(log[w.store])
                  \/ \A w \in mine : w.pos > Len(log[w.store])

=============================================================================
