------------------------------ MODULE NodeStore ------------------------------
(***************************************************************************)
(* src/storage/node_store.rs: the node map, the id allocator with its free *)
(* list, and the WAL records that recovery rebuilds them from.             *)
(*                                                                         *)
(* Several threads call the store.  A DashMap, SegQueue, atomic or channel *)
(* operation is one step; get_mut() holds the entry's lock until the       *)
(* update's record has been sent, so an update is one step; insert and     *)
(* hard_delete touch the map and the channel in separate steps.            *)
(*                                                                         *)
(* A node is a value `data', which stands for labels, props_row,           *)
(* first_out, first_in and created_tx, and its deleted_tx.  The WAL is     *)
(* DurableLog, which WalThread implements: records in channel order, of    *)
(* which a prefix is on disk.                                              *)
(***************************************************************************)
EXTENDS Integers, Sequences, FiniteSets

CONSTANTS
    Threads,      \* threads that share the store
    Deleters,     \* the threads that call hard_delete and compact
    Exclusive,    \* callers keep away from an id another call is changing
    Persistent,   \* opened with a path: there is a WAL
    Data,         \* values a node may hold
    Absent,       \* no node under this id
    MaxTx,        \* transaction ids are 1..MaxTx
    CountMod,     \* free_count counts modulo this: 2^64, scaled down
    MaxIds,       \* bound on the ids handed out
    MaxInserts,   \* bound on total_ever
    MaxLog,       \* bound on the records logged
    MaxCrashes    \* bound on the restarts

ASSUME DeletersAssumption == Deleters \subseteq Threads
ASSUME FlagsAssumption == Exclusive \in BOOLEAN /\ Persistent \in BOOLEAN
ASSUME BoundsAssumption ==
    /\ MaxTx \in Nat /\ MaxIds \in Nat /\ MaxLog \in Nat
    /\ MaxInserts \in Nat /\ MaxCrashes \in Nat
    /\ CountMod \in Nat \ {0}

Ids == 0 .. MaxIds - 1
MAX_TX_ID == MaxTx + 1
Node == [data : Data, deleted_tx : 1 .. MAX_TX_ID]

ASSUME AbsentAssumption == Absent \notin Node

VARIABLES
    nodes,       \* DashMap<NodeId, Node>
    next_id,     \* AtomicU64
    free_list,   \* SegQueue<NodeId>
    free_count,  \* AtomicU64
    total_ever,  \* AtomicU64
    log,         \* the WAL: what the channel accepted, in order
    synced,      \* length of its prefix that is on disk
    up,          \* the store is open
    pc,          \* where each thread is
    cur,         \* the id its call works on
    own,         \* the node its insert has built
    oldest,      \* compact's argument; 0 outside compact
    todo,        \* ids compact's iterator has not passed yet
    to_remove,   \* the list compact collects
    crashes      \* restarts so far

mem == <<nodes, next_id, free_list, free_count, total_ever>>
wal == <<log, synced>>
call == <<pc, cur, own, oldest, todo, to_remove>>
vars == <<mem, wal, up, call, crashes>>

INSERT == 1
DELETE == 2
Record == [op : {INSERT, DELETE}, id : Ids, node : Node \cup {Absent}]
Insert(id, n) == [op |-> INSERT, id |-> id, node |-> n]
Delete(id) == [op |-> DELETE, id |-> id, node |-> Absent]

Goto(t, l) == pc' = [pc EXCEPT ![t] = l]

\* The call, or compact's turn of its loop, is over: its locals go.
Leave(t, l) ==
    /\ Goto(t, l)
    /\ cur' = [cur EXCEPT ![t] = 0]
    /\ own' = [own EXCEPT ![t] = Absent]

-----------------------------------------------------------------------------
(* Recovery: open() starts empty and applies the records of the file.      *)

Empty == [nodes |-> [i \in Ids |-> Absent], max_id |-> 0,
          free_list |-> <<>>, total_ever |-> 0]

\* Mutant: a replay that does not keep track of the largest id.
ApplyNoMax(s, r) ==
    IF r.op = INSERT
    THEN [s EXCEPT !.nodes[r.id] = r.node, !.total_ever = @ + 1]
    ELSE IF s.nodes[r.id] # Absent
         THEN [s EXCEPT !.nodes[r.id] = Absent, !.free_list = Append(@, r.id)]
         ELSE s

Apply(s, r) ==
    IF r.op = INSERT
    THEN [nodes |-> [s.nodes EXCEPT ![r.id] = r.node],
          max_id |-> IF r.id > s.max_id THEN r.id ELSE s.max_id,
          free_list |-> s.free_list,
          total_ever |-> s.total_ever + 1]
    ELSE IF s.nodes[r.id] # Absent
         THEN [nodes |-> [s.nodes EXCEPT ![r.id] = Absent],
               max_id |-> s.max_id,
               free_list |-> Append(s.free_list, r.id),
               total_ever |-> s.total_ever]
         ELSE s

\* The store after the first n records, for every n.
Replayed(l) ==
    LET after[n \in 0 .. Len(l)] ==
            IF n = 0 THEN Empty ELSE Apply(after[n - 1], l[n])
    IN  after

replay_wal(l) == Replayed(l)[Len(l)]

\* A crash, or a close that drops what is still in the channel: memory is
\* gone and the file keeps the synced records and any number after them.
Crash ==
    /\ up /\ crashes < MaxCrashes
    /\ up' = FALSE
    /\ crashes' = crashes + 1
    /\ \E n \in synced .. Len(log) :
          /\ log' = SubSeq(log, 1, n)
          /\ synced' = n
    /\ pc' = [t \in Threads |-> "idle"]
    /\ cur' = [t \in Threads |-> 0]
    /\ own' = [t \in Threads |-> Absent]
    /\ oldest' = [t \in Threads |-> 0]
    /\ todo' = [t \in Threads |-> {}]
    /\ to_remove' = [t \in Threads |-> {}]
    /\ UNCHANGED mem

\* open(): next_id is stored only when there was a file to replay.
Open ==
    LET s == replay_wal(log)
    IN  /\ ~up
        /\ up' = TRUE
        /\ nodes' = s.nodes
        /\ next_id' = IF log = <<>> THEN 0 ELSE s.max_id + 1
        /\ free_list' = s.free_list
        /\ free_count' = Len(s.free_list) % CountMod
        /\ total_ever' = s.total_ever
        /\ UNCHANGED <<wal, call, crashes>>

-----------------------------------------------------------------------------
(* Logging                                                                 *)

\* wal_insert and wal_delete: without a WAL nothing happens.
Send(r) ==
    /\ Persistent => Len(log) < MaxLog
    /\ log' = IF Persistent THEN Append(log, r) ELSE log
    /\ UNCHANGED synced

\* The WAL thread syncs in the background, or because of flush().
flush ==
    /\ up /\ synced < Len(log)
    /\ synced' = Len(log)
    /\ UNCHANGED <<mem, log, up, call, crashes>>

-----------------------------------------------------------------------------
(* Which ids a call may name.                                              *)

\* The map or the log still has to hear of what t's call does to cur[t].
Changing(t) == pc[t] \in {"log", "remove"}

Clear(t, id) == Exclusive => \A u \in Threads \ {t} : ~(Changing(u) /\ cur[u] = id)

-----------------------------------------------------------------------------
(* alloc_id                                                                *)

AllocPop(t) ==
    /\ up /\ pc[t] = "idle"
    /\ \/ /\ free_list # <<>>
          /\ free_list' = Tail(free_list)
          /\ cur' = [cur EXCEPT ![t] = Head(free_list)]
          /\ Goto(t, "sub")
       \/ /\ free_list = <<>>
          /\ Goto(t, "fresh")
          /\ UNCHANGED <<free_list, cur>>
    /\ UNCHANGED <<nodes, next_id, free_count, total_ever, wal, up, own,
                   oldest, todo, to_remove, crashes>>

\* Mutant: a pop that is not counted.
AllocSubForgets(t) ==
    /\ up /\ pc[t] = "sub"
    /\ Goto(t, "reserved")
    /\ UNCHANGED <<mem, wal, up, cur, own, oldest, todo, to_remove, crashes>>

AllocSub(t) ==
    /\ up /\ pc[t] = "sub"
    /\ free_count' = (free_count - 1) % CountMod
    /\ Goto(t, "reserved")
    /\ UNCHANGED <<nodes, next_id, free_list, total_ever, wal, up, cur, own,
                   oldest, todo, to_remove, crashes>>

AllocFresh(t) ==
    /\ up /\ pc[t] = "fresh"
    /\ next_id < MaxIds
    /\ cur' = [cur EXCEPT ![t] = next_id]
    /\ next_id' = next_id + 1
    /\ Goto(t, "reserved")
    /\ UNCHANGED <<nodes, free_list, free_count, total_ever, wal, up, own,
                   oldest, todo, to_remove, crashes>>

\* alloc_id_direct for a transaction that is then rolled back.
Abandon(t) ==
    /\ up /\ pc[t] = "reserved"
    /\ Leave(t, "idle")
    /\ UNCHANGED <<mem, wal, up, oldest, todo, to_remove, crashes>>

-----------------------------------------------------------------------------
(* insert_node and insert_with_id, from where the id is known.             *)

InsertMem(t) ==
    /\ up /\ pc[t] = "reserved"
    /\ Clear(t, cur[t]) /\ total_ever < MaxInserts
    /\ \E d \in Data :
          LET n == [data |-> d, deleted_tx |-> MAX_TX_ID]
          IN  /\ nodes' = [nodes EXCEPT ![cur[t]] = n]
              /\ own' = [own EXCEPT ![t] = n]
    /\ total_ever' = total_ever + 1
    /\ Goto(t, "log")
    /\ UNCHANGED <<next_id, free_list, free_count, wal, up, cur, oldest, todo,
                   to_remove, crashes>>

InsertLog(t) ==
    /\ up /\ pc[t] = "log"
    /\ Send(Insert(cur[t], own[t]))
    /\ Leave(t, "idle")
    /\ UNCHANGED <<mem, up, oldest, todo, to_remove, crashes>>

-----------------------------------------------------------------------------
(* update_labels, update_props_row, set_first_out, set_first_in replace a  *)
(* field; soft_delete stamps deleted_tx.  All log the whole node.          *)

Replace(t, id, n) ==
    /\ up /\ pc[t] = "idle"
    /\ nodes[id] # Absent
    /\ Clear(t, id)
    /\ nodes' = [nodes EXCEPT ![id] = n]
    /\ Send(Insert(id, n))
    /\ UNCHANGED <<next_id, free_list, free_count, total_ever, up, call, crashes>>

\* Mutant: an update that forgets wal_insert.
UpdateUnlogged(t, id) ==
    /\ up /\ pc[t] = "idle"
    /\ nodes[id] # Absent
    /\ \E d \in Data : nodes' = [nodes EXCEPT ![id].data = d]
    /\ UNCHANGED <<next_id, free_list, free_count, total_ever, wal, up, call,
                   crashes>>

Update(t, id) == \E d \in Data : Replace(t, id, [nodes[id] EXCEPT !.data = d])

soft_delete(t, id) ==
    \E x \in 1 .. MaxTx : Replace(t, id, [nodes[id] EXCEPT !.deleted_tx = x])

-----------------------------------------------------------------------------
(* hard_delete: DELETE record, then remove, then push, then count.         *)

\* wal_delete(id)
Doom(t, id) ==
    /\ Clear(t, id)
    /\ Send(Delete(id))
    /\ cur' = [cur EXCEPT ![t] = id]
    /\ Goto(t, "remove")

hard_delete(t, id) ==
    /\ up /\ pc[t] = "idle" /\ t \in Deleters
    /\ Doom(t, id)
    /\ UNCHANGED <<mem, up, own, oldest, todo, to_remove, crashes>>

\* Where hard_delete returns to: its caller, or compact's loop.
Back(t) == IF oldest[t] = 0 THEN "idle" ELSE "sweep"

\* Mutant: freeing an id whether or not a node was removed.
RemoveAlwaysFrees(t) ==
    /\ up /\ pc[t] = "remove"
    /\ nodes' = [nodes EXCEPT ![cur[t]] = Absent]
    /\ Goto(t, "push")
    /\ UNCHANGED <<next_id, free_list, free_count, total_ever, wal, up, cur,
                   own, oldest, todo, to_remove, crashes>>

Remove(t) ==
    /\ up /\ pc[t] = "remove"
    /\ nodes' = [nodes EXCEPT ![cur[t]] = Absent]
    /\ \/ /\ nodes[cur[t]] # Absent
          /\ Goto(t, "push")
          /\ UNCHANGED <<cur, own>>
       \/ /\ nodes[cur[t]] = Absent
          /\ Leave(t, Back(t))
    /\ UNCHANGED <<next_id, free_list, free_count, total_ever, wal, up,
                   oldest, todo, to_remove, crashes>>

Push(t) ==
    /\ up /\ pc[t] = "push"
    /\ free_list' = Append(free_list, cur[t])
    /\ Goto(t, "count")
    /\ UNCHANGED <<nodes, next_id, free_count, total_ever, wal, up, cur, own,
                   oldest, todo, to_remove, crashes>>

CountFreed(t) ==
    /\ up /\ pc[t] = "count"
    /\ free_count' = (free_count + 1) % CountMod
    /\ Leave(t, Back(t))
    /\ UNCHANGED <<nodes, next_id, free_list, total_ever, wal, up, oldest,
                   todo, to_remove, crashes>>

-----------------------------------------------------------------------------
(* compact(oldest_active_tx): collect, entry by entry, then hard_delete    *)
(* each.  The iterator locks a shard at a time, so that the map changes    *)
(* under it and the list may be old when it is used.                       *)

Compact(t) ==
    /\ up /\ pc[t] = "idle" /\ t \in Deleters
    /\ \E x \in 1 .. MAX_TX_ID : oldest' = [oldest EXCEPT ![t] = x]
    /\ todo' = [todo EXCEPT ![t] = Ids]
    /\ Goto(t, "scan")
    /\ UNCHANGED <<mem, wal, up, cur, own, to_remove, crashes>>

\* Mutant: a filter that lets MAX_TX_ID through.
DeadOrLive(t, id) == nodes[id] # Absent /\ nodes[id].deleted_tx <= oldest[t]

Dead(t, id) == nodes[id] # Absent /\ nodes[id].deleted_tx < oldest[t]

CompactScan(t) ==
    /\ up /\ pc[t] = "scan"
    /\ \E id \in todo[t] :
          /\ todo' = [todo EXCEPT ![t] = @ \ {id}]
          /\ to_remove' = [to_remove EXCEPT ![t] =
                              IF Dead(t, id) THEN @ \cup {id} ELSE @]
    /\ UNCHANGED <<mem, wal, up, pc, cur, own, oldest, crashes>>

CompactCollected(t) ==
    /\ up /\ pc[t] = "scan" /\ todo[t] = {}
    /\ Goto(t, "sweep")
    /\ UNCHANGED <<mem, wal, up, cur, own, oldest, todo, to_remove, crashes>>

CompactNext(t) ==
    /\ up /\ pc[t] = "sweep"
    /\ \E id \in to_remove[t] :
          /\ Doom(t, id)
          /\ to_remove' = [to_remove EXCEPT ![t] = @ \ {id}]
    /\ UNCHANGED <<mem, up, own, oldest, todo, crashes>>

CompactDone(t) ==
    /\ up /\ pc[t] = "sweep" /\ to_remove[t] = {}
    /\ oldest' = [oldest EXCEPT ![t] = 0]
    /\ Goto(t, "idle")
    /\ UNCHANGED <<mem, wal, up, cur, own, todo, to_remove, crashes>>

-----------------------------------------------------------------------------
Init ==
    /\ nodes = [i \in Ids |-> Absent]
    /\ next_id = 0
    /\ free_list = <<>>
    /\ free_count = 0
    /\ total_ever = 0
    /\ log = <<>>
    /\ synced = 0
    /\ up = TRUE
    /\ pc = [t \in Threads |-> "idle"]
    /\ cur = [t \in Threads |-> 0]
    /\ own = [t \in Threads |-> Absent]
    /\ oldest = [t \in Threads |-> 0]
    /\ todo = [t \in Threads |-> {}]
    /\ to_remove = [t \in Threads |-> {}]
    /\ crashes = 0

Step(t) ==
    \/ AllocPop(t) \/ AllocSub(t) \/ AllocFresh(t) \/ Abandon(t)
    \/ InsertMem(t) \/ InsertLog(t)
    \/ \E id \in Ids : Update(t, id) \/ soft_delete(t, id) \/ hard_delete(t, id)
    \/ Remove(t) \/ Push(t) \/ CountFreed(t)
    \/ Compact(t) \/ CompactScan(t) \/ CompactCollected(t)
    \/ CompactNext(t) \/ CompactDone(t)

Next ==
    \/ \E t \in Threads : Step(t)
    \/ flush \/ Crash \/ Open

Spec == Init /\ [][Next]_vars

-----------------------------------------------------------------------------
Labels == {"idle", "sub", "fresh", "reserved", "log", "remove", "push", "count",
           "scan", "sweep"}

\* Where a call has an id in cur.
Naming == {"sub", "reserved", "log", "remove", "push", "count"}

MemTypeOK ==
    /\ nodes \in [Ids -> Node \cup {Absent}]
    /\ next_id \in 0 .. MaxIds
    /\ free_list \in Seq(Ids)
    /\ free_count \in 0 .. CountMod - 1
    /\ total_ever \in Nat

WalTypeOK == log \in Seq(Record) /\ synced \in 0 .. Len(log)

CallTypeOK ==
    /\ pc \in [Threads -> Labels]
    /\ cur \in [Threads -> Nat]
    /\ \A t \in Threads : pc[t] \in Naming => cur[t] \in Ids
    /\ own \in [Threads -> Node \cup {Absent}]
    /\ oldest \in [Threads -> 0 .. MAX_TX_ID]
    /\ todo \in [Threads -> SUBSET Ids]
    /\ to_remove \in [Threads -> SUBSET Ids]

\* The types; free_count never leaves its width, although it can wrap.
TypeOK ==
    /\ MemTypeOK
    /\ WalTypeOK
    /\ CallTypeOK
    /\ up \in BOOLEAN
    /\ crashes \in 0 .. MaxCrashes

\* The thread holds an id that is in neither the map nor the free list.
Holds(t) == pc[t] \in {"sub", "reserved", "push"}

(***************************************************************************)
(* An id is in one place: in the map, once in the free list, or with the   *)
(* one call that is moving it from the one to the other.  This is what     *)
(* keeps alloc_id from handing out the id of a live node.                  *)
(***************************************************************************)
IdOwnership ==
    /\ \A i, j \in DOMAIN free_list : free_list[i] = free_list[j] => i = j
    /\ \A i \in DOMAIN free_list : nodes[free_list[i]] = Absent
    /\ \A t \in Threads : Holds(t) =>
          /\ nodes[cur[t]] = Absent
          /\ \A i \in DOMAIN free_list : free_list[i] # cur[t]
          /\ \A u \in Threads \ {t} : Holds(u) => cur[u] # cur[t]

(***************************************************************************)
(* No id at or above next_id is in use, also after open() has computed     *)
(* next_id from the records that survived: a fresh id never collides.      *)
(***************************************************************************)
FreshIsUnused ==
    up => /\ \A id \in Ids : nodes[id] # Absent => id < next_id
          /\ \A i \in DOMAIN free_list : free_list[i] < next_id
          /\ \A t \in Threads : Holds(t) => cur[t] < next_id

(***************************************************************************)
(* free_count is the length of the free list, give or take the calls that  *)
(* are between the queue and the counter, modulo its width: pushes that    *)
(* are not counted yet make it wrap below zero for a while.                *)
(***************************************************************************)
FreeCountBalances ==
    up => free_count =
            (Len(free_list) + Cardinality({t \in Threads : pc[t] = "sub"})
                            - Cardinality({t \in Threads : pc[t] = "count"}))
            % CountMod

(***************************************************************************)
(* Replaying the WAL gives the map: whenever no call is part-way through   *)
(* an id, the records say of that id what the map says.                    *)
(***************************************************************************)
LogMatchesMemory ==
    up /\ Persistent =>
        LET s == replay_wal(log)
        IN  \A id \in Ids :
               (\A t \in Threads : ~(Changing(t) /\ cur[t] = id))
                   => s.nodes[id] = nodes[id]

(***************************************************************************)
(* What compact is about to hard_delete is a deleted node: an id on its    *)
(* list is still that of the dead node it saw, and has not been freed and  *)
(* given to a new one meanwhile.                                           *)
(***************************************************************************)
Doomed(t) == to_remove[t] \cup
             (IF pc[t] = "remove" /\ oldest[t] # 0 THEN {cur[t]} ELSE {})

SweepIsDead ==
    \A t \in Threads : \A id \in Doomed(t) :
        nodes[id] # Absent /\ nodes[id].deleted_tx # MAX_TX_ID

=============================================================================
