--------------------------- MODULE NodeStoreProofs ---------------------------
(***************************************************************************)
(* NodeStore, for any number of threads, ids and records, with or without  *)
(* a WAL: first from one open() to the crash or close that ends it, then   *)
(* through crashes and recoveries.                                         *)
(***************************************************************************)
EXTENDS NodeStore, SequenceTheorems, FiniteSetTheorems, WellFoundedInduction, TLAPS

\* The lifetime of one NodeStore value.
OneLifetime == MaxCrashes = 0

\* hard_delete and compact are left to one thread.
OneDeleter == \A t, u \in Deleters : t = u

\* No crash: the store stays open.
StaysUp == up /\ crashes = 0

\* The inductive invariant: who holds an id, and that ids below next_id are
\* the only ones around.
Inv == TypeOK /\ StaysUp /\ IdOwnership /\ FreshIsUnused

-----------------------------------------------------------------------------

\* The types hold at the start.
LEMMA InitType == Init => TypeOK
  BY BoundsAssumption
  DEF Init, TypeOK, MemTypeOK, WalTypeOK, CallTypeOK, Ids, Labels, Naming, MAX_TX_ID

\* A counter modulo CountMod stays in its range.
LEMMA ModRange == \A n \in Int : n % CountMod \in 0 .. CountMod - 1
  BY BoundsAssumption

\* Sending a record keeps the log a sequence of records.
LEMMA SendType ==
  ASSUME NEW r \in Record, Send(r), WalTypeOK PROVE WalTypeOK'
  <1>1. Len(log) \in Nat /\ Len(Append(log, r)) = Len(log) + 1
    BY DEF WalTypeOK
  <1> QED
    BY <1>1 DEF WalTypeOK, Send

\* The two kinds of record.
LEMMA RecordTypes ==
  /\ \A id \in Ids, n \in Node \cup {Absent} : Insert(id, n) \in Record
  /\ \A id \in Ids : Delete(id) \in Record
  BY DEF Insert, Delete, Record, INSERT, DELETE

\* The end of a call, whatever state it returns to.
LEMMA LeaveType ==
  ASSUME CallTypeOK, NEW t \in Threads, NEW l \in {"idle", "sweep"}, Leave(t, l),
         UNCHANGED <<todo, to_remove>>, oldest' \in [Threads -> 0 .. MAX_TX_ID]
  PROVE  CallTypeOK'
  BY DEF CallTypeOK, Leave, Goto, Labels, Naming

\* hard_delete returns to its caller or to compact's loop.
LEMMA BackType == \A t \in Threads : Back(t) \in {"idle", "sweep"}
  BY DEF Back

\* An update replaces a node by a node.
LEMMA ReplaceType ==
  ASSUME TypeOK, NEW t \in Threads, NEW id \in Ids, NEW n \in Node, Replace(t, id, n)
  PROVE  TypeOK'
  <1>1. MemTypeOK'
    BY DEF TypeOK, MemTypeOK, Replace
  <1>2. WalTypeOK'
    BY SendType, RecordTypes DEF TypeOK, Replace
  <1>3. CallTypeOK'
    BY DEF TypeOK, CallTypeOK, Replace, call
  <1> QED
    BY <1>1, <1>2, <1>3 DEF TypeOK, Replace

\* A step of one call keeps the types.
LEMMA StepType == ASSUME TypeOK, NEW t \in Threads, Step(t) PROVE TypeOK'
  <1>0. /\ MemTypeOK /\ WalTypeOK /\ CallTypeOK
        /\ MaxIds \in Nat /\ MaxTx \in Nat /\ MAX_TX_ID \in Nat
    BY BoundsAssumption DEF TypeOK, MAX_TX_ID
  <1>1. CASE AllocPop(t)
    <2>1. MemTypeOK'
      <3>1. CASE free_list # <<>>
        BY <1>0, <1>1, <3>1, SMTT(30) DEF AllocPop, MemTypeOK
      <3>2. CASE free_list = <<>>
        BY <1>0, <1>1, <3>2 DEF AllocPop, MemTypeOK
      <3> QED BY <3>1, <3>2
    <2>2. WalTypeOK'
      BY <1>0, <1>1 DEF AllocPop, WalTypeOK, wal
    <2>3. CallTypeOK'
      <3>1. CASE free_list # <<>>
        <4>1. Head(free_list) \in Ids /\ Head(free_list) \in Nat
          BY <1>0, <3>1 DEF MemTypeOK, Ids
        <4> QED
          BY <1>0, <1>1, <3>1, <4>1 DEF AllocPop, CallTypeOK, Goto, Labels, Naming
      <3>2. CASE free_list = <<>>
        BY <1>0, <1>1, <3>2 DEF AllocPop, CallTypeOK, Goto, Labels, Naming
      <3> QED BY <3>1, <3>2
    <2> QED
      BY <1>1, <2>1, <2>2, <2>3 DEF AllocPop, TypeOK
  <1>2. CASE AllocSub(t)
    <2>1. MemTypeOK'
      <3>1. free_count - 1 \in Int
        BY <1>0, BoundsAssumption DEF MemTypeOK
      <3> QED
        BY <1>0, <1>2, <3>1, ModRange DEF AllocSub, MemTypeOK
    <2>2. WalTypeOK'
      BY <1>0, <1>2 DEF AllocSub, WalTypeOK, wal
    <2>3. CallTypeOK'
      BY <1>0, <1>2 DEF AllocSub, CallTypeOK, Goto, Labels, Naming
    <2> QED
      BY <1>2, <2>1, <2>2, <2>3 DEF AllocSub, TypeOK
  <1>3. CASE AllocFresh(t)
    <2>1. MemTypeOK'
      BY <1>0, <1>3 DEF AllocFresh, MemTypeOK
    <2>2. WalTypeOK'
      BY <1>0, <1>3 DEF AllocFresh, WalTypeOK, wal
    <2>3. CallTypeOK'
      <3>1. next_id \in Nat /\ next_id \in Ids
        BY <1>0, <1>3 DEF AllocFresh, MemTypeOK, Ids
      <3> QED
        BY <1>0, <1>3, <3>1 DEF AllocFresh, CallTypeOK, Goto, Labels, Naming
    <2> QED
      BY <1>3, <2>1, <2>2, <2>3 DEF AllocFresh, TypeOK
  <1>4. CASE Abandon(t)
    <2>1. MemTypeOK'
      BY <1>0, <1>4 DEF Abandon, MemTypeOK, mem
    <2>2. WalTypeOK'
      BY <1>0, <1>4 DEF Abandon, WalTypeOK, wal
    <2>3. CallTypeOK'
      BY <1>0, <1>4, LeaveType DEF Abandon, CallTypeOK
    <2> QED
      BY <1>4, <2>1, <2>2, <2>3 DEF Abandon, TypeOK
  <1>5. CASE InsertMem(t)
    <2>0. \A d \in Data : [data |-> d, deleted_tx |-> MAX_TX_ID] \in Node
      BY <1>0, BoundsAssumption DEF Node, MAX_TX_ID
    <2>1. MemTypeOK'
      <3>1. PICK n \in Node : nodes' = [nodes EXCEPT ![cur[t]] = n]
        BY <1>5, <2>0 DEF InsertMem
      <3>2. nodes' \in [Ids -> Node \cup {Absent}]
        BY <1>0, <3>1 DEF MemTypeOK
      <3> QED
        BY <1>0, <1>5, <3>2 DEF InsertMem, MemTypeOK
    <2>2. WalTypeOK'
      BY <1>0, <1>5 DEF InsertMem, WalTypeOK, wal
    <2>3. CallTypeOK'
      BY <1>0, <1>5, <2>0 DEF InsertMem, CallTypeOK, Goto, Labels, Naming
    <2> QED
      BY <1>5, <2>1, <2>2, <2>3 DEF InsertMem, TypeOK
  <1>6. CASE InsertLog(t)
    <2>1. MemTypeOK'
      BY <1>0, <1>6 DEF InsertLog, MemTypeOK, mem
    <2>2. WalTypeOK'
      <3>1. Insert(cur[t], own[t]) \in Record
        BY <1>0, <1>6, RecordTypes DEF InsertLog, CallTypeOK, Naming
      <3> QED
        BY <1>0, <1>6, <3>1, SendType DEF InsertLog
    <2>3. CallTypeOK'
      BY <1>0, <1>6, LeaveType DEF InsertLog, CallTypeOK
    <2> QED
      BY <1>6, <2>1, <2>2, <2>3 DEF InsertLog, TypeOK
  <1>7. CASE \E id \in Ids : Update(t, id)
    <2>1. PICK id \in Ids, d \in Data : Replace(t, id, [nodes[id] EXCEPT !.data = d])
      BY <1>7 DEF Update
    <2>2. [nodes[id] EXCEPT !.data = d] \in Node
      BY <1>0, <2>1 DEF Replace, MemTypeOK, Node, MAX_TX_ID
    <2> QED
      BY <2>1, <2>2, ReplaceType
  <1>8. CASE \E id \in Ids : soft_delete(t, id)
    <2>1. PICK id \in Ids, x \in 1 .. MaxTx : Replace(t, id, [nodes[id] EXCEPT !.deleted_tx = x])
      BY <1>8 DEF soft_delete
    <2>2. [nodes[id] EXCEPT !.deleted_tx = x] \in Node
      BY <1>0, <2>1 DEF Replace, MemTypeOK, Node, MAX_TX_ID
    <2> QED
      BY <2>1, <2>2, ReplaceType
  <1>9. CASE \E id \in Ids : hard_delete(t, id)
    <2>1. PICK id \in Ids : hard_delete(t, id)
      BY <1>9
    <2>2. id \in Ids /\ id \in Nat
      BY <1>0, <2>1 DEF CallTypeOK, Ids
    <2>3. MemTypeOK'
      BY <1>0, <1>9 DEF hard_delete, MemTypeOK, mem
    <2>4. WalTypeOK'
      BY <1>0, <2>1, <2>2, SendType, RecordTypes DEF Doom, hard_delete
    <2>5. CallTypeOK'
      BY <1>0, <1>9, <2>1, <2>2 DEF hard_delete, Doom, CallTypeOK, Goto, Labels, Naming
    <2> QED
      BY <1>9, <2>3, <2>4, <2>5 DEF hard_delete, TypeOK
  <1>10. CASE Remove(t)
    <2>1. MemTypeOK'
      BY <1>0, <1>10 DEF Remove, MemTypeOK
    <2>2. WalTypeOK'
      BY <1>0, <1>10 DEF Remove, WalTypeOK, wal
    <2>3. CallTypeOK'
      <3>1. CASE nodes[cur[t]] # Absent
        BY <1>0, <1>10, <3>1 DEF Remove, CallTypeOK, Goto, Labels, Naming
      <3>2. CASE nodes[cur[t]] = Absent
        BY <1>0, <1>10, <3>2, LeaveType, BackType DEF Remove, CallTypeOK
      <3> QED BY <3>1, <3>2
    <2> QED
      BY <1>10, <2>1, <2>2, <2>3 DEF Remove, TypeOK
  <1>11. CASE Push(t)
    <2>1. MemTypeOK'
      BY <1>0, <1>11 DEF Push, MemTypeOK, CallTypeOK, Naming
    <2>2. WalTypeOK'
      BY <1>0, <1>11 DEF Push, WalTypeOK, wal
    <2>3. CallTypeOK'
      BY <1>0, <1>11 DEF Push, CallTypeOK, Goto, Labels, Naming
    <2> QED
      BY <1>11, <2>1, <2>2, <2>3 DEF Push, TypeOK
  <1>12. CASE CountFreed(t)
    <2>1. MemTypeOK'
      <3>1. free_count + 1 \in Int
        BY <1>0, BoundsAssumption DEF MemTypeOK
      <3> QED
        BY <1>0, <1>12, <3>1, ModRange DEF CountFreed, MemTypeOK
    <2>2. WalTypeOK'
      BY <1>0, <1>12 DEF CountFreed, WalTypeOK, wal
    <2>3. CallTypeOK'
      BY <1>0, <1>12, LeaveType, BackType DEF CountFreed, CallTypeOK
    <2> QED
      BY <1>12, <2>1, <2>2, <2>3 DEF CountFreed, TypeOK
  <1>13. CASE Compact(t)
    <2>1. MemTypeOK'
      BY <1>0, <1>13 DEF Compact, MemTypeOK, mem
    <2>2. WalTypeOK'
      BY <1>0, <1>13 DEF Compact, WalTypeOK, wal
    <2>3. CallTypeOK'
      BY <1>0, <1>13 DEF Compact, CallTypeOK, Goto, Labels, Naming
    <2> QED
      BY <1>13, <2>1, <2>2, <2>3 DEF Compact, TypeOK
  <1>14. CASE CompactScan(t)
    <2>1. MemTypeOK'
      BY <1>0, <1>14 DEF CompactScan, MemTypeOK, mem
    <2>2. WalTypeOK'
      BY <1>0, <1>14 DEF CompactScan, WalTypeOK, wal
    <2>3. CallTypeOK'
      BY <1>0, <1>14 DEF CompactScan, CallTypeOK
    <2> QED
      BY <1>14, <2>1, <2>2, <2>3 DEF CompactScan, TypeOK
  <1>15. CASE CompactCollected(t)
    <2>1. MemTypeOK'
      BY <1>0, <1>15 DEF CompactCollected, MemTypeOK, mem
    <2>2. WalTypeOK'
      BY <1>0, <1>15 DEF CompactCollected, WalTypeOK, wal
    <2>3. CallTypeOK'
      BY <1>0, <1>15 DEF CompactCollected, CallTypeOK, Goto, Labels, Naming
    <2> QED
      BY <1>15, <2>1, <2>2, <2>3 DEF CompactCollected, TypeOK
  <1>16. CASE CompactNext(t)
    <2>1. PICK id \in to_remove[t] :
             Doom(t, id) /\ to_remove' = [to_remove EXCEPT ![t] = @ \ {id}]
      BY <1>16 DEF CompactNext
    <2>2. id \in Ids /\ id \in Nat
      BY <1>0, <2>1 DEF CallTypeOK, Ids
    <2>3. MemTypeOK'
      BY <1>0, <1>16 DEF CompactNext, MemTypeOK, mem
    <2>4. WalTypeOK'
      BY <1>0, <2>1, <2>2, SendType, RecordTypes DEF Doom
    <2>5. CallTypeOK'
      BY <1>0, <1>16, <2>1, <2>2 DEF CompactNext, Doom, CallTypeOK, Goto, Labels, Naming
    <2> QED
      BY <1>16, <2>3, <2>4, <2>5 DEF CompactNext, TypeOK
  <1>17. CASE CompactDone(t)
    <2>1. MemTypeOK'
      BY <1>0, <1>17 DEF CompactDone, MemTypeOK, mem
    <2>2. WalTypeOK'
      BY <1>0, <1>17 DEF CompactDone, WalTypeOK, wal
    <2>3. CallTypeOK'
      BY <1>0, <1>17 DEF CompactDone, CallTypeOK, Goto, Labels, Naming
    <2> QED
      BY <1>17, <2>1, <2>2, <2>3 DEF CompactDone, TypeOK
  <1> QED
    BY <1>1, <1>2, <1>3, <1>4, <1>5, <1>6, <1>7, <1>8, <1>9, <1>10, <1>11, <1>12, <1>13, <1>14, <1>15, <1>16, <1>17 DEF Step

-----------------------------------------------------------------------------
(* Who owns an id *)

\* A step that leaves the free list, next_id and the set of ids in the map
\* alone, and by which no call comes to hold an id, moves no id.
LEMMA NothingMoves ==
  ASSUME IdOwnership, FreshIsUnused, StaysUp, TypeOK,
         UNCHANGED <<free_list, next_id>>,
         \A id \in Ids : nodes'[id] = Absent <=> nodes[id] = Absent,
         \A u \in Threads : Holds(u)' => Holds(u) /\ cur'[u] = cur[u]
  PROVE  IdOwnership' /\ FreshIsUnused'
  <1>1. /\ \A i \in DOMAIN free_list : free_list[i] \in Ids
        /\ \A u \in Threads : Holds(u) => cur[u] \in Ids
    BY DEF TypeOK, MemTypeOK, CallTypeOK, Holds, Naming
  <1>2. IdOwnership'
    <2>1. \A i \in DOMAIN free_list : nodes'[free_list[i]] = Absent
      BY <1>1 DEF IdOwnership
    <2>2. ASSUME NEW u \in Threads, Holds(u)'
          PROVE  /\ nodes'[cur'[u]] = Absent
                 /\ \A i \in DOMAIN free_list : free_list[i] # cur'[u]
                 /\ \A v \in Threads \ {u} : Holds(v)' => cur'[v] # cur'[u]
      BY <1>1, <2>2 DEF IdOwnership
    <2> QED
      BY <2>1, <2>2 DEF IdOwnership
  <1>3. FreshIsUnused'
    BY DEF FreshIsUnused, StaysUp
  <1> QED
    BY <1>2, <1>3

\* pop: the id goes from the head of the queue to the call.
LEMMA PopMoves ==
  ASSUME Inv, NEW t \in Threads, AllocPop(t), free_list # <<>>
  PROVE  IdOwnership' /\ FreshIsUnused'
  <1>1. /\ free_list' = Tail(free_list) /\ nodes' = nodes /\ next_id' = next_id
        /\ pc' = [pc EXCEPT ![t] = "sub"]
        /\ cur' = [cur EXCEPT ![t] = Head(free_list)]
    BY DEF AllocPop, Goto
  <1>2. /\ Len(free_list) \in Nat /\ Len(free_list) > 0
        /\ Head(free_list) = free_list[1] /\ 1 \in DOMAIN free_list
        /\ \A i \in DOMAIN Tail(free_list) :
              /\ Tail(free_list)[i] = free_list[i + 1]
              /\ i + 1 \in DOMAIN free_list /\ i + 1 # 1 /\ i \in Int
    BY DEF Inv, TypeOK, MemTypeOK
  <1>3. /\ pc \in [Threads -> Labels] /\ cur \in [Threads -> Nat]
    BY DEF Inv, TypeOK, CallTypeOK
  <1>4. /\ Holds(t)' /\ cur'[t] = free_list[1]
        /\ \A u \in Threads \ {t} : cur'[u] = cur[u] /\ (Holds(u)' <=> Holds(u))
    BY <1>1, <1>2, <1>3 DEF Holds
  <1>5. IdOwnership'
    <2>1. \A i, j \in DOMAIN free_list' : free_list'[i] = free_list'[j] => i = j
      BY <1>1, <1>2 DEF Inv, IdOwnership
    <2>2. \A i \in DOMAIN free_list' : nodes'[free_list'[i]] = Absent
      BY <1>1, <1>2 DEF Inv, IdOwnership
    <2>3. ASSUME NEW u \in Threads, Holds(u)'
          PROVE  /\ nodes'[cur'[u]] = Absent
                 /\ \A i \in DOMAIN free_list' : free_list'[i] # cur'[u]
                 /\ \A v \in Threads \ {u} : Holds(v)' => cur'[v] # cur'[u]
      <3>1. CASE u = t
        BY <1>1, <1>2, <1>4, <2>3, <3>1 DEF Inv, IdOwnership
      <3>2. CASE u # t
        BY <1>1, <1>2, <1>4, <2>3, <3>2 DEF Inv, IdOwnership
      <3> QED BY <3>1, <3>2
    <2> QED
      BY <2>1, <2>2, <2>3 DEF IdOwnership
  <1>6. FreshIsUnused'
    BY <1>1, <1>2, <1>4 DEF Inv, StaysUp, FreshIsUnused
  <1> QED
    BY <1>5, <1>6

\* fetch_add: the call holds an id nothing has used.
LEMMA FreshMoves ==
  ASSUME Inv, NEW t \in Threads, AllocFresh(t)
  PROVE  IdOwnership' /\ FreshIsUnused'
  <1>1. /\ free_list' = free_list /\ nodes' = nodes /\ next_id' = next_id + 1
        /\ pc' = [pc EXCEPT ![t] = "reserved"] /\ cur' = [cur EXCEPT ![t] = next_id]
        /\ next_id < MaxIds /\ up' = up
    BY DEF AllocFresh, Goto
  <1>2. /\ pc \in [Threads -> Labels] /\ cur \in [Threads -> Nat]
        /\ next_id \in Ids /\ next_id \in Nat
        /\ \A i \in DOMAIN free_list : free_list[i] \in Nat
        /\ \A id \in Ids : id \in Nat
    BY <1>1, BoundsAssumption DEF Inv, TypeOK, CallTypeOK, MemTypeOK, Ids
  <1>3. /\ Holds(t)' /\ cur'[t] = next_id
        /\ \A u \in Threads \ {t} : cur'[u] = cur[u] /\ (Holds(u)' <=> Holds(u))
    BY <1>1, <1>2 DEF Holds
  <1>4. /\ nodes[next_id] = Absent
        /\ \A i \in DOMAIN free_list : free_list[i] # next_id
        /\ \A u \in Threads : Holds(u) => cur[u] # next_id
    BY <1>2 DEF Inv, StaysUp, FreshIsUnused
  <1>5. IdOwnership'
    <2>1. ASSUME NEW u \in Threads, Holds(u)'
          PROVE  /\ nodes'[cur'[u]] = Absent
                 /\ \A i \in DOMAIN free_list' : free_list'[i] # cur'[u]
                 /\ \A v \in Threads \ {u} : Holds(v)' => cur'[v] # cur'[u]
      <3>1. CASE u = t
        BY <1>1, <1>3, <1>4, <2>1, <3>1 DEF Inv, IdOwnership
      <3>2. CASE u # t
        BY <1>1, <1>3, <1>4, <2>1, <3>2 DEF Inv, IdOwnership
      <3> QED BY <3>1, <3>2
    <2> QED
      BY <1>1, <2>1 DEF Inv, IdOwnership
  <1>6. FreshIsUnused'
    BY <1>1, <1>2, <1>3 DEF Inv, StaysUp, FreshIsUnused
  <1> QED
    BY <1>5, <1>6

\* insert: the id goes from the call to the map.
LEMMA InsertMoves ==
  ASSUME Inv, NEW t \in Threads, InsertMem(t)
  PROVE  IdOwnership' /\ FreshIsUnused'
  <1>1. PICK n : nodes' = [nodes EXCEPT ![cur[t]] = n]
    BY DEF InsertMem
  <1>2. /\ free_list' = free_list /\ next_id' = next_id /\ cur' = cur
        /\ pc' = [pc EXCEPT ![t] = "log"] /\ Holds(t) /\ up' = up
    BY DEF InsertMem, Goto, Holds
  <1>3. /\ pc \in [Threads -> Labels] /\ nodes \in [Ids -> Node \cup {Absent}]
        /\ \A i \in DOMAIN free_list : free_list[i] \in Ids
        /\ \A u \in Threads : Holds(u) => cur[u] \in Ids
    BY DEF Inv, TypeOK, MemTypeOK, CallTypeOK, Holds, Naming
  <1>4. /\ ~Holds(t)'
        /\ \A u \in Threads \ {t} : Holds(u)' <=> Holds(u)
    BY <1>2, <1>3 DEF Holds
  <1>5. \A id \in Ids \ {cur[t]} : nodes'[id] = nodes[id]
    BY <1>1, <1>3
  <1>6. IdOwnership'
    <2>1. \A i \in DOMAIN free_list' : nodes'[free_list'[i]] = Absent
      BY <1>2, <1>3, <1>5 DEF Inv, IdOwnership
    <2>2. ASSUME NEW u \in Threads, Holds(u)'
          PROVE  /\ nodes'[cur'[u]] = Absent
                 /\ \A i \in DOMAIN free_list' : free_list'[i] # cur'[u]
                 /\ \A v \in Threads \ {u} : Holds(v)' => cur'[v] # cur'[u]
      BY <1>2, <1>3, <1>4, <1>5, <2>2 DEF Inv, IdOwnership
    <2> QED
      BY <1>2, <2>1, <2>2 DEF Inv, IdOwnership
  <1>7. FreshIsUnused'
    <2>1. cur[t] < next_id
      BY <1>2 DEF Inv, StaysUp, FreshIsUnused
    <2> QED
      BY <1>2, <1>4, <1>5, <2>1 DEF Inv, StaysUp, FreshIsUnused
  <1> QED
    BY <1>6, <1>7

\* remove: the id goes from the map to the call, if it was there.
LEMMA RemoveMoves ==
  ASSUME Inv, NEW t \in Threads, Remove(t)
  PROVE  IdOwnership' /\ FreshIsUnused'
  <1>1. /\ free_list' = free_list /\ next_id' = next_id /\ up' = up
        /\ nodes' = [nodes EXCEPT ![cur[t]] = Absent] /\ pc[t] = "remove"
    BY DEF Remove
  <1>2. /\ pc \in [Threads -> Labels] /\ nodes \in [Ids -> Node \cup {Absent}]
        /\ cur \in [Threads -> Nat] /\ cur[t] \in Ids
        /\ \A i \in DOMAIN free_list : free_list[i] \in Ids
        /\ \A u \in Threads : Holds(u) => cur[u] \in Ids
    BY <1>1 DEF Inv, TypeOK, MemTypeOK, CallTypeOK, Holds, Naming
  <1>3. CASE nodes[cur[t]] = Absent
    <2>1. \A id \in Ids : nodes'[id] = Absent <=> nodes[id] = Absent
      BY <1>1, <1>2, <1>3
    <2>2. \A u \in Threads : Holds(u)' => Holds(u) /\ cur'[u] = cur[u]
      BY <1>2, <1>3, BackType DEF Remove, Leave, Goto, Holds
    <2> QED
      BY <1>1, <2>1, <2>2, NothingMoves DEF Inv
  <1>4. CASE nodes[cur[t]] # Absent
    <2>1. cur' = cur /\ pc' = [pc EXCEPT ![t] = "push"]
      BY <1>4 DEF Remove, Goto
    <2>2. /\ ~Holds(t)
          /\ \A u \in Threads \ {t} : Holds(u)' <=> Holds(u)
      BY <1>1, <1>2, <2>1 DEF Holds
    <2>3. \A id \in Ids : nodes'[id] = IF id = cur[t] THEN Absent ELSE nodes[id]
      BY <1>1, <1>2
    <2>4. /\ \A i \in DOMAIN free_list : free_list[i] # cur[t]
          /\ \A u \in Threads : Holds(u) => cur[u] # cur[t]
      BY <1>4 DEF Inv, IdOwnership
    <2>5. IdOwnership'
      <3>1. \A i \in DOMAIN free_list' : nodes'[free_list'[i]] = Absent
        BY <1>1, <1>2, <2>3 DEF Inv, IdOwnership
      <3>2. ASSUME NEW u \in Threads, Holds(u)'
            PROVE  /\ nodes'[cur'[u]] = Absent
                   /\ \A i \in DOMAIN free_list' : free_list'[i] # cur'[u]
                   /\ \A v \in Threads \ {u} : Holds(v)' => cur'[v] # cur'[u]
        <4>1. CASE u = t
          BY <1>1, <1>2, <2>1, <2>2, <2>3, <2>4, <3>2, <4>1
        <4>2. CASE u # t
          BY <1>1, <1>2, <2>1, <2>2, <2>3, <2>4, <3>2, <4>2 DEF Inv, IdOwnership
        <4> QED BY <4>1, <4>2
      <3> QED
        BY <1>1, <3>1, <3>2 DEF Inv, IdOwnership
    <2>6. FreshIsUnused'
      BY <1>1, <1>2, <1>4, <2>1, <2>2, <2>3 DEF Inv, StaysUp, FreshIsUnused
    <2> QED BY <2>5, <2>6
  <1> QED BY <1>3, <1>4

\* push: the id goes from the call to the end of the queue.
LEMMA PushMoves ==
  ASSUME Inv, NEW t \in Threads, Push(t)
  PROVE  IdOwnership' /\ FreshIsUnused'
  <1>1. /\ free_list' = Append(free_list, cur[t]) /\ next_id' = next_id /\ up' = up
        /\ nodes' = nodes /\ cur' = cur /\ pc' = [pc EXCEPT ![t] = "count"]
        /\ Holds(t)
    BY DEF Push, Goto, Holds
  <1>2. /\ pc \in [Threads -> Labels] /\ cur[t] \in Ids
        /\ free_list \in Seq(Ids) /\ Len(free_list) \in Nat
    BY <1>1 DEF Inv, TypeOK, MemTypeOK, CallTypeOK, Holds, Naming
  <1>3. /\ ~Holds(t)'
        /\ \A u \in Threads \ {t} : Holds(u)' <=> Holds(u)
    BY <1>1, <1>2 DEF Holds
  <1>4. \A i \in DOMAIN free_list' :
           \/ i \in DOMAIN free_list /\ free_list'[i] = free_list[i]
           \/ i = Len(free_list) + 1 /\ free_list'[i] = cur[t]
    BY <1>1, <1>2
  <1>5. /\ nodes[cur[t]] = Absent
        /\ \A i \in DOMAIN free_list : free_list[i] # cur[t]
        /\ \A u \in Threads \ {t} : Holds(u) => cur[u] # cur[t]
    BY <1>1 DEF Inv, IdOwnership
  <1>6. IdOwnership'
    <2>1. \A i, j \in DOMAIN free_list' : free_list'[i] = free_list'[j] => i = j
      BY <1>4, <1>5 DEF Inv, IdOwnership
    <2>2. \A i \in DOMAIN free_list' : nodes'[free_list'[i]] = Absent
      BY <1>1, <1>4, <1>5 DEF Inv, IdOwnership
    <2>3. ASSUME NEW u \in Threads, Holds(u)'
          PROVE  /\ nodes'[cur'[u]] = Absent
                 /\ \A i \in DOMAIN free_list' : free_list'[i] # cur'[u]
                 /\ \A v \in Threads \ {u} : Holds(v)' => cur'[v] # cur'[u]
      BY <1>1, <1>3, <1>4, <1>5, <2>3 DEF Inv, IdOwnership
    <2> QED
      BY <2>1, <2>2, <2>3 DEF IdOwnership
  <1>7. FreshIsUnused'
    <2>1. cur[t] < next_id
      BY <1>1 DEF Inv, StaysUp, FreshIsUnused
    <2> QED
      BY <1>1, <1>3, <1>4, <2>1 DEF Inv, StaysUp, FreshIsUnused
  <1> QED
    BY <1>6, <1>7

\* A step of one call keeps every id in one place.
LEMMA StepOwn ==
  ASSUME Inv, NEW t \in Threads, Step(t)
  PROVE  IdOwnership' /\ FreshIsUnused'
  <1>0. /\ IdOwnership /\ FreshIsUnused /\ StaysUp /\ TypeOK
        /\ pc \in [Threads -> Labels] /\ cur \in [Threads -> Nat]
        /\ nodes \in [Ids -> Node \cup {Absent}]
    BY DEF Inv, TypeOK, CallTypeOK, MemTypeOK
  <1>1. CASE AllocPop(t)
    <2>1. CASE free_list # <<>>
      BY <1>1, <2>1, PopMoves
    <2>2. CASE free_list = <<>>
      <3>1. /\ UNCHANGED <<nodes, free_list, next_id>>
            /\ \A u \in Threads : Holds(u)' => Holds(u) /\ cur'[u] = cur[u]
        BY <1>0, <1>1, <2>2 DEF AllocPop, Goto, Holds
      <3> QED BY <1>0, <3>1, NothingMoves
    <2> QED BY <2>1, <2>2
  <1>2. CASE AllocSub(t)
    <2>1. /\ UNCHANGED <<nodes, free_list, next_id>>
          /\ \A u \in Threads : Holds(u)' => Holds(u) /\ cur'[u] = cur[u]
      BY <1>0, <1>2 DEF AllocSub, Goto, Holds, mem
    <2> QED BY <1>0, <2>1, NothingMoves
  <1>3. CASE AllocFresh(t)
    BY <1>3, FreshMoves
  <1>4. CASE Abandon(t)
    <2>1. /\ UNCHANGED <<nodes, free_list, next_id>>
          /\ \A u \in Threads : Holds(u)' => Holds(u) /\ cur'[u] = cur[u]
      BY <1>0, <1>4 DEF Abandon, Leave, Goto, Holds, mem
    <2> QED BY <1>0, <2>1, NothingMoves
  <1>5. CASE InsertMem(t)
    BY <1>5, InsertMoves
  <1>6. CASE InsertLog(t)
    <2>1. /\ UNCHANGED <<nodes, free_list, next_id>>
          /\ \A u \in Threads : Holds(u)' => Holds(u) /\ cur'[u] = cur[u]
      BY <1>0, <1>6 DEF InsertLog, Leave, Goto, Holds, mem
    <2> QED BY <1>0, <2>1, NothingMoves
  <1>7. CASE \E id \in Ids : Update(t, id)
    <2>1. PICK id \in Ids, d \in Data : Replace(t, id, [nodes[id] EXCEPT !.data = d])
      BY <1>7 DEF Update
    <2>2. [nodes[id] EXCEPT !.data = d] # Absent
      BY <1>0, <2>1, AbsentAssumption, BoundsAssumption DEF Replace, Node, MAX_TX_ID
    <2>3. /\ UNCHANGED <<free_list, next_id>>
          /\ \A u \in Threads : Holds(u)' => Holds(u) /\ cur'[u] = cur[u]
      BY <2>1 DEF Replace, Holds, call
    <2>4. \A i \in Ids : nodes'[i] = Absent <=> nodes[i] = Absent
      BY <1>0, <2>1, <2>2 DEF Replace
    <2> QED BY <1>0, <2>3, <2>4, NothingMoves
  <1>8. CASE \E id \in Ids : soft_delete(t, id)
    <2>1. PICK id \in Ids, x \in 1 .. MaxTx : Replace(t, id, [nodes[id] EXCEPT !.deleted_tx = x])
      BY <1>8 DEF soft_delete
    <2>2. [nodes[id] EXCEPT !.deleted_tx = x] # Absent
      BY <1>0, <2>1, AbsentAssumption, BoundsAssumption DEF Replace, Node, MAX_TX_ID
    <2>3. /\ UNCHANGED <<free_list, next_id>>
          /\ \A u \in Threads : Holds(u)' => Holds(u) /\ cur'[u] = cur[u]
      BY <2>1 DEF Replace, Holds, call
    <2>4. \A i \in Ids : nodes'[i] = Absent <=> nodes[i] = Absent
      BY <1>0, <2>1, <2>2 DEF Replace
    <2> QED BY <1>0, <2>3, <2>4, NothingMoves
  <1>9. CASE \E id \in Ids : hard_delete(t, id)
    <2>1. /\ UNCHANGED <<nodes, free_list, next_id>>
          /\ \A u \in Threads : Holds(u)' => Holds(u) /\ cur'[u] = cur[u]
      BY <1>0, <1>9 DEF hard_delete, Doom, Goto, Holds, mem
    <2> QED BY <1>0, <2>1, NothingMoves
  <1>10. CASE Remove(t)
    BY <1>10, RemoveMoves
  <1>11. CASE Push(t)
    BY <1>11, PushMoves
  <1>12. CASE CountFreed(t)
    <2>1. /\ UNCHANGED <<nodes, free_list, next_id>>
          /\ \A u \in Threads : Holds(u)' => Holds(u) /\ cur'[u] = cur[u]
      BY <1>0, <1>12, BackType DEF CountFreed, Leave, Goto, Holds, mem
    <2> QED BY <1>0, <2>1, NothingMoves
  <1>13. CASE Compact(t)
    <2>1. /\ UNCHANGED <<nodes, free_list, next_id>>
          /\ \A u \in Threads : Holds(u)' => Holds(u) /\ cur'[u] = cur[u]
      BY <1>0, <1>13 DEF Compact, Goto, Holds, mem
    <2> QED BY <1>0, <2>1, NothingMoves
  <1>14. CASE CompactScan(t)
    <2>1. /\ UNCHANGED <<nodes, free_list, next_id>>
          /\ \A u \in Threads : Holds(u)' => Holds(u) /\ cur'[u] = cur[u]
      BY <1>0, <1>14 DEF CompactScan, Goto, Holds, mem
    <2> QED BY <1>0, <2>1, NothingMoves
  <1>15. CASE CompactCollected(t)
    <2>1. /\ UNCHANGED <<nodes, free_list, next_id>>
          /\ \A u \in Threads : Holds(u)' => Holds(u) /\ cur'[u] = cur[u]
      BY <1>0, <1>15 DEF CompactCollected, Goto, Holds, mem
    <2> QED BY <1>0, <2>1, NothingMoves
  <1>16. CASE CompactNext(t)
    <2>1. /\ UNCHANGED <<nodes, free_list, next_id>>
          /\ \A u \in Threads : Holds(u)' => Holds(u) /\ cur'[u] = cur[u]
      BY <1>0, <1>16 DEF CompactNext, Doom, Goto, Holds, mem
    <2> QED BY <1>0, <2>1, NothingMoves
  <1>17. CASE CompactDone(t)
    <2>1. /\ UNCHANGED <<nodes, free_list, next_id>>
          /\ \A u \in Threads : Holds(u)' => Holds(u) /\ cur'[u] = cur[u]
      BY <1>0, <1>17 DEF CompactDone, Goto, Holds, mem
    <2> QED BY <1>0, <2>1, NothingMoves
  <1> QED
    BY <1>1, <1>2, <1>3, <1>4, <1>5, <1>6, <1>7, <1>8, <1>9, <1>10, <1>11, <1>12, <1>13, <1>14, <1>15, <1>16, <1>17 DEF Step

\* The invariant is inductive.
LEMMA InvStep == ASSUME OneLifetime, Inv, [Next]_vars PROVE Inv'
  <1>1. CASE \E t \in Threads : Step(t)
    <2>1. PICK t \in Threads : Step(t)
      BY <1>1
    <2>2. TypeOK' /\ IdOwnership' /\ FreshIsUnused'
      BY <2>1, StepType, StepOwn DEF Inv
    <2>3. UNCHANGED <<up, crashes>>
      BY <2>1 DEF Step, AllocPop, AllocSub, AllocFresh, Abandon, InsertMem, InsertLog,
                  Update, soft_delete, Replace, hard_delete, Remove, Push, CountFreed,
                  Compact, CompactScan, CompactCollected, CompactNext, CompactDone
    <2> QED
      BY <2>2, <2>3 DEF Inv, StaysUp
  <1>2. CASE flush
    <2>1. UNCHANGED <<nodes, free_list, next_id, pc, cur, up, crashes>>
      BY <1>2 DEF flush, mem, call
    <2>2. TypeOK'
      <3>1. Len(log) \in Nat
        BY DEF Inv, TypeOK, WalTypeOK
      <3> QED
        BY <1>2, <3>1 DEF flush, mem, call, Inv, TypeOK, MemTypeOK, WalTypeOK, CallTypeOK
    <2>3. IdOwnership' /\ FreshIsUnused'
      BY <2>1, NothingMoves DEF Inv, Holds
    <2> QED
      BY <2>1, <2>2, <2>3 DEF Inv, StaysUp
  <1>3. CASE Crash
    BY <1>3 DEF Crash, OneLifetime, Inv, StaysUp
  <1>4. CASE Open
    BY <1>4 DEF Open, Inv, StaysUp
  <1>5. CASE UNCHANGED vars
    <2>1. TypeOK'
      BY <1>5 DEF vars, mem, wal, call, Inv, TypeOK, MemTypeOK, WalTypeOK, CallTypeOK
    <2>2. UNCHANGED <<nodes, free_list, next_id, pc, cur, up, crashes>>
      BY <1>5 DEF vars, mem, call
    <2>3. IdOwnership' /\ FreshIsUnused'
      BY <2>2, NothingMoves DEF Inv, Holds
    <2> QED
      BY <2>1, <2>2, <2>3 DEF Inv, StaysUp
  <1> QED
    BY <1>1, <1>2, <1>3, <1>4, <1>5 DEF Next

\* The invariant holds initially.
LEMMA InitInv == Init => Inv
  BY InitType, BoundsAssumption
  DEF Init, Inv, StaysUp, IdOwnership, FreshIsUnused, Holds, Ids

\* As long as one NodeStore value lives, its ids are where Inv says.
THEOREM InvHolds == ASSUME OneLifetime PROVE Spec => []Inv
  <1>1. Inv /\ [Next]_vars => Inv'
    BY InvStep
  <1> QED
    BY InitInv, <1>1, PTL DEF Spec

\* alloc_id never hands out an id that is in the map, in the free list or
\* with another call, however inserts, deletes and compactions interleave.
THEOREM IdsAreOwnedOnce == ASSUME OneLifetime PROVE Spec => []IdOwnership
  <1>1. Inv => IdOwnership
    BY DEF Inv
  <1> QED
    BY InvHolds, <1>1, PTL

-----------------------------------------------------------------------------
(* What compact deletes *)

Deleting == {"scan", "sweep", "remove", "push", "count"}

\* Only deleters delete, compact's list exists only inside compact, and the
\* id in hand has left the list.
SweepInv ==
    /\ SweepIsDead
    /\ \A t \in Threads :
          /\ pc[t] \in Deleting => t \in Deleters
          /\ pc[t] \notin Deleting => oldest[t] = 0
          /\ oldest[t] = 0 => to_remove[t] = {}
          /\ pc[t] = "remove" => cur[t] \notin to_remove[t]

\* A node compact has on its list or in hand stays a dead node if the map
\* changes at no such id.
LEMMA SweepStays ==
  ASSUME SweepInv, TypeOK, NEW t \in Threads,
         \A u \in Threads \ {t} : pc'[u] = pc[u] /\ cur'[u] = cur[u]
                                   /\ oldest'[u] = oldest[u] /\ to_remove'[u] = to_remove[u],
         \A u \in Threads : \A id \in Doomed(u) :
              nodes'[id] # Absent /\ nodes'[id].deleted_tx # MAX_TX_ID,
         \A id \in Doomed(t)' : id \in Doomed(t),
         pc'[t] \in Deleting => t \in Deleters,
         pc'[t] \notin Deleting => oldest'[t] = 0,
         oldest'[t] = 0 => to_remove'[t] = {},
         pc'[t] = "remove" => cur'[t] \notin to_remove'[t]
  PROVE  SweepInv'
  <1>1. \A u \in Threads : \A id \in Doomed(u)' : id \in Doomed(u)
    BY DEF Doomed
  <1>2. SweepIsDead'
    BY <1>1 DEF SweepIsDead
  <1> QED
    BY <1>2 DEF SweepInv

\* A step of one call, when one thread deletes.
LEMMA StepSweep ==
  ASSUME OneDeleter, Inv, SweepInv, NEW t \in Threads, Step(t)
  PROVE  SweepInv'
  <1>0. /\ TypeOK /\ pc \in [Threads -> Labels] /\ cur \in [Threads -> Nat]
        /\ oldest \in [Threads -> 0 .. MAX_TX_ID] /\ to_remove \in [Threads -> SUBSET Ids]
        /\ nodes \in [Ids -> Node \cup {Absent}]
        /\ \A u \in Threads : Doomed(u) \subseteq Ids
        /\ MaxTx \in Nat
    BY BoundsAssumption DEF Inv, TypeOK, CallTypeOK, MemTypeOK, Doomed, Naming
  <1>a. /\ \A u \in Threads : \A id \in Doomed(u) :
              nodes[id] # Absent /\ nodes[id].deleted_tx # MAX_TX_ID
        /\ \A u \in Threads : Doomed(u) # {} => u \in Deleters
    BY DEF SweepInv, SweepIsDead, Doomed, Deleting
  <1>1. CASE AllocPop(t)
    <2>1. nodes' = nodes
      BY <1>1 DEF AllocPop, mem
    <2>2. \A u \in Threads \ {t} : pc'[u] = pc[u] /\ cur'[u] = cur[u]
                /\ oldest'[u] = oldest[u] /\ to_remove'[u] = to_remove[u]
      BY <1>0, <1>1 DEF AllocPop, Goto
    <2>3. /\ \A id \in Doomed(t)' : id \in Doomed(t)
          /\ pc'[t] \in Deleting => t \in Deleters
          /\ pc'[t] \notin Deleting => oldest'[t] = 0
          /\ oldest'[t] = 0 => to_remove'[t] = {}
          /\ pc'[t] = "remove" => cur'[t] \notin to_remove'[t]
      BY <1>0, <1>1 DEF AllocPop, Goto, Doomed, SweepInv, Deleting
    <2> QED BY <1>0, <1>a, <2>1, <2>2, <2>3, SweepStays
  <1>2. CASE AllocSub(t)
    <2>1. nodes' = nodes
      BY <1>2 DEF AllocSub, mem
    <2>2. \A u \in Threads \ {t} : pc'[u] = pc[u] /\ cur'[u] = cur[u]
                /\ oldest'[u] = oldest[u] /\ to_remove'[u] = to_remove[u]
      BY <1>0, <1>2 DEF AllocSub, Goto
    <2>3. /\ \A id \in Doomed(t)' : id \in Doomed(t)
          /\ pc'[t] \in Deleting => t \in Deleters
          /\ pc'[t] \notin Deleting => oldest'[t] = 0
          /\ oldest'[t] = 0 => to_remove'[t] = {}
          /\ pc'[t] = "remove" => cur'[t] \notin to_remove'[t]
      BY <1>0, <1>2 DEF AllocSub, Goto, Doomed, SweepInv, Deleting
    <2> QED BY <1>0, <1>a, <2>1, <2>2, <2>3, SweepStays
  <1>3. CASE AllocFresh(t)
    <2>1. nodes' = nodes
      BY <1>3 DEF AllocFresh, mem
    <2>2. \A u \in Threads \ {t} : pc'[u] = pc[u] /\ cur'[u] = cur[u]
                /\ oldest'[u] = oldest[u] /\ to_remove'[u] = to_remove[u]
      BY <1>0, <1>3 DEF AllocFresh, Goto
    <2>3. /\ \A id \in Doomed(t)' : id \in Doomed(t)
          /\ pc'[t] \in Deleting => t \in Deleters
          /\ pc'[t] \notin Deleting => oldest'[t] = 0
          /\ oldest'[t] = 0 => to_remove'[t] = {}
          /\ pc'[t] = "remove" => cur'[t] \notin to_remove'[t]
      BY <1>0, <1>3 DEF AllocFresh, Goto, Doomed, SweepInv, Deleting
    <2> QED BY <1>0, <1>a, <2>1, <2>2, <2>3, SweepStays
  <1>4. CASE Abandon(t)
    <2>1. nodes' = nodes
      BY <1>4 DEF Abandon, mem
    <2>2. \A u \in Threads \ {t} : pc'[u] = pc[u] /\ cur'[u] = cur[u]
                /\ oldest'[u] = oldest[u] /\ to_remove'[u] = to_remove[u]
      BY <1>0, <1>4 DEF Abandon, Leave, Goto
    <2>3. /\ \A id \in Doomed(t)' : id \in Doomed(t)
          /\ pc'[t] \in Deleting => t \in Deleters
          /\ pc'[t] \notin Deleting => oldest'[t] = 0
          /\ oldest'[t] = 0 => to_remove'[t] = {}
          /\ pc'[t] = "remove" => cur'[t] \notin to_remove'[t]
      BY <1>0, <1>4 DEF Abandon, Leave, Goto, Doomed, SweepInv, Deleting
    <2> QED BY <1>0, <1>a, <2>1, <2>2, <2>3, SweepStays
  <1>5. CASE InsertMem(t)
    <2>1. PICK d \in Data :
             nodes' = [nodes EXCEPT ![cur[t]] = [data |-> d, deleted_tx |-> MAX_TX_ID]]
      BY <1>5 DEF InsertMem
    <2>2. nodes[cur[t]] = Absent
      BY <1>5 DEF InsertMem, Inv, IdOwnership, Holds
    <2>3. \A u \in Threads : \A id \in Doomed(u) : nodes'[id] = nodes[id]
      BY <1>0, <1>a, <2>1, <2>2
    <2>4. \A u \in Threads \ {t} : pc'[u] = pc[u] /\ cur'[u] = cur[u]
                /\ oldest'[u] = oldest[u] /\ to_remove'[u] = to_remove[u]
      BY <1>0, <1>5 DEF InsertMem, Goto
    <2>5. /\ \A id \in Doomed(t)' : id \in Doomed(t)
          /\ pc'[t] \in Deleting => t \in Deleters
          /\ pc'[t] \notin Deleting => oldest'[t] = 0
          /\ oldest'[t] = 0 => to_remove'[t] = {}
          /\ pc'[t] = "remove" => cur'[t] \notin to_remove'[t]
      BY <1>0, <1>5 DEF InsertMem, Goto, Doomed, SweepInv, Deleting
    <2> QED BY <1>0, <1>a, <2>3, <2>4, <2>5, SweepStays
  <1>6. CASE InsertLog(t)
    <2>1. nodes' = nodes
      BY <1>6 DEF InsertLog, mem
    <2>2. \A u \in Threads \ {t} : pc'[u] = pc[u] /\ cur'[u] = cur[u]
                /\ oldest'[u] = oldest[u] /\ to_remove'[u] = to_remove[u]
      BY <1>0, <1>6 DEF InsertLog, Leave, Goto
    <2>3. /\ \A id \in Doomed(t)' : id \in Doomed(t)
          /\ pc'[t] \in Deleting => t \in Deleters
          /\ pc'[t] \notin Deleting => oldest'[t] = 0
          /\ oldest'[t] = 0 => to_remove'[t] = {}
          /\ pc'[t] = "remove" => cur'[t] \notin to_remove'[t]
      BY <1>0, <1>6 DEF InsertLog, Leave, Goto, Doomed, SweepInv, Deleting
    <2> QED BY <1>0, <1>a, <2>1, <2>2, <2>3, SweepStays
  <1>7. CASE \E id \in Ids : Update(t, id)
    <2>1. PICK i \in Ids, d \in Data : Replace(t, i, [nodes[i] EXCEPT !.data = d])
      BY <1>7 DEF Update
    <2>2. nodes' = [nodes EXCEPT ![i] = [nodes[i] EXCEPT !.data = d]] /\ nodes[i] \in Node
      BY <1>0, <2>1 DEF Replace
    <2>3. [nodes[i] EXCEPT !.data = d] # Absent
      BY <1>0, <2>2, AbsentAssumption DEF Node, MAX_TX_ID
    <2>4. ASSUME NEW u \in Threads, NEW id \in Doomed(u)
          PROVE  nodes'[id] # Absent /\ nodes'[id].deleted_tx # MAX_TX_ID
      BY <1>0, <1>a, <2>2, <2>3 DEF Node, MAX_TX_ID
    <2>5. UNCHANGED <<pc, cur, oldest, to_remove>>
      BY <2>1 DEF Replace, call
    <2>6. Doomed(t)' = Doomed(t)
      BY <2>5 DEF Doomed
    <2> QED BY <1>0, <2>4, <2>5, <2>6, SweepStays DEF SweepInv
  <1>8. CASE \E id \in Ids : soft_delete(t, id)
    <2>1. PICK i \in Ids, x \in 1 .. MaxTx : Replace(t, i, [nodes[i] EXCEPT !.deleted_tx = x])
      BY <1>8 DEF soft_delete
    <2>2. nodes' = [nodes EXCEPT ![i] = [nodes[i] EXCEPT !.deleted_tx = x]] /\ nodes[i] \in Node
      BY <1>0, <2>1 DEF Replace
    <2>3. [nodes[i] EXCEPT !.deleted_tx = x] # Absent
      BY <1>0, <2>2, AbsentAssumption DEF Node, MAX_TX_ID
    <2>4. ASSUME NEW u \in Threads, NEW id \in Doomed(u)
          PROVE  nodes'[id] # Absent /\ nodes'[id].deleted_tx # MAX_TX_ID
      BY <1>0, <1>a, <2>2, <2>3 DEF Node, MAX_TX_ID
    <2>5. UNCHANGED <<pc, cur, oldest, to_remove>>
      BY <2>1 DEF Replace, call
    <2>6. Doomed(t)' = Doomed(t)
      BY <2>5 DEF Doomed
    <2> QED BY <1>0, <2>4, <2>5, <2>6, SweepStays DEF SweepInv
  <1>9. CASE \E id \in Ids : hard_delete(t, id)
    <2>1. nodes' = nodes
      BY <1>9 DEF hard_delete, mem
    <2>2. \A u \in Threads \ {t} : pc'[u] = pc[u] /\ cur'[u] = cur[u]
                /\ oldest'[u] = oldest[u] /\ to_remove'[u] = to_remove[u]
      BY <1>0, <1>9 DEF hard_delete, Doom, Goto
    <2>3. /\ \A id \in Doomed(t)' : id \in Doomed(t)
          /\ pc'[t] \in Deleting => t \in Deleters
          /\ pc'[t] \notin Deleting => oldest'[t] = 0
          /\ oldest'[t] = 0 => to_remove'[t] = {}
          /\ pc'[t] = "remove" => cur'[t] \notin to_remove'[t]
      BY <1>0, <1>9 DEF hard_delete, Doom, Goto, Doomed, SweepInv, Deleting
    <2> QED BY <1>0, <1>a, <2>1, <2>2, <2>3, SweepStays
  <1>10. CASE Remove(t)
    <2>1. /\ nodes' = [nodes EXCEPT ![cur[t]] = Absent] /\ pc[t] = "remove"
          /\ UNCHANGED <<oldest, to_remove>>
          /\ pc' = [pc EXCEPT ![t] = "push"] \/ pc' = [pc EXCEPT ![t] = Back(t)]
          /\ \A u \in Threads \ {t} : cur'[u] = cur[u]
      BY <1>0, <1>10 DEF Remove, Goto, Leave
    <2>2. t \in Deleters /\ cur[t] \notin to_remove[t]
      BY <2>1 DEF SweepInv, Deleting
    <2>3. \A u \in Threads \ {t} : Doomed(u) = {}
      BY <1>a, <2>2 DEF OneDeleter
    <2>4. \A u \in Threads \ {t} : Doomed(u)' = {}
      BY <1>0, <2>1, <2>3 DEF Doomed
    <2>5. pc'[t] \in {"push", "sweep", "idle"} /\ (pc'[t] = "idle" => oldest[t] = 0)
      BY <1>0, <1>10 DEF Remove, Goto, Leave, Back
    <2>6. Doomed(t)' = to_remove[t]
      BY <2>1, <2>5 DEF Doomed
    <2>7. \A id \in to_remove[t] : nodes'[id] = nodes[id]
      BY <1>0, <2>1, <2>2
    <2>8. SweepIsDead'
      BY <1>a, <2>4, <2>6, <2>7 DEF SweepIsDead, Doomed
    <2>9. pc'[t] = "idle" => to_remove[t] = {}
      BY <1>0, <1>10, <2>5 DEF SweepInv, Remove
    <2> QED
      BY <1>0, <2>1, <2>2, <2>5, <2>8, <2>9 DEF SweepInv, Deleting
  <1>11. CASE Push(t)
    <2>1. nodes' = nodes
      BY <1>11 DEF Push, mem
    <2>2. \A u \in Threads \ {t} : pc'[u] = pc[u] /\ cur'[u] = cur[u]
                /\ oldest'[u] = oldest[u] /\ to_remove'[u] = to_remove[u]
      BY <1>0, <1>11 DEF Push, Goto
    <2>3. /\ \A id \in Doomed(t)' : id \in Doomed(t)
          /\ pc'[t] \in Deleting => t \in Deleters
          /\ pc'[t] \notin Deleting => oldest'[t] = 0
          /\ oldest'[t] = 0 => to_remove'[t] = {}
          /\ pc'[t] = "remove" => cur'[t] \notin to_remove'[t]
      BY <1>0, <1>11 DEF Push, Goto, Doomed, SweepInv, Deleting
    <2> QED BY <1>0, <1>a, <2>1, <2>2, <2>3, SweepStays
  <1>12. CASE CountFreed(t)
    <2>1. nodes' = nodes
      BY <1>12 DEF CountFreed, mem
    <2>2. \A u \in Threads \ {t} : pc'[u] = pc[u] /\ cur'[u] = cur[u]
                /\ oldest'[u] = oldest[u] /\ to_remove'[u] = to_remove[u]
      BY <1>0, <1>12 DEF CountFreed, Leave, Back, Goto
    <2>3. /\ \A id \in Doomed(t)' : id \in Doomed(t)
          /\ pc'[t] \in Deleting => t \in Deleters
          /\ pc'[t] \notin Deleting => oldest'[t] = 0
          /\ oldest'[t] = 0 => to_remove'[t] = {}
          /\ pc'[t] = "remove" => cur'[t] \notin to_remove'[t]
      BY <1>0, <1>12 DEF CountFreed, Leave, Back, Goto, Doomed, SweepInv, Deleting
    <2> QED BY <1>0, <1>a, <2>1, <2>2, <2>3, SweepStays
  <1>13. CASE Compact(t)
    <2>1. nodes' = nodes
      BY <1>13 DEF Compact, mem
    <2>2. \A u \in Threads \ {t} : pc'[u] = pc[u] /\ cur'[u] = cur[u]
                /\ oldest'[u] = oldest[u] /\ to_remove'[u] = to_remove[u]
      BY <1>0, <1>13 DEF Compact, Goto
    <2>3. /\ \A id \in Doomed(t)' : id \in Doomed(t)
          /\ pc'[t] \in Deleting => t \in Deleters
          /\ pc'[t] \notin Deleting => oldest'[t] = 0
          /\ oldest'[t] = 0 => to_remove'[t] = {}
          /\ pc'[t] = "remove" => cur'[t] \notin to_remove'[t]
      BY <1>0, <1>13 DEF Compact, Goto, Doomed, SweepInv, Deleting
    <2> QED BY <1>0, <1>a, <2>1, <2>2, <2>3, SweepStays
  <1>14. CASE CompactScan(t)
    <2>1. PICK i \in todo[t] :
             to_remove' = [to_remove EXCEPT ![t] =
                              IF Dead(t, i) THEN to_remove[t] \cup {i} ELSE to_remove[t]]
      BY <1>14 DEF CompactScan
    <2>2. UNCHANGED <<nodes, pc, cur, oldest>> /\ pc[t] = "scan" /\ i \in Ids
      BY <1>0, <1>14 DEF CompactScan, mem, TypeOK, CallTypeOK
    <2>3. Dead(t, i) => nodes[i] # Absent /\ nodes[i].deleted_tx # MAX_TX_ID
      BY <1>0, <2>2 DEF Dead, Node, MAX_TX_ID
    <2>4. \A u \in Threads : \A id \in Doomed(u)' :
              id \in Doomed(u) \/ (id = i /\ Dead(t, i))
      BY <1>0, <2>1, <2>2 DEF Doomed
    <2>5. SweepIsDead'
      BY <1>a, <2>2, <2>3, <2>4 DEF SweepIsDead
    <2>6. oldest'[t] = 0 => to_remove'[t] = {}
      BY <1>0, <2>1, <2>2 DEF SweepInv, Dead, Node, MAX_TX_ID
    <2> QED
      BY <1>0, <2>1, <2>2, <2>5, <2>6 DEF SweepInv, Deleting
  <1>15. CASE CompactCollected(t)
    <2>1. nodes' = nodes
      BY <1>15 DEF CompactCollected, mem
    <2>2. \A u \in Threads \ {t} : pc'[u] = pc[u] /\ cur'[u] = cur[u]
                /\ oldest'[u] = oldest[u] /\ to_remove'[u] = to_remove[u]
      BY <1>0, <1>15 DEF CompactCollected, Goto
    <2>3. /\ \A id \in Doomed(t)' : id \in Doomed(t)
          /\ pc'[t] \in Deleting => t \in Deleters
          /\ pc'[t] \notin Deleting => oldest'[t] = 0
          /\ oldest'[t] = 0 => to_remove'[t] = {}
          /\ pc'[t] = "remove" => cur'[t] \notin to_remove'[t]
      BY <1>0, <1>15 DEF CompactCollected, Goto, Doomed, SweepInv, Deleting
    <2> QED BY <1>0, <1>a, <2>1, <2>2, <2>3, SweepStays
  <1>16. CASE CompactNext(t)
    <2>1. PICK i \in to_remove[t] :
             Doom(t, i) /\ to_remove' = [to_remove EXCEPT ![t] = @ \ {i}]
      BY <1>16 DEF CompactNext
    <2>2. /\ UNCHANGED <<nodes, oldest>> /\ pc[t] = "sweep"
          /\ pc' = [pc EXCEPT ![t] = "remove"] /\ cur' = [cur EXCEPT ![t] = i]
      BY <1>16, <2>1 DEF CompactNext, mem, Doom, Goto
    <2>3. \A u \in Threads \ {t} : pc'[u] = pc[u] /\ cur'[u] = cur[u]
                /\ oldest'[u] = oldest[u] /\ to_remove'[u] = to_remove[u]
      BY <1>0, <2>1, <2>2
    <2>4. \A id \in Doomed(t)' : id \in Doomed(t)
      BY <1>0, <2>1, <2>2 DEF Doomed
    <2>5. /\ pc'[t] = "remove" /\ t \in Deleters /\ cur'[t] \notin to_remove'[t]
          /\ oldest'[t] # 0
      BY <1>0, <2>1, <2>2 DEF SweepInv, Deleting
    <2> QED BY <1>0, <1>a, <2>2, <2>3, <2>4, <2>5, SweepStays DEF Deleting
  <1>17. CASE CompactDone(t)
    <2>1. nodes' = nodes
      BY <1>17 DEF CompactDone, mem
    <2>2. \A u \in Threads \ {t} : pc'[u] = pc[u] /\ cur'[u] = cur[u]
                /\ oldest'[u] = oldest[u] /\ to_remove'[u] = to_remove[u]
      BY <1>0, <1>17 DEF CompactDone, Goto
    <2>3. /\ \A id \in Doomed(t)' : id \in Doomed(t)
          /\ pc'[t] \in Deleting => t \in Deleters
          /\ pc'[t] \notin Deleting => oldest'[t] = 0
          /\ oldest'[t] = 0 => to_remove'[t] = {}
          /\ pc'[t] = "remove" => cur'[t] \notin to_remove'[t]
      BY <1>0, <1>17 DEF CompactDone, Goto, Doomed, SweepInv, Deleting
    <2> QED BY <1>0, <1>a, <2>1, <2>2, <2>3, SweepStays
  <1> QED
    BY <1>1, <1>2, <1>3, <1>4, <1>5, <1>6, <1>7, <1>8, <1>9, <1>10, <1>11, <1>12, <1>13, <1>14, <1>15, <1>16, <1>17 DEF Step

\* As long as one thread deletes, compact never removes a live node: an id it
\* has seen dead cannot be freed and reused before compact comes to it.
THEOREM CompactionSparesTheLiving ==
  ASSUME OneLifetime, OneDeleter PROVE Spec => []SweepIsDead
  <1>1. Init => SweepInv
    BY DEF Init, SweepInv, SweepIsDead, Doomed, Deleting
  <1>2. Inv /\ SweepInv /\ [Next]_vars => SweepInv'
    <2>1. ASSUME Inv, SweepInv, NEW t \in Threads, Step(t) PROVE SweepInv'
      BY <2>1, StepSweep
    <2>2. ASSUME SweepInv, UNCHANGED <<nodes, pc, cur, oldest, to_remove>>
          PROVE  SweepInv'
      BY <2>2 DEF SweepInv, SweepIsDead, Doomed
    <2>3. flush \/ UNCHANGED vars => UNCHANGED <<nodes, pc, cur, oldest, to_remove>>
      BY DEF flush, vars, mem, call
    <2>4. Inv => ~Crash /\ ~Open
      BY DEF Inv, StaysUp, Crash, Open, OneLifetime
    <2> QED
      BY <2>1, <2>2, <2>3, <2>4 DEF Next
  <1>3. SweepInv => SweepIsDead
    BY DEF SweepInv
  <1> QED
    BY InvHolds, <1>1, <1>2, <1>3, PTL DEF Spec
-----------------------------------------------------------------------------
(* Induction                                                               *)

\* Every nonempty set of naturals has a least element.
LEMMA LeastNatural == ASSUME NEW T \in SUBSET Nat, T # {} PROVE \E x \in T : \A y \in T : x <= y
  <1> DEFINE R == {ss \in Nat \X Nat : ss[1] < ss[2]}
  <1>1. IsWellFoundedOn(R, Nat)
    BY NatLessThanWellFounded, Zenon DEF OpToRel
  <1>2. PICK x \in T : \A y \in T : ~(<<y, x>> \in R)
    <2> HIDE DEF R
    <2> QED
      BY <1>1, WFMin
  <1>3. \A y \in T : ~(y < x)
    BY <1>2
  <1> QED
    BY <1>3

\* A set with 0 that is closed under successors up to N has all up to N.
LEMMA UpTo ==
  ASSUME NEW N \in Nat, NEW S, 0 \in S, \A n \in 0 .. N - 1 : n \in S => n + 1 \in S
  PROVE  \A n \in 0 .. N : n \in S
  <1> SUFFICES ASSUME NEW m \in 0 .. N, m \notin S PROVE FALSE
    OBVIOUS
  <1> DEFINE T == {n \in 0 .. N : n \notin S}
  <1>1. T \in SUBSET Nat /\ T # {}
    OBVIOUS
  <1>2. PICK x \in T : \A y \in T : x <= y
    <2> HIDE DEF T
    <2> QED
      BY <1>1, LeastNatural
  <1>3. x \in 1 .. N /\ x - 1 \in 0 .. N - 1 /\ (x - 1) + 1 = x
    BY <1>2
  <1>4. x - 1 \in S
    BY <1>2, <1>3
  <1> QED
    BY <1>2, <1>3, <1>4

-----------------------------------------------------------------------------
(* Recovery                                                                *)

\* What the replay goes through: every id in the map or in the free list is
\* at most the largest id seen.
Recovered == {s \in [nodes : [Ids -> Node \cup {Absent}], max_id : Ids \cup {0},
                     free_list : Seq(Ids), total_ever : Nat] :
                 /\ \A id \in Ids : s.nodes[id] # Absent => id <= s.max_id
                 /\ \A i \in DOMAIN s.free_list : s.free_list[i] <= s.max_id}

\* One record.
LEMMA ApplyIs ==
  /\ Empty \in Recovered
  /\ \A s \in Recovered, r \in Record :
        /\ Apply(s, r) \in Recovered
        /\ \A id \in Ids : Apply(s, r).nodes[id] =
              IF id # r.id THEN s.nodes[id] ELSE IF r.op = INSERT THEN r.node ELSE Absent
  <1> USE BoundsAssumption
  <1>0. \A id \in Ids \cup {0} : id \in Nat
    BY DEF Ids
  <1>1. Empty \in Recovered
    <2>1. <<>> \in Seq(Ids) /\ DOMAIN <<>> = {}
      OBVIOUS
    <2> QED
      BY <2>1 DEF Empty, Recovered
  <1>2. ASSUME NEW s \in Recovered, NEW r \in Record, r.op = INSERT
        PROVE  /\ Apply(s, r) \in Recovered
               /\ \A id \in Ids : Apply(s, r).nodes[id] = IF id # r.id THEN s.nodes[id] ELSE r.node
    <2> DEFINE m == IF r.id > s.max_id THEN r.id ELSE s.max_id
               ns == [s.nodes EXCEPT ![r.id] = r.node]
    <2>1. /\ s.nodes \in [Ids -> Node \cup {Absent}] /\ s.max_id \in Ids \cup {0} /\ s.free_list \in Seq(Ids)
          /\ s.total_ever \in Nat /\ r.id \in Ids /\ r.node \in Node \cup {Absent}
          /\ \A id \in Ids : s.nodes[id] # Absent => id <= s.max_id
          /\ \A i \in DOMAIN s.free_list : s.free_list[i] <= s.max_id
      BY DEF Recovered, Record
    <2>2. Apply(s, r) = [nodes |-> ns, max_id |-> m, free_list |-> s.free_list, total_ever |-> s.total_ever + 1]
      BY <1>2 DEF Apply
    <2>3. m \in Ids \cup {0} /\ s.max_id <= m /\ r.id <= m /\ s.total_ever + 1 \in Nat /\ m \in Nat
      BY <1>0, <2>1
    <2>4. /\ ns \in [Ids -> Node \cup {Absent}]
          /\ \A id \in Ids : ns[id] = IF id # r.id THEN s.nodes[id] ELSE r.node
      BY <2>1
    <2> HIDE DEF m, ns
    <2>5. \A id \in Ids : ns[id] # Absent => id <= m
      <3> SUFFICES ASSUME NEW id \in Ids, ns[id] # Absent PROVE id <= m
        OBVIOUS
      <3>1. CASE id = r.id
        BY <2>3, <3>1
      <3>2. CASE id # r.id
        <4> DEFINE k == s.max_id
        <4>1. id <= k /\ id \in Nat /\ k \in Nat /\ k <= m /\ m \in Nat
          BY <1>0, <2>1, <2>3, <2>4, <3>2
        <4> HIDE DEF k
        <4> QED
          BY <4>1
      <3> QED
        BY <3>1, <3>2
    <2>6. \A i \in DOMAIN s.free_list : s.free_list[i] <= m
      <3> SUFFICES ASSUME NEW i \in DOMAIN s.free_list PROVE s.free_list[i] <= m
        OBVIOUS
      <3> DEFINE f == s.free_list[i]
      <3>1. f \in Nat /\ f <= s.max_id /\ s.max_id \in Nat
        BY <1>0, <2>1
      <3> HIDE DEF f
      <3>2. f <= m
        BY <2>3, <3>1
      <3> QED
        BY <3>2 DEF f
    <2>7. Apply(s, r) \in Recovered
      BY <2>1, <2>2, <2>3, <2>4, <2>5, <2>6 DEF Recovered
    <2> QED
      BY <2>2, <2>4, <2>7
  <1>3. ASSUME NEW s \in Recovered, NEW r \in Record, r.op # INSERT, s.nodes[r.id] # Absent
        PROVE  /\ Apply(s, r) \in Recovered
               /\ \A id \in Ids : Apply(s, r).nodes[id] = IF id # r.id THEN s.nodes[id] ELSE Absent
    <2> DEFINE ns == [s.nodes EXCEPT ![r.id] = Absent]
               fl == Append(s.free_list, r.id)
    <2>1. /\ s.nodes \in [Ids -> Node \cup {Absent}] /\ s.max_id \in Ids \cup {0} /\ s.free_list \in Seq(Ids)
          /\ s.total_ever \in Nat /\ r.id \in Ids
          /\ \A id \in Ids : s.nodes[id] # Absent => id <= s.max_id
          /\ \A i \in DOMAIN s.free_list : s.free_list[i] <= s.max_id
      BY DEF Recovered, Record
    <2>2. Apply(s, r) = [nodes |-> ns, max_id |-> s.max_id, free_list |-> fl, total_ever |-> s.total_ever]
      BY <1>3 DEF Apply
    <2>3. /\ ns \in [Ids -> Node \cup {Absent}]
          /\ \A id \in Ids : ns[id] = IF id # r.id THEN s.nodes[id] ELSE Absent
      BY <2>1
    <2>4. fl \in Seq(Ids) /\ \A i \in DOMAIN fl : fl[i] = r.id \/ (i \in DOMAIN s.free_list /\ fl[i] = s.free_list[i])
      BY <2>1
    <2> HIDE DEF ns, fl
    <2>5. r.id <= s.max_id
      BY <1>3, <2>1
    <2>6. \A i \in DOMAIN fl : fl[i] <= s.max_id
      BY <2>1, <2>4, <2>5
    <2>7. \A id \in Ids : ns[id] # Absent => id <= s.max_id
      BY <2>1, <2>3
    <2>8. Apply(s, r) \in Recovered
      BY <2>1, <2>2, <2>3, <2>4, <2>6, <2>7 DEF Recovered
    <2> QED
      BY <2>2, <2>3, <2>8
  <1>4. ASSUME NEW s \in Recovered, NEW r \in Record, r.op # INSERT, s.nodes[r.id] = Absent
        PROVE  /\ Apply(s, r) \in Recovered
               /\ \A id \in Ids : Apply(s, r).nodes[id] = IF id # r.id THEN s.nodes[id] ELSE Absent
    BY <1>4 DEF Apply
  <1> QED
    BY <1>1, <1>2, <1>3, <1>4

\* The replay is what its recursion says.
LEMMA ReplayedIs ==
  ASSUME NEW l \in Seq(Record)
  PROVE  /\ Replayed(l) \in [0 .. Len(l) -> Recovered] /\ Replayed(l)[0] = Empty
         /\ \A n \in 1 .. Len(l) : Replayed(l)[n] = Apply(Replayed(l)[n - 1], l[n])
  <1> DEFINE Goes(f, n) == f[0] = Empty /\ \A m \in 1 .. n : f[m] = Apply(f[m - 1], l[m])
             S == {n \in 0 .. Len(l) : \E f \in [0 .. n -> Recovered] : Goes(f, n)}
             Unfold(f) == [n \in 0 .. Len(l) |-> IF n = 0 THEN Empty ELSE Apply(f[n - 1], l[n])]
  <1>0. Len(l) \in Nat /\ \A n \in 1 .. Len(l) : l[n] \in Record
    OBVIOUS
  <1>1. 0 \in S
    <2> DEFINE f == [m \in 0 .. 0 |-> Empty]
    <2>1. f \in [0 .. 0 -> Recovered] /\ f[0] = Empty
      BY ApplyIs
    <2>2. 0 \in 0 .. Len(l) /\ \A m \in 1 .. 0 : FALSE
      BY <1>0
    <2> HIDE DEF f
    <2>3. Goes(f, 0)
      BY <2>1, <2>2
    <2> QED
      BY <2>1, <2>2, <2>3
  <1>2. ASSUME NEW n \in 0 .. Len(l) - 1, n \in S PROVE n + 1 \in S
    <2>1. PICK f \in [0 .. n -> Recovered] : Goes(f, n)
      BY <1>2
    <2> DEFINE g == [m \in 0 .. n + 1 |-> IF m <= n THEN f[m] ELSE Apply(f[n], l[n + 1])]
    <2>2. n \in 0 .. n /\ n + 1 \in 1 .. Len(l) /\ n + 1 \in 0 .. Len(l) /\ n \in Nat
      BY <1>0
    <2>3. Apply(f[n], l[n + 1]) \in Recovered
      BY <1>0, <2>1, <2>2, ApplyIs
    <2>4. g \in [0 .. n + 1 -> Recovered]
      BY <2>1, <2>2, <2>3
    <2>5. \A m \in 0 .. n : m \in 0 .. n + 1 /\ g[m] = f[m]
      BY <2>2
    <2>6. g[n + 1] = Apply(g[n], l[n + 1])
      BY <2>2, <2>5
    <2> HIDE DEF g
    <2>7. ASSUME NEW m \in 1 .. n + 1 PROVE g[m] = Apply(g[m - 1], l[m])
      <3>1. CASE m = n + 1
        BY <2>2, <2>6, <3>1
      <3>2. CASE m # n + 1
        <4>1. m \in 1 .. n /\ m \in 0 .. n /\ m - 1 \in 0 .. n
          BY <2>2, <2>7, <3>2
        <4> QED
          BY <2>1, <2>5, <4>1
      <3> QED
        BY <3>1, <3>2
    <2>8. Goes(g, n + 1)
      BY <2>1, <2>2, <2>5, <2>7
    <2> QED
      BY <2>2, <2>4, <2>8
  <1>3. PICK f \in [0 .. Len(l) -> Recovered] : Goes(f, Len(l))
    <2>1. \A n \in 0 .. Len(l) : n \in S
      <3> HIDE DEF S
      <3> QED
        BY <1>0, <1>1, <1>2, UpTo
    <2>2. Len(l) \in 0 .. Len(l)
      BY <1>0
    <2> QED
      BY <2>1, <2>2
  <1>4. f = Unfold(f)
    <2>1. \A n \in 0 .. Len(l) : f[n] = IF n = 0 THEN Empty ELSE Apply(f[n - 1], l[n])
      BY <1>0, <1>3
    <2> QED
      BY <2>1
  <1>5. Replayed(l) = CHOOSE h : h = Unfold(h)
    BY DEF Replayed
  <1>6. Replayed(l) = Unfold(Replayed(l))
    <2> DEFINE P(h) == h = Unfold(h)
    <2>1. P(f) /\ Replayed(l) = CHOOSE h : P(h)
      BY <1>4, <1>5
    <2>2. P(CHOOSE h : P(h))
      <3> HIDE DEF P
      <3> QED
        BY <2>1
    <2> QED
      BY <2>1, <2>2
  <1>7. /\ Replayed(l)[0] = Empty
        /\ \A n \in 1 .. Len(l) : Replayed(l)[n] = Apply(Replayed(l)[n - 1], l[n])
    <2> DEFINE h == Replayed(l)
    <2>1. h = Unfold(h)
      BY <1>6
    <2> HIDE DEF h
    <2>2. h[0] = Empty /\ \A n \in 1 .. Len(l) : h[n] = Apply(h[n - 1], l[n])
      BY <1>0, <2>1
    <2> QED
      BY <2>2 DEF h
  <1>8. \A n \in 0 .. Len(l) : Replayed(l)[n] \in Recovered
    <2> DEFINE G == {n \in 0 .. Len(l) : Replayed(l)[n] \in Recovered}
    <2>1. 0 \in G
      BY <1>0, <1>7, ApplyIs
    <2>2. ASSUME NEW n \in 0 .. Len(l) - 1, n \in G PROVE n + 1 \in G
      <3>1. n + 1 \in 1 .. Len(l) /\ (n + 1) - 1 = n /\ n + 1 \in 0 .. Len(l)
        BY <1>0
      <3>2. Replayed(l)[n + 1] = Apply(Replayed(l)[n], l[n + 1])
        BY <1>7, <3>1
      <3>3. Replayed(l)[n] \in Recovered /\ l[n + 1] \in Record
        BY <1>0, <2>2, <3>1
      <3> QED
        BY <3>1, <3>2, <3>3, ApplyIs
    <2>3. \A n \in 0 .. Len(l) : n \in G
      <3> HIDE DEF G
      <3> QED
        BY <1>0, <2>1, <2>2, UpTo
    <2> QED
      BY <2>3
  <1>9. Replayed(l) \in [0 .. Len(l) -> Recovered]
    <2> DEFINE h == Replayed(l)
    <2>1. h = Unfold(h) /\ \A n \in 0 .. Len(l) : h[n] \in Recovered
      BY <1>6, <1>8
    <2> HIDE DEF h
    <2>2. h = [n \in 0 .. Len(l) |-> h[n]]
      BY <2>1
    <2>3. h \in [0 .. Len(l) -> Recovered]
      BY <2>1, <2>2
    <2> QED
      BY <2>3 DEF h
  <1> QED
    BY <1>7, <1>9

\* The replay of one more record is one more step of the replay.
LEMMA ReplayAppend ==
  ASSUME NEW l \in Seq(Record), NEW r \in Record
  PROVE  replay_wal(Append(l, r)) = Apply(replay_wal(l), r)
  <1> DEFINE k == Append(l, r)
             S == {n \in 0 .. Len(l) : Replayed(k)[n] = Replayed(l)[n]}
  <1>0. /\ Len(l) \in Nat /\ k \in Seq(Record) /\ Len(k) = Len(l) + 1 /\ k[Len(l) + 1] = r
        /\ \A n \in 1 .. Len(l) : k[n] = l[n]
    OBVIOUS
  <1> HIDE DEF k
  <1>1. 0 \in S
    BY <1>0, ReplayedIs
  <1>2. ASSUME NEW n \in 0 .. Len(l) - 1, n \in S PROVE n + 1 \in S
    <2>1. n + 1 \in 1 .. Len(l) /\ n + 1 \in 1 .. Len(k) /\ (n + 1) - 1 = n /\ n + 1 \in 0 .. Len(l)
      BY <1>0
    <2>2. Replayed(k)[n + 1] = Apply(Replayed(k)[n], k[n + 1])
      BY <1>0, <2>1, ReplayedIs
    <2>3. Replayed(l)[n + 1] = Apply(Replayed(l)[n], l[n + 1])
      BY <2>1, ReplayedIs
    <2> QED
      BY <1>0, <1>2, <2>1, <2>2, <2>3
  <1>3. Len(l) \in S
    <2> HIDE DEF S
    <2>1. \A n \in 0 .. Len(l) : n \in S
      BY <1>0, <1>1, <1>2, UpTo
    <2>2. Len(l) \in 0 .. Len(l)
      BY <1>0
    <2> QED
      BY <2>1, <2>2
  <1>4. Replayed(k)[Len(k)] = Apply(Replayed(k)[Len(l)], k[Len(l) + 1])
    <2>1. Len(k) \in 1 .. Len(k) /\ Len(k) - 1 = Len(l)
      BY <1>0
    <2>2. Replayed(k)[Len(k)] = Apply(Replayed(k)[Len(k) - 1], k[Len(k)])
      BY <1>0, <2>1, ReplayedIs
    <2> QED
      BY <1>0, <2>1, <2>2
  <1> QED
    BY <1>0, <1>3, <1>4 DEF replay_wal, k

\* An empty log recovers an empty store.
LEMMA ReplayNothing == replay_wal(<<>>) = Empty
  <1>1. <<>> \in Seq(Record) /\ Len(<<>>) = 0
    OBVIOUS
  <1> QED
    BY <1>1, ReplayedIs DEF replay_wal

\* What is recovered.
LEMMA ReplayType == ASSUME NEW l \in Seq(Record) PROVE replay_wal(l) \in Recovered
  <1>1. Len(l) \in 0 .. Len(l)
    BY LenProperties
  <1> QED
    BY <1>1, ReplayedIs DEF replay_wal
-----------------------------------------------------------------------------
(* Through crashes and recoveries                                          *)

ClosedIsIdle == ~up => \A t \in Threads : pc[t] = "idle"

LivesInv == TypeOK /\ ClosedIsIdle /\ FreshIsUnused

\* What recovery sets.
LEMMA OpenIs ==
  ASSUME TypeOK, Open
  PROVE  /\ MemTypeOK' /\ replay_wal(log) \in Recovered
         /\ \A id \in Ids : nodes'[id] # Absent => id < next_id'
         /\ \A i \in DOMAIN free_list' : free_list'[i] < next_id'
  <1> DEFINE s == replay_wal(log)
  <1>1. log \in Seq(Record)
    BY DEF TypeOK, WalTypeOK
  <1>2. s \in Recovered /\ (log = <<>> => s = Empty)
    BY <1>1, ReplayType, ReplayNothing
  <1>3. /\ nodes' = s.nodes /\ next_id' = (IF log = <<>> THEN 0 ELSE s.max_id + 1)
        /\ free_list' = s.free_list /\ free_count' = Len(s.free_list) % CountMod /\ total_ever' = s.total_ever
    BY DEF Open
  <1> HIDE DEF s
  <1>4. /\ s.nodes \in [Ids -> Node \cup {Absent}] /\ s.max_id \in Ids \cup {0} /\ s.free_list \in Seq(Ids)
        /\ s.total_ever \in Nat
        /\ \A id \in Ids : s.nodes[id] # Absent => id <= s.max_id
        /\ \A i \in DOMAIN s.free_list : s.free_list[i] <= s.max_id
    BY <1>2 DEF Recovered
  <1>5. log # <<>> => s.max_id \in Ids
    <2>1. ASSUME log # <<>> PROVE 0 \in Ids
      <3>1. log[1] \in Record
        BY <1>1, <2>1
      <3>2. log[1].id \in Ids
        BY <3>1 DEF Record
      <3> QED
        BY <3>2, BoundsAssumption DEF Ids
    <2> QED
      BY <1>4, <2>1
  <1>6. next_id' \in 0 .. MaxIds
    BY <1>3, <1>5, BoundsAssumption DEF Ids
  <1>7. Len(s.free_list) \in Int
    BY <1>4, LenProperties
  <1>8. free_count' \in 0 .. CountMod - 1
    BY <1>3, <1>7, ModRange
  <1>9. MemTypeOK'
    BY <1>3, <1>4, <1>6, <1>8 DEF MemTypeOK
  <1>10. CASE log = <<>>
    <2>1. s.nodes = [i \in Ids |-> Absent] /\ s.free_list = <<>>
      BY <1>2, <1>10 DEF Empty
    <2> QED
      BY <1>2, <1>3, <1>9, <2>1 DEF s
  <1>11. CASE log # <<>>
    <2> DEFINE m == s.max_id
    <2>1. m \in Nat /\ next_id' = m + 1
      BY <1>3, <1>5, <1>11 DEF Ids
    <2>2. \A id \in Ids : id \in Nat
      BY DEF Ids
    <2>3. \A i \in DOMAIN s.free_list : s.free_list[i] \in Nat
      BY <1>4, <2>2
    <2>4. \A id \in Ids : nodes'[id] # Absent => id <= m
      BY <1>3, <1>4
    <2>5. \A i \in DOMAIN s.free_list : s.free_list[i] <= m
      BY <1>4
    <2> HIDE DEF m
    <2>6. \A n \in Nat : n <= m => n < m + 1
      BY <2>1
    <2> QED
      BY <1>2, <1>3, <1>9, <2>1, <2>2, <2>3, <2>4, <2>5, <2>6 DEF s
  <1> QED
    BY <1>10, <1>11

\* Crashes and recoveries keep the types too.
LEMMA TypeStep == ASSUME TypeOK, [Next]_vars PROVE TypeOK'
  <1>1. CASE \E t \in Threads : Step(t)
    BY <1>1, StepType
  <1>2. CASE flush
    <2>1. Len(log) \in Nat
      BY DEF TypeOK, WalTypeOK
    <2> QED
      BY <1>2, <2>1 DEF flush, mem, call, TypeOK, MemTypeOK, WalTypeOK, CallTypeOK
  <1>3. CASE Crash
    <2>1. PICK n \in synced .. Len(log) : log' = SubSeq(log, 1, n) /\ synced' = n
      BY <1>3 DEF Crash
    <2>2. log \in Seq(Record) /\ synced \in 0 .. Len(log) /\ Len(log) \in Nat
      BY LenProperties DEF TypeOK, WalTypeOK
    <2>3. n \in 0 .. Len(log)
      BY <2>2
    <2>4. log' \in Seq(Record) /\ Len(log') = n
      <3>1. \A i \in 1 .. n : log[i] \in Record
        BY <2>2, <2>3
      <3> QED
        BY <2>1, <2>2, <2>3, <3>1, SubSeqProperties
    <2>5. WalTypeOK'
      BY <2>1, <2>3, <2>4 DEF WalTypeOK
    <2>6. MemTypeOK'
      BY <1>3 DEF Crash, mem, TypeOK, MemTypeOK
    <2>7. CallTypeOK'
      BY <1>3, BoundsAssumption DEF Crash, CallTypeOK, Labels, Naming, MAX_TX_ID
    <2>8. up' \in BOOLEAN /\ crashes' \in 0 .. MaxCrashes
      <3>1. up' = FALSE /\ crashes' = crashes + 1 /\ crashes < MaxCrashes /\ crashes \in 0 .. MaxCrashes
        BY <1>3 DEF Crash, TypeOK
      <3>2. crashes' \in 0 .. MaxCrashes
        BY <3>1, BoundsAssumption
      <3> QED
        BY <3>1, <3>2
    <2> QED
      BY <2>5, <2>6, <2>7, <2>8 DEF TypeOK
  <1>4. CASE Open
    <2>1. MemTypeOK'
      BY <1>4, OpenIs
    <2>2. UNCHANGED <<log, synced, pc, cur, own, oldest, todo, to_remove, crashes>> /\ up' = TRUE
      BY <1>4 DEF Open, wal, call
    <2> QED
      BY <2>1, <2>2 DEF TypeOK, WalTypeOK, CallTypeOK
  <1>5. CASE UNCHANGED vars
    BY <1>5 DEF vars, mem, wal, call, TypeOK, MemTypeOK, WalTypeOK, CallTypeOK
  <1> QED
    BY <1>1, <1>2, <1>3, <1>4, <1>5 DEF Next

\* A call runs on an open store, and leaves it open.
LEMMA StepIsUp == ASSUME NEW t \in Threads, Step(t) PROVE up /\ up' = up
  BY DEF Step, AllocPop, AllocSub, AllocFresh, Abandon, InsertMem, InsertLog, Update, soft_delete, Replace,
         hard_delete, Remove, Push, CountFreed, Compact, CompactScan, CompactCollected, CompactNext, CompactDone

\* A step after which everything in use was in use before, or is below
\* next_id.
LEMMA FreshStays ==
  ASSUME TypeOK, TypeOK', up, FreshIsUnused, next_id <= next_id',
         \A id \in Ids : nodes'[id] # Absent => nodes[id] # Absent \/ id < next_id,
         \A i \in DOMAIN free_list' : free_list'[i] < next_id \/ \E j \in DOMAIN free_list : free_list'[i] = free_list[j],
         \A u \in Threads : Holds(u)' => (Holds(u) /\ cur'[u] = cur[u]) \/ cur'[u] < next_id'
  PROVE  FreshIsUnused'
  <1>0. next_id \in Nat /\ next_id' \in Nat
    BY BoundsAssumption DEF TypeOK, MemTypeOK
  <1>1. \A n \in Nat : n < next_id => n < next_id'
    BY <1>0
  <1>2. /\ \A id \in Ids : id \in Nat
        /\ \A i \in DOMAIN free_list' : free_list'[i] \in Nat
        /\ \A u \in Threads : cur[u] \in Nat
    <2>1. \A id \in Ids : id \in Nat
      BY DEF Ids
    <2>2. free_list' \in Seq(Ids) /\ cur \in [Threads -> Nat]
      BY DEF TypeOK, MemTypeOK, CallTypeOK
    <2> QED
      BY <2>1, <2>2
  <1>3. /\ \A id \in Ids : nodes[id] # Absent => id < next_id
        /\ \A i \in DOMAIN free_list : free_list[i] < next_id
        /\ \A u \in Threads : Holds(u) => cur[u] < next_id
    BY DEF FreshIsUnused
  <1>4. \A id \in Ids : nodes'[id] # Absent => id < next_id'
    BY <1>1, <1>2, <1>3
  <1>5. \A i \in DOMAIN free_list' : free_list'[i] < next_id'
    BY <1>1, <1>2, <1>3
  <1>6. \A u \in Threads : Holds(u)' => cur'[u] < next_id'
    BY <1>1, <1>2, <1>3
  <1> QED
    BY <1>4, <1>5, <1>6 DEF FreshIsUnused

\* A call takes its ids from the free list, from next_id or from the map.
LEMMA FreshStep ==
  ASSUME TypeOK, TypeOK', FreshIsUnused, NEW t \in Threads, Step(t) PROVE FreshIsUnused'
  <1>0. /\ pc \in [Threads -> Labels] /\ cur \in [Threads -> Nat] /\ up
        /\ nodes \in [Ids -> Node \cup {Absent}] /\ free_list \in Seq(Ids) /\ next_id \in Nat
        /\ next_id <= next_id
    BY StepIsUp, BoundsAssumption DEF TypeOK, CallTypeOK, MemTypeOK
  \* Steps that leave the map, the queue and next_id alone.
  <1>a. ASSUME UNCHANGED <<nodes, free_list, next_id>>,
               \A u \in Threads : Holds(u)' => Holds(u) /\ cur'[u] = cur[u]
        PROVE  FreshIsUnused'
    BY <1>0, <1>a, FreshStays
  <1>1. CASE AllocPop(t)
    <2>1. CASE free_list # <<>>
      <3>1. /\ free_list' = Tail(free_list) /\ nodes' = nodes /\ next_id' = next_id
            /\ pc' = [pc EXCEPT ![t] = "sub"] /\ cur' = [cur EXCEPT ![t] = Head(free_list)]
        BY <1>1, <2>1 DEF AllocPop, Goto
      <3>2. /\ Head(free_list) = free_list[1] /\ 1 \in DOMAIN free_list
            /\ \A i \in DOMAIN Tail(free_list) : Tail(free_list)[i] = free_list[i + 1] /\ i + 1 \in DOMAIN free_list
        BY <1>0, <2>1
      <3>3. free_list[1] < next_id
        BY <1>0, <3>2 DEF FreshIsUnused
      <3>4. \A u \in Threads : Holds(u)' => (Holds(u) /\ cur'[u] = cur[u]) \/ cur'[u] < next_id
        BY <1>0, <3>1, <3>2, <3>3 DEF Holds
      <3> QED
        BY <1>0, <3>1, <3>2, <3>4, FreshStays
    <2>2. CASE free_list = <<>>
      <3>1. /\ UNCHANGED <<nodes, free_list, next_id>>
            /\ \A u \in Threads : Holds(u)' => Holds(u) /\ cur'[u] = cur[u]
        BY <1>0, <1>1, <2>2 DEF AllocPop, Goto, Holds
      <3> QED
        BY <1>a, <3>1
    <2> QED
      BY <2>1, <2>2
  <1>2. CASE AllocSub(t)
    <2>1. /\ UNCHANGED <<nodes, free_list, next_id>>
          /\ \A u \in Threads : Holds(u)' => Holds(u) /\ cur'[u] = cur[u]
      BY <1>0, <1>2 DEF AllocSub, Goto, Holds
    <2> QED
      BY <1>a, <2>1
  <1>3. CASE AllocFresh(t)
    <2>1. /\ UNCHANGED <<nodes, free_list>> /\ next_id' = next_id + 1
          /\ pc' = [pc EXCEPT ![t] = "reserved"] /\ cur' = [cur EXCEPT ![t] = next_id]
      BY <1>3 DEF AllocFresh, Goto
    <2>2. next_id <= next_id' /\ next_id < next_id'
      BY <1>0, <2>1
    <2>3. \A u \in Threads : Holds(u)' => (Holds(u) /\ cur'[u] = cur[u]) \/ cur'[u] < next_id'
      BY <1>0, <2>1, <2>2 DEF Holds
    <2> QED
      BY <1>0, <2>1, <2>2, <2>3, FreshStays
  <1>4. CASE Abandon(t) \/ InsertLog(t) \/ CountFreed(t)
    <2>1. /\ UNCHANGED <<nodes, free_list, next_id>>
          /\ \A u \in Threads : Holds(u)' => Holds(u) /\ cur'[u] = cur[u]
      BY <1>0, <1>4, BackType DEF Abandon, InsertLog, CountFreed, Leave, Goto, Holds, mem
    <2> QED
      BY <1>a, <2>1
  <1>5. CASE InsertMem(t)
    <2>1. PICK n : nodes' = [nodes EXCEPT ![cur[t]] = n]
      BY <1>5 DEF InsertMem
    <2>2. /\ UNCHANGED <<free_list, next_id, cur>> /\ pc' = [pc EXCEPT ![t] = "log"] /\ Holds(t)
      BY <1>5 DEF InsertMem, Goto, Holds
    <2>3. cur[t] < next_id
      BY <1>0, <2>2 DEF FreshIsUnused
    <2>4. \A id \in Ids : nodes'[id] # Absent => nodes[id] # Absent \/ id < next_id
      BY <1>0, <2>1, <2>3
    <2>5. \A u \in Threads : Holds(u)' => Holds(u)
      BY <1>0, <2>2 DEF Holds
    <2> QED
      BY <1>0, <2>2, <2>4, <2>5, FreshStays
  <1>6. ASSUME NEW id \in Ids, NEW n, Replace(t, id, n) PROVE FreshIsUnused'
    <2>1. nodes[id] # Absent /\ nodes' = [nodes EXCEPT ![id] = n] /\ UNCHANGED <<free_list, next_id, pc, cur>>
      BY <1>6 DEF Replace, call
    <2>2. \A i \in Ids : nodes'[i] # Absent => nodes[i] # Absent
      BY <1>0, <2>1
    <2> QED
      BY <1>0, <2>1, <2>2, FreshStays DEF Holds
  <1>7. CASE (\E id \in Ids : hard_delete(t, id)) \/ CompactNext(t)
    <2>1. /\ UNCHANGED <<nodes, free_list, next_id>>
          /\ \A u \in Threads : Holds(u)' => Holds(u) /\ cur'[u] = cur[u]
      BY <1>0, <1>7 DEF hard_delete, CompactNext, Doom, Goto, Holds, mem
    <2> QED
      BY <1>a, <2>1
  <1>8. CASE Remove(t)
    <2>1. /\ UNCHANGED <<free_list, next_id>> /\ nodes' = [nodes EXCEPT ![cur[t]] = Absent] /\ pc[t] = "remove"
      BY <1>8 DEF Remove
    <2>2. cur[t] \in Ids
      BY <2>1 DEF TypeOK, CallTypeOK, Naming
    <2>3. \A id \in Ids : nodes'[id] # Absent => nodes[id] # Absent
      BY <1>0, <2>1
    <2>4. CASE nodes[cur[t]] = Absent
      <3>1. \A u \in Threads : Holds(u)' => Holds(u) /\ cur'[u] = cur[u]
        BY <1>0, <1>8, <2>4, BackType DEF Remove, Leave, Goto, Holds
      <3> QED
        BY <1>0, <2>1, <2>3, <3>1, FreshStays
    <2>5. CASE nodes[cur[t]] # Absent
      <3>1. cur' = cur /\ pc' = [pc EXCEPT ![t] = "push"]
        BY <1>8, <2>5 DEF Remove, Goto
      <3>2. cur[t] < next_id
        BY <1>0, <2>2, <2>5 DEF FreshIsUnused
      <3>3. \A u \in Threads : Holds(u)' => (Holds(u) /\ cur'[u] = cur[u]) \/ cur'[u] < next_id
        BY <1>0, <3>1, <3>2 DEF Holds
      <3> QED
        BY <1>0, <2>1, <2>3, <3>3, FreshStays
    <2> QED
      BY <2>4, <2>5
  <1>9. CASE Push(t)
    <2>1. /\ free_list' = Append(free_list, cur[t]) /\ UNCHANGED <<nodes, next_id, cur>>
          /\ pc' = [pc EXCEPT ![t] = "count"] /\ Holds(t) /\ pc[t] = "push"
      BY <1>9 DEF Push, Goto, Holds
    <2>2. cur[t] < next_id /\ cur[t] \in Ids
      BY <1>0, <2>1 DEF FreshIsUnused, TypeOK, CallTypeOK, Naming
    <2>3. \A i \in DOMAIN free_list' : free_list'[i] < next_id \/ \E j \in DOMAIN free_list : free_list'[i] = free_list[j]
      BY <1>0, <2>1, <2>2
    <2>4. \A u \in Threads : Holds(u)' => Holds(u)
      BY <1>0, <2>1 DEF Holds
    <2> QED
      BY <1>0, <2>1, <2>3, <2>4, FreshStays
  <1>10. CASE Compact(t) \/ CompactScan(t) \/ CompactCollected(t) \/ CompactDone(t)
    <2>1. /\ UNCHANGED <<nodes, free_list, next_id>>
          /\ \A u \in Threads : Holds(u)' => Holds(u) /\ cur'[u] = cur[u]
      BY <1>0, <1>10 DEF Compact, CompactScan, CompactCollected, CompactDone, Goto, Holds, mem
    <2> QED
      BY <1>a, <2>1
  <1> QED
    BY <1>1, <1>2, <1>3, <1>4, <1>5, <1>6, <1>7, <1>8, <1>9, <1>10 DEF Step, Update, soft_delete

\* The invariant of all lifetimes is inductive.
LEMMA LivesStep == ASSUME LivesInv, [Next]_vars PROVE LivesInv'
  <1>0. TypeOK /\ TypeOK' /\ ClosedIsIdle /\ FreshIsUnused
    BY TypeStep DEF LivesInv
  <1>1. ASSUME NEW t \in Threads, Step(t) PROVE ClosedIsIdle' /\ FreshIsUnused'
    BY <1>0, <1>1, StepIsUp, FreshStep DEF ClosedIsIdle
  <1>2. CASE Crash
    BY <1>0, <1>2 DEF Crash, ClosedIsIdle, FreshIsUnused, LivesInv
  <1>3. CASE Open
    <2>1. /\ ~up /\ up' = TRUE /\ pc' = pc
          /\ \A id \in Ids : nodes'[id] # Absent => id < next_id'
          /\ \A i \in DOMAIN free_list' : free_list'[i] < next_id'
      <3>1. ~up /\ up' = TRUE /\ pc' = pc
        BY <1>3 DEF Open, call
      <3> QED
        BY <1>0, <1>3, <3>1, OpenIs
    <2>2. \A u \in Threads : ~Holds(u)'
      BY <1>0, <2>1 DEF ClosedIsIdle, Holds
    <2> QED
      BY <1>0, <2>1, <2>2 DEF ClosedIsIdle, FreshIsUnused, LivesInv
  <1>4. CASE flush \/ UNCHANGED vars
    <2>1. UNCHANGED <<nodes, free_list, next_id, pc, cur, up>>
      BY <1>4 DEF flush, vars, mem, call
    <2> QED
      BY <1>0, <2>1 DEF ClosedIsIdle, FreshIsUnused, Holds, LivesInv
  <1> QED
    BY <1>0, <1>1, <1>2, <1>3, <1>4 DEF Next, LivesInv

\* It holds of every state.
LEMMA AlwaysLivesInv == Spec => []LivesInv
  <1>1. Init => LivesInv
    BY InitType, BoundsAssumption DEF Init, LivesInv, ClosedIsIdle, FreshIsUnused, Holds, Ids
  <1>2. LivesInv /\ [Next]_vars => LivesInv'
    BY LivesStep
  <1> QED
    BY <1>1, <1>2, PTL DEF Spec

\* The types, the width of free_count included, through crashes and
\* recoveries.
THEOREM TypeCorrect == Spec => []TypeOK
  <1>1. LivesInv => TypeOK
    BY DEF LivesInv
  <1> QED
    BY AlwaysLivesInv, <1>1, PTL

\* A fresh id is above every id in use, also where next_id was computed from
\* the part of the log that survived a crash.
THEOREM FreshIdsAreNew == Spec => []FreshIsUnused
  <1>1. LivesInv => FreshIsUnused
    BY DEF LivesInv
  <1> QED
    BY AlwaysLivesInv, <1>1, PTL
-----------------------------------------------------------------------------
(* The log and the map                                                     *)

\* The calls that are part-way through an id are through different ids; the
\* map has what an insert has still to log; the log has what a delete has
\* still to do to the map.
LogInv ==
    /\ up /\ Persistent =>
          /\ \A t, u \in Threads : t # u /\ Changing(t) /\ Changing(u) => cur[t] # cur[u]
          /\ \A t \in Threads : pc[t] = "log" => nodes[cur[t]] = own[t]
          /\ \A t \in Threads : pc[t] = "remove" => replay_wal(log).nodes[cur[t]] = Absent
    /\ LogMatchesMemory

\* A step that leaves the log and the map alone and starts or ends no change.
LEMMA LogStays ==
  ASSUME LogInv, up, UNCHANGED <<nodes, log>>,
         \A u \in Threads : Changing(u)' => Changing(u),
         \A u \in Threads : Changing(u) => pc'[u] = pc[u] /\ cur'[u] = cur[u] /\ own'[u] = own[u]
  PROVE  LogInv'
  <1>1. \A u \in Threads : Changing(u)' => Changing(u) /\ pc'[u] = pc[u] /\ cur'[u] = cur[u] /\ own'[u] = own[u]
    OBVIOUS
  <1>2. \A u \in Threads, id \in Ids : (Changing(u) /\ cur[u] = id) => (Changing(u)' /\ cur'[u] = id)
    BY DEF Changing
  <1>3. LogMatchesMemory'
    BY <1>2 DEF LogInv, LogMatchesMemory
  <1>4. ASSUME Persistent
        PROVE  /\ \A t, u \in Threads : t # u /\ Changing(t)' /\ Changing(u)' => cur'[t] # cur'[u]
               /\ \A t \in Threads : pc'[t] = "log" => nodes'[cur'[t]] = own'[t]
               /\ \A t \in Threads : pc'[t] = "remove" => replay_wal(log').nodes[cur'[t]] = Absent
    <2>1. \A t \in Threads : pc'[t] \in {"log", "remove"} <=> Changing(t)'
      BY DEF Changing
    <2> QED
      BY <1>1, <1>4, <2>1 DEF LogInv
  <1> QED
    BY <1>3, <1>4 DEF LogInv

\* A record says of its id what it says and of the other ids nothing.
LEMMA SendIs ==
  ASSUME TypeOK, NEW r \in Record, Send(r), Persistent
  PROVE  \A id \in Ids : replay_wal(log').nodes[id] =
            IF id # r.id THEN replay_wal(log).nodes[id] ELSE IF r.op = INSERT THEN r.node ELSE Absent
  <1>1. log \in Seq(Record) /\ log' = Append(log, r)
    BY DEF Send, TypeOK, WalTypeOK
  <1>2. replay_wal(log') = Apply(replay_wal(log), r) /\ replay_wal(log) \in Recovered
    BY <1>1, ReplayAppend, ReplayType
  <1> QED
    BY <1>2, ApplyIs

\* Every step of a call, when callers keep away from an id that is changing.
LEMMA LogStep ==
  ASSUME Exclusive, TypeOK, TypeOK', LogInv, NEW t \in Threads, Step(t) PROVE LogInv'
  <1>0. /\ pc \in [Threads -> Labels] /\ cur \in [Threads -> Nat] /\ own \in [Threads -> Node \cup {Absent}] /\ up
        /\ nodes \in [Ids -> Node \cup {Absent}] /\ up' = up
        /\ \A u \in Threads : Changing(u) => cur[u] \in Ids
    BY StepIsUp DEF TypeOK, CallTypeOK, MemTypeOK, Changing, Naming
  <1>a. CASE ~Persistent
    BY <1>a DEF LogInv, LogMatchesMemory
  <1> DEFINE N == replay_wal(log).nodes
             N1 == replay_wal(log').nodes
  <1>b. ASSUME Persistent
        PROVE  /\ \A v, u \in Threads : v # u /\ Changing(v) /\ Changing(u) => cur[v] # cur[u]
               /\ \A u \in Threads : pc[u] = "log" => nodes[cur[u]] = own[u]
               /\ \A u \in Threads : pc[u] = "remove" => N[cur[u]] = Absent
               /\ \A id \in Ids : (\A u \in Threads : ~(Changing(u) /\ cur[u] = id)) => N[id] = nodes[id]
    BY <1>0, <1>b DEF LogInv, LogMatchesMemory
  \* What is to be shown.
  <1>c. ASSUME /\ \A v, u \in Threads : v # u /\ Changing(v)' /\ Changing(u)' => cur'[v] # cur'[u]
               /\ \A u \in Threads : pc'[u] = "log" => nodes'[cur'[u]] = own'[u]
               /\ \A u \in Threads : pc'[u] = "remove" => N1[cur'[u]] = Absent
               /\ \A id \in Ids : (\A u \in Threads : ~(Changing(u)' /\ cur'[u] = id)) => N1[id] = nodes'[id]
        PROVE  LogInv'
    BY <1>c DEF LogInv, LogMatchesMemory
  <1>d. log' = log => N1 = N
    OBVIOUS
  <1>e. \A u \in Threads : (pc[u] \in {"log", "remove"} <=> Changing(u)) /\ (pc'[u] \in {"log", "remove"} <=> Changing(u)')
    BY DEF Changing
  <1>1. CASE AllocPop(t) \/ AllocSub(t) \/ AllocFresh(t) \/ Push(t) \/ Compact(t) \/ CompactScan(t)
             \/ CompactCollected(t) \/ CompactDone(t) \/ Abandon(t) \/ CountFreed(t)
    <2>1. UNCHANGED <<nodes, log>> /\ ~Changing(t) /\ ~Changing(t)'
      BY <1>0, <1>1, BackType DEF AllocPop, AllocSub, AllocFresh, Push, Compact, CompactScan, CompactCollected, CompactDone,
             Abandon, CountFreed, Leave, Goto, Changing, mem, wal
    <2>2. \A u \in Threads \ {t} : pc'[u] = pc[u] /\ cur'[u] = cur[u] /\ own'[u] = own[u]
      BY <1>0, <1>1 DEF AllocPop, AllocSub, AllocFresh, Push, Compact, CompactScan, CompactCollected, CompactDone,
             Abandon, CountFreed, Leave, Goto
    <2>3. \A u \in Threads : Changing(u)' => Changing(u)
      BY <2>1, <2>2 DEF Changing
    <2>4. \A u \in Threads : Changing(u) => pc'[u] = pc[u] /\ cur'[u] = cur[u] /\ own'[u] = own[u]
      BY <2>1, <2>2
    <2> QED
      BY <1>0, <2>1, <2>3, <2>4, LogStays
  <1>2. CASE InsertMem(t) /\ Persistent
    <2>1. PICK n : nodes' = [nodes EXCEPT ![cur[t]] = n] /\ own' = [own EXCEPT ![t] = n]
      BY <1>2 DEF InsertMem
    <2>2. /\ UNCHANGED <<cur, log>> /\ pc' = [pc EXCEPT ![t] = "log"] /\ pc[t] = "reserved"
          /\ \A u \in Threads \ {t} : ~(Changing(u) /\ cur[u] = cur[t])
      BY <1>2 DEF InsertMem, Goto, wal, Clear
    <2>3. cur[t] \in Ids
      BY <2>2 DEF TypeOK, CallTypeOK, Naming
    <2>4. /\ nodes'[cur[t]] = n /\ own'[t] = n /\ pc'[t] = "log"
          /\ \A id \in Ids : id # cur[t] => nodes'[id] = nodes[id]
          /\ \A u \in Threads \ {t} : own'[u] = own[u] /\ pc'[u] = pc[u]
      BY <1>0, <2>1, <2>2, <2>3
    <2>5. Changing(t)' /\ \A u \in Threads \ {t} : Changing(u)' <=> Changing(u)
      BY <2>4 DEF Changing
    <2>6. \A v, u \in Threads : v # u /\ Changing(v)' /\ Changing(u)' => cur'[v] # cur'[u]
      BY <1>2, <1>b, <2>2, <2>5
    <2>7. \A u \in Threads : pc'[u] = "log" => nodes'[cur'[u]] = own'[u]
      BY <1>0, <1>2, <1>b, <1>e, <2>2, <2>4
    <2>8. \A u \in Threads : pc'[u] = "remove" => N1[cur'[u]] = Absent
      BY <1>2, <1>b, <1>d, <2>2, <2>4
    <2>9. ASSUME NEW id \in Ids, \A u \in Threads : ~(Changing(u)' /\ cur'[u] = id) PROVE N1[id] = nodes'[id]
      <3>1. id # cur[t]
        BY <2>2, <2>5, <2>9
      <3>2. \A u \in Threads : ~(Changing(u) /\ cur[u] = id)
        BY <2>2, <2>5, <2>9, <3>1
      <3> QED
        BY <1>2, <1>b, <1>d, <2>2, <2>4, <3>1, <3>2
    <2> QED
      BY <1>c, <2>6, <2>7, <2>8, <2>9
  <1>3. CASE InsertLog(t) /\ Persistent
    <2> DEFINE r == Insert(cur[t], own[t])
    <2>1. /\ pc[t] = "log" /\ Send(r) /\ nodes' = nodes
          /\ pc' = [pc EXCEPT ![t] = "idle"] /\ cur' = [cur EXCEPT ![t] = 0] /\ own' = [own EXCEPT ![t] = Absent]
      BY <1>3 DEF InsertLog, Leave, Goto, mem
    <2>2. cur[t] \in Ids /\ Changing(t)
      BY <1>0, <2>1 DEF Changing
    <2>3. r \in Record /\ r.op = INSERT /\ r.id = cur[t] /\ r.node = own[t]
      BY <1>0, <2>2, RecordTypes DEF Insert
    <2> HIDE DEF r
    <2>4. \A id \in Ids : N1[id] = IF id # cur[t] THEN N[id] ELSE own[t]
      BY <1>3, <2>1, <2>3, SendIs
    <2> HIDE DEF N, N1
    <2>5. ~Changing(t)' /\ \A u \in Threads \ {t} : /\ pc'[u] = pc[u] /\ cur'[u] = cur[u] /\ own'[u] = own[u]
                                                    /\ Changing(u)' <=> Changing(u)
      BY <1>0, <2>1 DEF Changing
    <2>6. \A v, u \in Threads : v # u /\ Changing(v)' /\ Changing(u)' => cur'[v] # cur'[u]
      BY <1>3, <1>b, <2>5
    <2>7. \A u \in Threads : pc'[u] = "log" => nodes'[cur'[u]] = own'[u]
      BY <1>3, <1>b, <1>e, <2>1, <2>5
    <2>8. ASSUME NEW u \in Threads, pc'[u] = "remove" PROVE N1[cur'[u]] = Absent
      <3>1. u # t /\ pc[u] = "remove" /\ cur'[u] = cur[u] /\ Changing(u) /\ cur[u] \in Ids
        BY <1>0, <1>e, <2>5, <2>8
      <3>2. cur[u] # cur[t]
        BY <1>3, <1>b, <2>2, <3>1
      <3> QED
        BY <1>3, <1>b, <2>4, <3>1, <3>2
    <2>9. ASSUME NEW id \in Ids, \A u \in Threads : ~(Changing(u)' /\ cur'[u] = id) PROVE N1[id] = nodes'[id]
      <3>1. CASE id = cur[t]
        BY <1>3, <1>b, <2>1, <2>4, <3>1
      <3>2. CASE id # cur[t]
        <4>1. \A u \in Threads : ~(Changing(u) /\ cur[u] = id)
          BY <2>5, <2>9, <3>2
        <4> QED
          BY <1>3, <1>b, <2>1, <2>4, <3>2, <4>1
      <3> QED
        BY <3>1, <3>2
    <2> QED
      BY <1>c, <2>6, <2>7, <2>8, <2>9
  <1>4. ASSUME NEW i \in Ids, NEW n \in Node, Replace(t, i, n), Persistent PROVE LogInv'
    <2> DEFINE r == Insert(i, n)
    <2>1. /\ pc[t] = "idle" /\ Send(r) /\ nodes' = [nodes EXCEPT ![i] = n] /\ UNCHANGED <<pc, cur, own>>
          /\ \A u \in Threads \ {t} : ~(Changing(u) /\ cur[u] = i)
      BY <1>4 DEF Replace, call, Clear
    <2>2. r \in Record /\ r.op = INSERT /\ r.id = i /\ r.node = n
      BY RecordTypes DEF Insert
    <2> HIDE DEF r
    <2>3. \A id \in Ids : N1[id] = IF id # i THEN N[id] ELSE n
      BY <1>4, <2>1, <2>2, SendIs
    <2> HIDE DEF N, N1
    <2>4. \A u \in Threads : ~(Changing(u) /\ cur[u] = i)
      BY <2>1 DEF Changing
    <2>5. \A u \in Threads : Changing(u)' <=> Changing(u)
      BY <2>1 DEF Changing
    <2>6. \A id \in Ids : nodes'[id] = IF id # i THEN nodes[id] ELSE n
      BY <1>0, <2>1
    <2>7. \A u \in Threads : pc'[u] = "log" => nodes'[cur'[u]] = own'[u]
      BY <1>0, <1>4, <1>b, <1>e, <2>1, <2>4, <2>6
    <2>8. \A u \in Threads : pc'[u] = "remove" => N1[cur'[u]] = Absent
      BY <1>0, <1>4, <1>b, <1>e, <2>1, <2>3, <2>4
    <2>9. ASSUME NEW id \in Ids, \A u \in Threads : ~(Changing(u)' /\ cur'[u] = id) PROVE N1[id] = nodes'[id]
      BY <1>4, <1>b, <2>1, <2>3, <2>5, <2>6, <2>9
    <2> QED
      BY <1>4, <1>b, <1>c, <2>1, <2>5, <2>7, <2>8, <2>9
  <1>5. ASSUME NEW i \in Ids, Doom(t, i), nodes' = nodes, own' = own, pc[t] \in {"idle", "sweep"}, Persistent PROVE LogInv'
    <2> DEFINE r == Delete(i)
    <2>1. /\ Send(r) /\ cur' = [cur EXCEPT ![t] = i] /\ pc' = [pc EXCEPT ![t] = "remove"]
          /\ \A u \in Threads \ {t} : ~(Changing(u) /\ cur[u] = i)
      BY <1>5 DEF Doom, Goto, Clear
    <2>2. r \in Record /\ r.op # INSERT /\ r.id = i
      BY RecordTypes DEF Delete, INSERT, DELETE
    <2> HIDE DEF r
    <2>3. \A id \in Ids : N1[id] = IF id # i THEN N[id] ELSE Absent
      BY <1>5, <2>1, <2>2, SendIs
    <2> HIDE DEF N, N1
    <2>4. /\ Changing(t)' /\ ~Changing(t) /\ cur'[t] = i /\ pc'[t] = "remove"
          /\ \A u \in Threads \ {t} : pc'[u] = pc[u] /\ cur'[u] = cur[u] /\ (Changing(u)' <=> Changing(u))
      BY <1>0, <1>5, <2>1 DEF Changing
    <2>5. \A v, u \in Threads : v # u /\ Changing(v)' /\ Changing(u)' => cur'[v] # cur'[u]
      BY <1>5, <1>b, <2>1, <2>4
    <2>6. \A u \in Threads : pc'[u] = "log" => nodes'[cur'[u]] = own'[u]
      BY <1>5, <1>b, <2>4
    <2>7. \A u \in Threads : pc'[u] = "remove" => N1[cur'[u]] = Absent
      BY <1>0, <1>5, <1>b, <1>e, <2>1, <2>3, <2>4
    <2>8. ASSUME NEW id \in Ids, \A u \in Threads : ~(Changing(u)' /\ cur'[u] = id) PROVE N1[id] = nodes'[id]
      <3>1. id # i
        BY <2>4, <2>8
      <3>2. \A u \in Threads : ~(Changing(u) /\ cur[u] = id)
        BY <2>4, <2>8
      <3> QED
        BY <1>5, <1>b, <2>3, <3>1, <3>2
    <2> QED
      BY <1>c, <2>5, <2>6, <2>7, <2>8
  <1>6. CASE Remove(t) /\ Persistent
    <2>1. pc[t] = "remove" /\ nodes' = [nodes EXCEPT ![cur[t]] = Absent] /\ log' = log
      BY <1>6 DEF Remove, wal
    <2>2. cur[t] \in Ids /\ Changing(t)
      BY <1>0, <2>1 DEF Changing
    <2>3. ~Changing(t)' /\ \A u \in Threads \ {t} : /\ pc'[u] = pc[u] /\ cur'[u] = cur[u] /\ own'[u] = own[u]
                                                    /\ Changing(u)' <=> Changing(u)
      BY <1>0, <1>6, BackType DEF Remove, Leave, Goto, Changing
    <2>4. \A id \in Ids : nodes'[id] = IF id # cur[t] THEN nodes[id] ELSE Absent
      BY <1>0, <2>1
    <2>5. \A v, u \in Threads : v # u /\ Changing(v)' /\ Changing(u)' => cur'[v] # cur'[u]
      BY <1>6, <1>b, <2>3
    <2>6. ASSUME NEW u \in Threads, pc'[u] = "log" PROVE nodes'[cur'[u]] = own'[u]
      <3>1. u # t /\ pc[u] = "log" /\ cur'[u] = cur[u] /\ own'[u] = own[u] /\ Changing(u) /\ cur[u] \in Ids
        BY <1>0, <1>e, <2>3, <2>6
      <3>2. cur[u] # cur[t]
        BY <1>6, <1>b, <2>2, <3>1
      <3> QED
        BY <1>6, <1>b, <2>4, <3>1, <3>2
    <2>7. \A u \in Threads : pc'[u] = "remove" => N1[cur'[u]] = Absent
      BY <1>6, <1>b, <1>d, <1>e, <2>1, <2>3
    <2>8. ASSUME NEW id \in Ids, \A u \in Threads : ~(Changing(u)' /\ cur'[u] = id) PROVE N1[id] = nodes'[id]
      <3>1. CASE id = cur[t]
        BY <1>6, <1>b, <1>d, <2>1, <2>4, <3>1
      <3>2. CASE id # cur[t]
        <4>1. \A u \in Threads : ~(Changing(u) /\ cur[u] = id)
          BY <2>3, <2>8, <3>2
        <4> QED
          BY <1>6, <1>b, <1>d, <2>1, <2>4, <3>2, <4>1
      <3> QED
        BY <3>1, <3>2
    <2> QED
      BY <1>c, <2>5, <2>6, <2>7, <2>8
  <1>8. ASSUME NEW i \in Ids, Update(t, i) \/ soft_delete(t, i), Persistent PROVE LogInv'
    <2>1. CASE Update(t, i)
      <3>1. PICK d \in Data : Replace(t, i, [nodes[i] EXCEPT !.data = d])
        BY <2>1 DEF Update
      <3>2. [nodes[i] EXCEPT !.data = d] \in Node
        BY <1>0, <3>1, BoundsAssumption DEF Replace, Node, MAX_TX_ID
      <3> QED
        BY <1>4, <1>8, <3>1, <3>2
    <2>2. CASE soft_delete(t, i)
      <3>1. PICK x \in 1 .. MaxTx : Replace(t, i, [nodes[i] EXCEPT !.deleted_tx = x])
        BY <2>2 DEF soft_delete
      <3>2. [nodes[i] EXCEPT !.deleted_tx = x] \in Node
        BY <1>0, <3>1, BoundsAssumption DEF Replace, Node, MAX_TX_ID
      <3> QED
        BY <1>4, <1>8, <3>1, <3>2
    <2> QED
      BY <1>8, <2>1, <2>2
  <1>9. ASSUME NEW i \in Ids, hard_delete(t, i), Persistent PROVE LogInv'
    BY <1>5, <1>9 DEF hard_delete, mem
  <1>10. CASE CompactNext(t) /\ Persistent
    <2>1. PICK i \in to_remove[t] : Doom(t, i)
      BY <1>10 DEF CompactNext
    <2>2. i \in Ids
      BY <2>1 DEF TypeOK, CallTypeOK
    <2> QED
      BY <1>5, <1>10, <2>1, <2>2 DEF CompactNext, mem
  <1> QED
    BY <1>a, <1>1, <1>2, <1>3, <1>6, <1>8, <1>9, <1>10 DEF Step

\* As long as callers keep away from an id another call is changing, replaying
\* the log gives the nodes of the map (not the counters beside it), whatever
\* calls on other ids, crashes and recoveries there are.
THEOREM LogGivesTheMap == ASSUME Exclusive PROVE Spec => []LogMatchesMemory
  <1>1. Init => LogInv
    <2> SUFFICES ASSUME Init PROVE LogInv
      OBVIOUS
    <2>1. replay_wal(log) = Empty
      BY ReplayNothing DEF Init
    <2> QED
      BY <2>1 DEF Init, LogInv, LogMatchesMemory, Empty, Changing
  <1>2. TypeOK /\ ClosedIsIdle /\ LogInv /\ [Next]_vars => LogInv'
    <2> SUFFICES ASSUME TypeOK, ClosedIsIdle, LogInv, [Next]_vars PROVE LogInv'
      OBVIOUS
    <2>1. ASSUME NEW t \in Threads, Step(t) PROVE LogInv'
      BY <2>1, LogStep, TypeStep
    <2>2. CASE Crash
      BY <2>2 DEF Crash, LogInv, LogMatchesMemory
    <2>3. CASE Open
      <3>1. ~up /\ nodes' = replay_wal(log).nodes /\ log' = log /\ pc' = pc
        BY <2>3 DEF Open, wal, call
      <3>2. \A t \in Threads : pc'[t] = "idle" /\ ~Changing(t)'
        BY <3>1 DEF ClosedIsIdle, Changing
      <3>3. replay_wal(log') = replay_wal(log)
        BY <3>1
      <3> QED
        BY <3>1, <3>2, <3>3 DEF LogInv, LogMatchesMemory
    <2>4. CASE flush \/ UNCHANGED vars
      <3>1. UNCHANGED <<nodes, log, pc, cur, own, up>>
        BY <2>4 DEF flush, vars, mem, wal, call
      <3>2. CASE up
        <4>1. \A u \in Threads : Changing(u)' = Changing(u)
          BY <3>1 DEF Changing
        <4> QED
          BY <3>1, <3>2, <4>1, LogStays
      <3>3. CASE ~up
        BY <3>1, <3>3 DEF LogInv, LogMatchesMemory
      <3> QED
        BY <3>2, <3>3
    <2> QED
      BY <2>1, <2>2, <2>3, <2>4 DEF Next
  <1>3. LivesInv => TypeOK /\ ClosedIsIdle
    BY DEF LivesInv
  <1>4. LogInv => LogMatchesMemory
    BY DEF LogInv
  <1> QED
    BY <1>1, <1>2, <1>3, <1>4, AlwaysLivesInv, PTL DEF Spec
-----------------------------------------------------------------------------
(* free_count                                                              *)

\* Division with remainder.
LEMMA Remainder ==
  ASSUME NEW M \in Nat \ {0}, NEW x \in Int PROVE \E q \in Int : \E y \in 0 .. M - 1 : x = M * q + y
  <1>1. x = M * (x \div M) + (x % M) /\ x \div M \in Int /\ x % M \in 0 .. M - 1
    OBVIOUS
  <1> QED
    BY <1>1

\* The remainder is unique.
LEMMA RemainderIs ==
  ASSUME NEW M \in Nat \ {0}, NEW q \in Int, NEW y \in 0 .. M - 1 PROVE (M * q + y) % M = y
  OBVIOUS

\* A counter that wraps counts down modulo its width.
LEMMA WrapDown ==
  ASSUME NEW M \in Nat \ {0}, NEW x \in Int PROVE ((x % M) - 1) % M = (x - 1) % M
  <1>1. PICK q \in Int, y \in 0 .. M - 1 : x = M * q + y
    BY Remainder
  <1>2. x % M = y
    BY <1>1, RemainderIs
  <1>3. CASE y > 0
    <2>1. y - 1 \in 0 .. M - 1
      BY <1>3
    <2>2. x - 1 = M * q + (y - 1) /\ y - 1 = M * 0 + (y - 1)
      BY <1>1
    <2>3. (M * q + (y - 1)) % M = y - 1 /\ (M * 0 + (y - 1)) % M = y - 1
      BY <2>1, RemainderIs
    <2> QED
      BY <1>2, <2>2, <2>3
  <1>4. CASE y = 0
    <2>1. M - 1 \in 0 .. M - 1 /\ q - 1 \in Int /\ -1 \in Int
      OBVIOUS
    <2>2. x - 1 = M * (q - 1) + (M - 1) /\ y - 1 = M * (-1) + (M - 1)
      BY <1>1, <1>4
    <2> QED
      BY <1>2, <2>1, <2>2, RemainderIs
  <1> QED
    BY <1>3, <1>4

\* ... and up.
LEMMA WrapUp ==
  ASSUME NEW M \in Nat \ {0}, NEW x \in Int PROVE ((x % M) + 1) % M = (x + 1) % M
  <1>1. PICK q \in Int, y \in 0 .. M - 1 : x = M * q + y
    BY Remainder
  <1>2. x % M = y
    BY <1>1, RemainderIs
  <1>3. CASE y < M - 1
    <2>1. y + 1 \in 0 .. M - 1
      BY <1>3
    <2>2. x + 1 = M * q + (y + 1) /\ y + 1 = M * 0 + (y + 1)
      BY <1>1
    <2>3. (M * q + (y + 1)) % M = y + 1 /\ (M * 0 + (y + 1)) % M = y + 1
      BY <2>1, RemainderIs
    <2> QED
      BY <1>2, <2>2, <2>3
  <1>4. CASE y = M - 1
    <2>1. 0 \in 0 .. M - 1 /\ q + 1 \in Int /\ 1 \in Int
      OBVIOUS
    <2>2. x + 1 = M * (q + 1) + 0 /\ y + 1 = M * 1 + 0
      BY <1>1, <1>4
    <2> QED
      BY <1>2, <2>1, <2>2, RemainderIs
  <1> QED
    BY <1>3, <1>4

At(l) == {t \in Threads : pc[t] = l}

\* Only finitely many calls are ever between the queue and the counter.
CountInv == IsFiniteSet(At("sub")) /\ IsFiniteSet(At("count")) /\ FreeCountBalances

\* The one call that moves into, or out of, a place.
LEMMA AtMoves ==
  ASSUME pc \in [Threads -> Labels], NEW t \in Threads, NEW k \in Labels, pc' = [pc EXCEPT ![t] = k], NEW l \in Labels
  PROVE  At(l)' = IF k = l THEN At(l) \cup {t} ELSE At(l) \ {t}
  BY DEF At

\* The number of calls at a place.
LEMMA AtCounts ==
  ASSUME pc \in [Threads -> Labels], NEW t \in Threads, NEW k \in Labels, pc' = [pc EXCEPT ![t] = k], NEW l \in Labels,
         IsFiniteSet(At(l))
  PROVE  /\ IsFiniteSet(At(l)') /\ Cardinality(At(l)) \in Nat /\ Cardinality(At(l)') \in Nat
         /\ (pc[t] = l <=> k = l) => Cardinality(At(l)') = Cardinality(At(l))
         /\ pc[t] = l /\ k # l => Cardinality(At(l)') = Cardinality(At(l)) - 1
         /\ pc[t] # l /\ k = l => Cardinality(At(l)') = Cardinality(At(l)) + 1
  <1>1. At(l)' = IF k = l THEN At(l) \cup {t} ELSE At(l) \ {t}
    BY AtMoves
  <1>2. t \in At(l) <=> pc[t] = l
    BY DEF At
  <1>3. /\ IsFiniteSet(At(l) \cup {t})
        /\ Cardinality(At(l) \cup {t}) = IF t \in At(l) THEN Cardinality(At(l)) ELSE Cardinality(At(l)) + 1
    BY FS_AddElement
  <1>4. /\ IsFiniteSet(At(l) \ {t})
        /\ Cardinality(At(l) \ {t}) = IF t \in At(l) THEN Cardinality(At(l)) - 1 ELSE Cardinality(At(l))
    BY FS_RemoveElement
  <1>5. IsFiniteSet(At(l)')
    BY <1>1, <1>3, <1>4
  <1>6. Cardinality(At(l)) \in Nat /\ Cardinality(At(l)') \in Nat
    BY <1>5, FS_CardinalityType
  <1> QED
    BY <1>1, <1>2, <1>3, <1>4, <1>5, <1>6

\* A step of a call keeps the balance.
LEMMA CountStep ==
  ASSUME TypeOK, TypeOK', CountInv, NEW t \in Threads, Step(t) PROVE CountInv'
  <1> DEFINE S == Cardinality(At("sub"))
             C == Cardinality(At("count"))
             L == Len(free_list)
             S1 == Cardinality(At("sub")')
             C1 == Cardinality(At("count")')
             L1 == Len(free_list')
  <1>0. /\ pc \in [Threads -> Labels] /\ free_list \in Seq(Ids) /\ up /\ up' = up /\ L \in Nat
        /\ IsFiniteSet(At("sub")) /\ IsFiniteSet(At("count"))
        /\ CountMod \in Nat \ {0} /\ "sub" \in Labels /\ "count" \in Labels
    <2>1. free_list \in Seq(Ids) /\ pc \in [Threads -> Labels]
      BY DEF TypeOK, CallTypeOK, MemTypeOK
    <2>2. L \in Nat
      BY <2>1, LenProperties
    <2> QED
      BY <2>1, <2>2, StepIsUp, BoundsAssumption DEF CountInv, Labels
  <1>1. free_count = (L + S - C) % CountMod
    BY <1>0 DEF CountInv, FreeCountBalances, At
  <1>2. S \in Nat /\ C \in Nat
    BY <1>0, FS_CardinalityType
  <1>a. IsFiniteSet(At("sub")') /\ IsFiniteSet(At("count")') /\ free_count' = (L1 + S1 - C1) % CountMod => CountInv'
    BY DEF CountInv, FreeCountBalances, At
  <1> HIDE DEF S, C, L, S1, C1, L1
  \* A step of the call to k.
  <1>b. ASSUME NEW k \in Labels, pc' = [pc EXCEPT ![t] = k]
        PROVE  /\ IsFiniteSet(At("sub")') /\ IsFiniteSet(At("count")')
               /\ (pc[t] = "sub" <=> k = "sub") => S1 = S
               /\ (pc[t] = "count" <=> k = "count") => C1 = C
               /\ pc[t] = "sub" /\ k # "sub" => S1 = S - 1
               /\ pc[t] # "sub" /\ k = "sub" => S1 = S + 1
               /\ pc[t] = "count" /\ k # "count" => C1 = C - 1
               /\ pc[t] # "count" /\ k = "count" => C1 = C + 1
    BY <1>0, <1>b, AtCounts DEF S, C, S1, C1
  <1>c. ASSUME pc' = pc \/ (\E k \in Labels : pc' = [pc EXCEPT ![t] = k] /\ k \notin {"sub", "count"} /\ pc[t] \notin {"sub", "count"}),
               UNCHANGED <<free_list, free_count>>
        PROVE  CountInv'
    <2>1. L1 = L
      BY <1>c DEF L, L1
    <2>2. CASE pc' = pc
      <3>1. At("sub")' = At("sub") /\ At("count")' = At("count")
        BY <2>2 DEF At
      <3>2. S1 = S /\ C1 = C
        BY <3>1 DEF S, C, S1, C1
      <3> QED
        BY <1>0, <1>1, <1>a, <1>c, <2>1, <3>1, <3>2
    <2>3. ASSUME NEW k \in Labels, pc' = [pc EXCEPT ![t] = k], k \notin {"sub", "count"}, pc[t] \notin {"sub", "count"} PROVE CountInv'
      <3>1. S1 = S /\ C1 = C /\ IsFiniteSet(At("sub")') /\ IsFiniteSet(At("count")')
        BY <1>b, <2>3
      <3> QED
        BY <1>1, <1>a, <1>c, <2>1, <3>1
    <2> QED
      BY <1>c, <2>2, <2>3
  <1>3. CASE AllocPop(t)
    <2>1. CASE free_list # <<>>
      <3>1. pc[t] = "idle" /\ free_list' = Tail(free_list) /\ pc' = [pc EXCEPT ![t] = "sub"] /\ free_count' = free_count
        BY <1>3, <2>1 DEF AllocPop, Goto
      <3>2. S1 = S + 1 /\ C1 = C /\ IsFiniteSet(At("sub")') /\ IsFiniteSet(At("count")')
        BY <1>0, <1>b, <3>1
      <3>3. L1 = L - 1
        BY <1>0, <2>1, <3>1, HeadTailProperties DEF L, L1
      <3>4. L1 + S1 - C1 = L + S - C
        BY <1>0, <1>2, <3>2, <3>3
      <3> QED
        BY <1>1, <1>a, <3>1, <3>2, <3>4
    <2>2. CASE free_list = <<>>
      <3>1. pc[t] = "idle" /\ pc' = [pc EXCEPT ![t] = "fresh"] /\ UNCHANGED <<free_list, free_count>> /\ "fresh" \in Labels
        BY <1>3, <2>2 DEF AllocPop, Goto, Labels
      <3> QED
        BY <1>c, <3>1
    <2> QED
      BY <2>1, <2>2
  <1>4. CASE AllocSub(t)
    <2>1. /\ pc[t] = "sub" /\ pc' = [pc EXCEPT ![t] = "reserved"] /\ free_list' = free_list /\ "reserved" \in Labels
          /\ free_count' = (free_count - 1) % CountMod
      BY <1>4 DEF AllocSub, Goto, Labels
    <2>2. S1 = S - 1 /\ C1 = C /\ L1 = L /\ IsFiniteSet(At("sub")') /\ IsFiniteSet(At("count")')
      BY <1>b, <2>1 DEF L, L1
    <2> DEFINE x == L + S - C
    <2>3. x \in Int /\ L1 + S1 - C1 = x - 1
      BY <1>0, <1>2, <2>2
    <2>4. free_count = x % CountMod
      BY <1>1
    <2> HIDE DEF x
    <2>5. ((x % CountMod) - 1) % CountMod = (x - 1) % CountMod
      BY <1>0, <2>3, WrapDown
    <2> QED
      BY <1>a, <2>1, <2>2, <2>3, <2>4, <2>5
  <1>5. CASE Push(t)
    <2>1. /\ pc[t] = "push" /\ pc' = [pc EXCEPT ![t] = "count"] /\ free_list' = Append(free_list, cur[t]) /\ free_count' = free_count
      BY <1>5 DEF Push, Goto
    <2>2. S1 = S /\ C1 = C + 1 /\ IsFiniteSet(At("sub")') /\ IsFiniteSet(At("count")')
      BY <1>0, <1>b, <2>1
    <2>3. cur[t] \in Ids
      BY <2>1 DEF TypeOK, CallTypeOK, Naming
    <2>4. L1 = L + 1
      BY <1>0, <2>1, <2>3, AppendProperties DEF L, L1
    <2>5. L1 + S1 - C1 = L + S - C
      BY <1>0, <1>2, <2>2, <2>4
    <2> QED
      BY <1>1, <1>a, <2>1, <2>2, <2>5
  <1>6. CASE CountFreed(t)
    <2>1. /\ pc[t] = "count" /\ pc' = [pc EXCEPT ![t] = Back(t)] /\ free_list' = free_list
          /\ free_count' = (free_count + 1) % CountMod /\ Back(t) \in Labels /\ Back(t) \notin {"sub", "count"}
      BY <1>6, BackType DEF CountFreed, Leave, Goto, Labels
    <2>2. S1 = S /\ C1 = C - 1 /\ L1 = L /\ IsFiniteSet(At("sub")') /\ IsFiniteSet(At("count")')
      BY <1>b, <2>1 DEF L, L1
    <2> DEFINE x == L + S - C
    <2>3. x \in Int /\ L1 + S1 - C1 = x + 1
      BY <1>0, <1>2, <2>2
    <2>4. free_count = x % CountMod
      BY <1>1
    <2> HIDE DEF x
    <2>5. ((x % CountMod) + 1) % CountMod = (x + 1) % CountMod
      BY <1>0, <2>3, WrapUp
    <2> QED
      BY <1>a, <2>1, <2>2, <2>3, <2>4, <2>5
  <1>7. CASE AllocFresh(t)
    <2>1. pc[t] = "fresh" /\ pc' = [pc EXCEPT ![t] = "reserved"] /\ UNCHANGED <<free_list, free_count>> /\ "reserved" \in Labels
      BY <1>7 DEF AllocFresh, Goto, Labels
    <2> QED
      BY <1>c, <2>1
  <1>8. CASE Abandon(t) \/ InsertLog(t)
    <2>1. pc[t] \in {"reserved", "log"} /\ pc' = [pc EXCEPT ![t] = "idle"] /\ UNCHANGED <<free_list, free_count>> /\ "idle" \in Labels
      BY <1>8 DEF Abandon, InsertLog, Leave, Goto, mem, Labels
    <2> QED
      BY <1>c, <2>1
  <1>9. CASE InsertMem(t)
    <2>1. pc[t] = "reserved" /\ pc' = [pc EXCEPT ![t] = "log"] /\ UNCHANGED <<free_list, free_count>> /\ "log" \in Labels
      BY <1>9 DEF InsertMem, Goto, Labels
    <2> QED
      BY <1>c, <2>1
  <1>10. CASE \E id \in Ids : Update(t, id) \/ soft_delete(t, id)
    <2>1. UNCHANGED <<pc, free_list, free_count>>
      BY <1>10 DEF Update, soft_delete, Replace, call
    <2> QED
      BY <1>c, <2>1
  <1>11. CASE (\E id \in Ids : hard_delete(t, id)) \/ CompactNext(t)
    <2>1. pc[t] \in {"idle", "sweep"} /\ pc' = [pc EXCEPT ![t] = "remove"] /\ UNCHANGED <<free_list, free_count>> /\ "remove" \in Labels
      BY <1>11 DEF hard_delete, CompactNext, Doom, Goto, mem, Labels
    <2> QED
      BY <1>c, <2>1
  <1>12. CASE Remove(t)
    <2>1. /\ pc[t] = "remove" /\ UNCHANGED <<free_list, free_count>> /\ "push" \in Labels /\ Back(t) \in Labels
          /\ Back(t) \notin {"sub", "count"}
          /\ pc' = [pc EXCEPT ![t] = "push"] \/ pc' = [pc EXCEPT ![t] = Back(t)]
      BY <1>12, BackType DEF Remove, Leave, Goto, Labels
    <2> QED
      BY <1>c, <2>1
  <1>13. CASE Compact(t) \/ CompactCollected(t) \/ CompactDone(t)
    <2>1. /\ pc[t] \in {"idle", "scan", "sweep"} /\ UNCHANGED <<free_list, free_count>>
          /\ "scan" \in Labels /\ "sweep" \in Labels /\ "idle" \in Labels
          /\ pc' = [pc EXCEPT ![t] = "scan"] \/ pc' = [pc EXCEPT ![t] = "sweep"] \/ pc' = [pc EXCEPT ![t] = "idle"]
      BY <1>13 DEF Compact, CompactCollected, CompactDone, Goto, mem, Labels
    <2> QED
      BY <1>c, <2>1
  <1>14. CASE CompactScan(t)
    <2>1. UNCHANGED <<pc, free_list, free_count>>
      BY <1>14 DEF CompactScan, mem
    <2> QED
      BY <1>c, <2>1
  <1> QED
    BY <1>3, <1>4, <1>5, <1>6, <1>7, <1>8, <1>9, <1>10, <1>11, <1>12, <1>13, <1>14 DEF Step

\* free_count is right up to the calls that are between the queue and the
\* counter, however often it wraps below zero and back, in this lifetime and
\* after every recovery.
THEOREM FreeCountIsRight == Spec => []FreeCountBalances
  <1>0. CountMod \in Nat \ {0}
    BY BoundsAssumption
  <1>1. Init => CountInv
    <2> SUFFICES ASSUME Init PROVE CountInv
      OBVIOUS
    <2>1. At("sub") = {} /\ At("count") = {} /\ free_list = <<>> /\ free_count = 0
      BY DEF Init, At
    <2>2. IsFiniteSet({}) /\ Cardinality({}) = 0 /\ Len(<<>>) = 0
      BY FS_EmptySet
    <2>3. (0 + 0 - 0) % CountMod = 0
      BY <1>0
    <2> QED
      BY <2>1, <2>2, <2>3 DEF CountInv, FreeCountBalances, At
  <1>2. TypeOK /\ ClosedIsIdle /\ CountInv /\ [Next]_vars => CountInv'
    <2> SUFFICES ASSUME TypeOK, ClosedIsIdle, CountInv, [Next]_vars PROVE CountInv'
      OBVIOUS
    <2>1. ASSUME NEW t \in Threads, Step(t) PROVE CountInv'
      BY <2>1, CountStep, TypeStep
    <2>2. CASE Crash
      <3>1. At("sub")' = {} /\ At("count")' = {} /\ ~up'
        BY <2>2 DEF Crash, At
      <3> QED
        BY <3>1, FS_EmptySet DEF CountInv, FreeCountBalances
    <2>3. CASE Open
      <3>1. /\ ~up /\ free_list' = replay_wal(log).free_list /\ free_count' = Len(replay_wal(log).free_list) % CountMod /\ pc' = pc
        BY <2>3 DEF Open, call
      <3>2. At("sub")' = {} /\ At("count")' = {}
        BY <3>1 DEF ClosedIsIdle, At
      <3>3. IsFiniteSet({}) /\ Cardinality({}) = 0
        BY FS_EmptySet
      <3>4. Len(free_list') \in Nat
        <4>1. free_list' \in Seq(Ids)
          BY TypeStep DEF TypeOK, MemTypeOK
        <4> QED
          BY <4>1, LenProperties
      <3>5. free_count' = (Len(free_list') + 0 - 0) % CountMod
        BY <3>1, <3>4
      <3> QED
        BY <3>2, <3>3, <3>5 DEF CountInv, FreeCountBalances, At
    <2>4. CASE flush \/ UNCHANGED vars
      <3>1. UNCHANGED <<pc, up, free_list, free_count>>
        BY <2>4 DEF flush, vars, mem, call
      <3> QED
        BY <3>1 DEF CountInv, FreeCountBalances, At
    <2> QED
      BY <2>1, <2>2, <2>3, <2>4 DEF Next
  <1>3. LivesInv => TypeOK /\ ClosedIsIdle
    BY DEF LivesInv
  <1>4. CountInv => FreeCountBalances
    BY DEF CountInv
  <1> QED
    BY <1>1, <1>2, <1>3, <1>4, AlwaysLivesInv, PTL DEF Spec

=============================================================================
