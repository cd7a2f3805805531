-------------------------- MODULE DatabaseProofs --------------------------
(***************************************************************************)
(* Database, for any number of clients, keys, cells, tickets and writes.   *)
(***************************************************************************)
EXTENDS Database, SequenceTheorems, WellFoundedInduction, TLAPS

\* What the six vectors and the three WALs hold.
Op == [key : Ids \cup Cells, data : Nat]
Record == [key : Ids \cup Cells, ver : Version]

\* The types, with those of the sequences; a closed database has no handles.
TypeInv ==
    /\ TypeOK
    /\ store = [s \in Stores |-> store[s]]
    /\ log \in [Stores -> Seq(Record)] /\ synced \in [Stores -> Nat]
    /\ \A s \in Stores : \A i \in DOMAIN log[s] : log[s][i].key \in Keys(s)
    /\ tickets \subseteq 1 .. next_tx_id - 1
    /\ tx_id \in [Clients -> 0 .. MaxTx]
    /\ buf \in [Clients -> [Vectors -> Seq(Op)]]
    /\ \A c \in Clients, v \in Vectors : \A i \in DOMAIN buf[c][v] :
          buf[c][v][i].key \in Keys(StoreOf(v))
    /\ ~up => pc = [c \in Clients |-> "idle"] /\ buf = [c \in Clients |-> NoWrites]

\* The lifetime of one Database value.
OneLifetime == MaxCrashes = 0

\* Nobody calls update_node_labels, which replaces a node for everyone.
NoUpdates == "node_updates" \notin Calls

\* A ticket belongs to one handle, and to nobody once commit() has returned;
\* a transaction that applies its writes has retired its ticket.
TicketsAreOwned ==
    /\ \A c \in Clients : tx_id[c] # 0 => tx_id[c] < next_tx_id /\ tx_id[c] \notin acked
    /\ \A c, d \in Clients : tx_id[c] # 0 /\ tx_id[c] = tx_id[d] => c = d
    /\ acked \subseteq 1 .. next_tx_id - 1
    /\ \A c \in Clients : pc[c] \in {"apply"} \cup Stores => tx_id[c] <= committed_tx_id

\* What commit() has flushed when it comes to the next store.
FlushedSoFar ==
    /\ \A w \in applied : w.store \in Stores /\ w.pos \in Nat /\ (up => w.pos <= Len(log[w.store]))
    /\ \A c \in Clients, w \in applied : w.tx = tx_id[c] =>
          /\ pc[c] \in {"edges", "props"} /\ w.store = "nodes" => w.pos <= synced["nodes"]
          /\ pc[c] = "props" /\ w.store = "edges" => w.pos <= synced["edges"]

\* The source of an edge to be inserted is there or will be inserted first.
SourcesAreKnown ==
    /\ \A k \in Ids : store["edges"][k] # Absent =>
          store["edges"][k].data \in Ids /\ store["nodes"][store["edges"][k].data] # Absent
    /\ \A c \in Clients : \A i \in DOMAIN buf[c]["edge_inserts"] :
          LET src == buf[c]["edge_inserts"][i].data
          IN  /\ src \in Ids
              /\ \/ store["nodes"][src] # Absent
                 \/ \E j \in DOMAIN buf[c]["node_inserts"] : buf[c]["node_inserts"][j].key = src

\* An id to be inserted was allocated once and is not in the store yet.
InsertsAreFresh ==
    up => \A v \in {"node_inserts", "edge_inserts"} :
             LET s == StoreOf(v)
             IN  /\ \A c \in Clients : \A i \in DOMAIN buf[c][v] :
                       buf[c][v][i].key < next_id[s] /\ store[s][buf[c][v][i].key] = Absent
                 /\ \A c, d \in Clients : \A i \in DOMAIN buf[c][v], j \in DOMAIN buf[d][v] :
                       buf[c][v][i].key = buf[d][v][j].key => c = d /\ i = j
                 /\ \A k \in Ids : k >= next_id[s] => store[s][k] = Absent

\* Nobody has relabelled a node.
NoneRelabels == \A c \in Clients : buf[c]["node_updates"] = <<>>

\* With polite clients, what is to be deleted is alive, and deleted once.
DeletesAreDue ==
    up => \A v \in {"node_deletes", "edge_deletes"} :
             LET s == StoreOf(v)
             IN  /\ \A c \in Clients : \A i \in DOMAIN buf[c][v] :
                       store[s][buf[c][v][i].key] # Absent =>
                           store[s][buf[c][v][i].key].deleted_tx = MAX_TX_ID
                 /\ \A c, d \in Clients : \A i \in DOMAIN buf[c][v], j \in DOMAIN buf[d][v] :
                       buf[c][v][i].key = buf[d][v][j].key => c = d /\ i = j

-----------------------------------------------------------------------------
(* Helpers                                                                 *)

\* The vectors of a Transaction, one by one.
LEMMA VectorsAre ==
  Vectors = {"node_inserts", "node_updates", "node_deletes",
             "edge_inserts", "edge_deletes", "prop_writes"}
  BY DEF Vectors, Phases

\* The store that each vector goes to.
LEMMA StoreOfIs ==
  /\ StoreOf("node_inserts") = "nodes" /\ StoreOf("node_updates") = "nodes"
  /\ StoreOf("node_deletes") = "nodes" /\ StoreOf("edge_inserts") = "edges"
  /\ StoreOf("edge_deletes") = "edges" /\ StoreOf("prop_writes") = "props"
  /\ \A v \in Vectors : StoreOf(v) \in Stores
  <1>1. /\ StoreOf("node_inserts") = "nodes" /\ StoreOf("node_updates") = "nodes"
        /\ StoreOf("node_deletes") = "nodes" /\ StoreOf("edge_inserts") = "edges"
        /\ StoreOf("edge_deletes") = "edges" /\ StoreOf("prop_writes") = "props"
    BY DEF StoreOf
  <1> QED
    BY <1>1, VectorsAre DEF Stores

\* The keys of each store.
LEMMA KeysAre == Keys("nodes") = Ids /\ Keys("edges") = Ids /\ Keys("props") = Cells
  BY DEF Keys

\* What a write leaves in the store is a version.
LEMMA WrittenType ==
  ASSUME NEW v \in Vectors, NEW old \in Version \cup {Absent}, NEW op \in Op, NEW x \in 1 .. MaxTx
  PROVE  Written(v, old, op, x) \in Version \cup {Absent}
  <1> USE BoundsAssumption DEF MAX_TX_ID
  <1>1. Inserted(x, op.data) \in Version /\ Cell(op.data) \in Version
    BY DEF Inserted, Cell, Version, Op
  <1>2. old # Absent => Relabelled(old, x, op.data) \in Version /\ Deleted(old, x) \in Version
    <2> SUFFICES ASSUME old \in Version
                 PROVE  Relabelled(old, x, op.data) \in Version /\ Deleted(old, x) \in Version
      OBVIOUS
    <2>1. op.data \in Nat
      BY DEF Op
    <2>2. Deleted(old, x) \in Version
      BY DEF Deleted, Version
    <2>3. Relabelled(old, x, op.data) \in Version
      BY <2>1 DEF Relabelled, Version
    <2> QED
      BY <2>2, <2>3
  <1> QED
    BY <1>1, <1>2, VectorsAre DEF Written

\* Every nonempty set of naturals has a least element.
LEMMA LeastNatural == ASSUME NEW T \in SUBSET Nat, T # {} PROVE \E x \in T : \A y \in T : x <= y
  <1> DEFINE R == {ss \in Nat \X Nat : ss[1] < ss[2]}
  <1>1. IsWellFoundedOn(R, Nat)
    BY NatLessThanWellFounded, Zenon DEF OpToRel
  <1>2. PICK x \in T : \A y \in T : ~(<<y, x>> \in R)
    <2> HIDE DEF R
    <2> QED
      BY <1>1, WFMin
  <1>3. \A y \in T : ~(y < x)
    BY <1>2
  <1> QED
    BY <1>3

\* A nonempty set of naturals with a bound has a greatest element.
LEMMA GreatestNatural ==
  ASSUME NEW n \in Nat, NEW T \in SUBSET (0 .. n), T # {}
  PROVE  \E x \in T : \A y \in T : y <= x
  <1> DEFINE U == {n - y : y \in T}
  <1>1. U \in SUBSET Nat /\ U # {}
    <2>1. PICK y \in T : TRUE
      OBVIOUS
    <2>2. n - y \in U
      BY <2>1
    <2>3. \A w \in T : n - w \in Nat
      OBVIOUS
    <2> QED
      BY <2>2, <2>3
  <1>2. PICK u \in U : \A w \in U : u <= w
    <2> HIDE DEF U
    <2> QED
      BY <1>1, LeastNatural
  <1>3. PICK x \in T : u = n - x
    BY <1>2
  <1>4. \A y \in T : n - x <= n - y
    BY <1>2, <1>3
  <1> QED
    BY <1>3, <1>4

-----------------------------------------------------------------------------
(* Types                                                                   *)

\* The types hold at the start.
LEMMA InitType == Init => TypeInv
  <1> SUFFICES ASSUME Init PROVE TypeInv
    OBVIOUS
  <1> USE BoundsAssumption
  <1>1. next_tx_id = 1 /\ committed_tx_id = 0 /\ tickets = {}
    BY DEF Init, Tickets!Init
  <1>2. NoWrites \in [Vectors -> Seq(Op)] /\ \A v \in Vectors : NoWrites[v] = <<>>
    BY DEF NoWrites
  <1>3. \A s \in Stores : log[s] = <<>> /\ Len(log[s]) = 0 /\ synced[s] = 0
    BY DEF Init
  <1>4. log \in [Stores -> Seq(Record)] /\ synced \in [Stores -> Nat]
    BY DEF Init
  <1>5. TypeOK
    BY <1>1, <1>3 DEF Init, TypeOK, States
  <1>6. \A c \in Clients, v \in Vectors : buf[c][v] = <<>>
    BY <1>2 DEF Init
  <1>7. buf \in [Clients -> [Vectors -> Seq(Op)]]
    BY <1>2 DEF Init
  <1> QED
    BY <1>1, <1>3, <1>4, <1>5, <1>6, <1>7 DEF Init, TypeInv

\* A call that buffers a write of the right kind keeps the types.
LEMMA BufferType ==
  ASSUME TypeInv, NEW c \in Clients, NEW v \in Vectors, NEW op \in Op,
         op.key \in Keys(StoreOf(v)), Buffer(c, v, op),
         next_id' \in [{"nodes", "edges"} -> 0 .. MaxKeys]
  PROVE  TypeInv'
  <1>1. up /\ buf' = [buf EXCEPT ![c][v] = Append(buf[c][v], op)]
    BY DEF Buffer
  <1>2. UNCHANGED <<tm, stores, synced, up, pc, handle, history, crashes>>
    BY DEF Buffer
  <1>3. buf[c][v] \in Seq(Op) /\ buf \in [Clients -> [Vectors -> Seq(Op)]]
    BY DEF TypeInv
  <1>4. buf' \in [Clients -> [Vectors -> Seq(Op)]]
    BY <1>1, <1>3
  <1>5. ASSUME NEW d \in Clients, NEW w \in Vectors, NEW i \in DOMAIN buf'[d][w]
        PROVE  buf'[d][w][i].key \in Keys(StoreOf(w))
    <2>1. CASE d = c /\ w = v
      <3>1. buf'[d][w] = Append(buf[c][v], op)
        BY <1>1, <1>3, <2>1
      <3>2. i \in 1 .. Len(buf[c][v]) + 1
        BY <1>3, <1>5, <3>1
      <3>3. DOMAIN buf[c][v] = 1 .. Len(buf[c][v])
        BY <1>3
      <3> QED
        BY <1>3, <2>1, <3>1, <3>2, <3>3 DEF TypeInv
    <2>2. CASE ~(d = c /\ w = v)
      <3>1. buf'[d][w] = buf[d][w]
        BY <1>1, <1>3, <2>2
      <3> QED
        BY <1>5, <3>1 DEF TypeInv
    <2> QED
      BY <2>1, <2>2
  <1>6. TypeOK'
    BY <1>2 DEF TypeInv, TypeOK, tm, stores, handle
  <1> QED
    BY <1>1, <1>2, <1>4, <1>5, <1>6 DEF TypeInv, tm, stores, handle

\* The end of a handle keeps the types.
LEMMA CloseType ==
  ASSUME TypeInv, NEW c \in Clients, Close(c)
  PROVE  /\ pc' \in [Clients -> States]
         /\ \A d \in Clients : tx_id'[d] # 0 <=> pc'[d] \notin {"idle", "reading"}
         /\ snapshot' \in [Clients -> 0 .. MaxTx] /\ tx_id' \in [Clients -> 0 .. MaxTx]
  BY BoundsAssumption DEF Close, TypeInv, TypeOK, States

\* A ticket is issued and retired within the bounds.
LEMMA TicketType ==
  ASSUME TypeInv, (Tickets!Issue /\ next_tx_id <= MaxTx) \/ Tickets!Retire
  PROVE  /\ next_tx_id' \in 1 .. MaxTx + 1 /\ committed_tx_id' \in 0 .. MaxTx
         /\ tickets' \subseteq 1 .. next_tx_id' - 1
         /\ committed_tx_id <= committed_tx_id' /\ next_tx_id <= next_tx_id'
  <1> USE BoundsAssumption
  <1>0. next_tx_id \in 1 .. MaxTx + 1 /\ committed_tx_id \in 0 .. MaxTx /\ tickets \subseteq 1 .. next_tx_id - 1
    BY DEF TypeInv, TypeOK
  <1>1. CASE Tickets!Issue /\ next_tx_id <= MaxTx
    BY <1>0, <1>1 DEF Tickets!Issue
  <1>2. CASE Tickets!Retire
    BY <1>0, <1>2 DEF Tickets!Retire
  <1> QED
    BY <1>1, <1>2

\* begin_read, begin_write and the end of a read-only handle.
LEMMA BeginType ==
  ASSUME TypeInv, NEW c \in Clients,
         begin_read(c) \/ EndRead(c) \/ begin_write(c) \/ latest_committed(c)
  PROVE  TypeInv'
  <1> USE BoundsAssumption
  <1>1. UNCHANGED <<stores, next_id, synced, up, buf, crashes>> /\ up
    BY DEF begin_read, EndRead, begin_write, latest_committed
  <1>2. /\ next_tx_id' \in 1 .. MaxTx + 1 /\ committed_tx_id' \in 0 .. MaxTx
        /\ tickets' \subseteq 1 .. next_tx_id' - 1
    BY TicketType DEF begin_read, EndRead, begin_write, latest_committed, tm, TypeInv, TypeOK
  <1>3. tx_id' \in [Clients -> 0 .. MaxTx] /\ snapshot' \in [Clients -> 0 .. MaxTx]
    <2>1. /\ tx_id \in [Clients -> 0 .. MaxTx] /\ snapshot \in [Clients -> 0 .. MaxTx]
          /\ next_tx_id \in 1 .. MaxTx + 1 /\ committed_tx_id \in 0 .. MaxTx
      BY DEF TypeInv, TypeOK
    <2>2. CASE begin_write(c)
      BY <2>1, <2>2 DEF begin_write
    <2>3. CASE begin_read(c) \/ EndRead(c) \/ latest_committed(c)
      BY <2>1, <2>3 DEF begin_read, EndRead, latest_committed
    <2> QED
      BY <2>2, <2>3
  <1>4. pc' \in [Clients -> States]
    BY DEF begin_read, EndRead, begin_write, latest_committed, TypeInv, TypeOK, States
  <1>5. \A d \in Clients : tx_id'[d] # 0 <=> pc'[d] \notin {"idle", "reading"}
    <2>1. /\ tx_id \in [Clients -> 0 .. MaxTx] /\ pc \in [Clients -> States] /\ next_tx_id # 0
          /\ \A d \in Clients : tx_id[d] # 0 <=> pc[d] \notin {"idle", "reading"}
      BY DEF TypeInv, TypeOK
    <2>2. CASE begin_write(c)
      BY <2>1, <2>2 DEF begin_write
    <2>3. CASE begin_read(c) \/ EndRead(c) \/ latest_committed(c)
      BY <2>1, <2>3 DEF begin_read, EndRead, latest_committed
    <2> QED
      BY <2>2, <2>3
  <1>6. TypeOK'
    BY <1>1, <1>2, <1>3, <1>4, <1>5 DEF TypeInv, TypeOK, stores
  <1> QED
    BY <1>1, <1>2, <1>3, <1>6 DEF TypeInv, stores

\* The buffering calls.
LEMMA CallType ==
  ASSUME TypeInv, NEW c \in Clients,
         \/ create_node(c) \/ create_edge(c)
         \/ \E k \in Ids : \/ update_node_labels(c, k)
                           \/ delete(c, "node_deletes", k)
                           \/ delete(c, "edge_deletes", k)
         \/ \E k \in Cells : set_prop(c, k)
  PROVE  TypeInv'
  <1> USE BoundsAssumption, VectorsAre, StoreOfIs, KeysAre
  <1>0. next_id \in [{"nodes", "edges"} -> 0 .. MaxKeys] /\ tx_id \in [Clients -> Nat]
    BY DEF TypeInv, TypeOK
  <1>1. CASE create_node(c)
    BY <1>0, <1>1, BufferType DEF create_node, Op, Ids
  <1>2. CASE create_edge(c)
    <2>1. KnownNodes(c) \subseteq Ids
      BY SMTT(30) DEF KnownNodes, TypeInv
    <2>2. PICK src \in Ids : Buffer(c, "edge_inserts", [key |-> next_id["edges"], data |-> src])
      BY <1>2, <2>1 DEF create_edge
    <2> QED
      BY <1>0, <1>2, <2>2, BufferType, SMTT(30) DEF create_edge, Op, Ids
  <1>3. ASSUME NEW k \in Ids, update_node_labels(c, k) PROVE TypeInv'
    BY <1>0, <1>3, BufferType DEF update_node_labels, Op
  <1>4. ASSUME NEW k \in Ids, NEW v \in {"node_deletes", "edge_deletes"}, delete(c, v, k) PROVE TypeInv'
    BY <1>0, <1>4, BufferType DEF delete, Op
  <1>5. ASSUME NEW k \in Cells, set_prop(c, k) PROVE TypeInv'
    BY <1>0, <1>5, BufferType DEF set_prop, Op
  <1> QED
    BY <1>1, <1>2, <1>3, <1>4, <1>5

\* What Apply does, with its LET written out.
Applies(c, v, s, op, new) ==
    /\ op = Head(buf[c][v]) /\ s = StoreOf(v)
    /\ new = Written(v, store[s][op.key], op, tx_id[c])
    /\ FirstPhase(c, v)
    /\ buf' = [buf EXCEPT ![c][v] = Tail(buf[c][v])]
    /\ \/ new = Absent /\ UNCHANGED <<store, log, applied>>
       \/ /\ new # Absent
          /\ store' = [store EXCEPT ![s][op.key] = new]
          /\ log' = [log EXCEPT ![s] = Append(log[s], [key |-> op.key, ver |-> new])]
          /\ applied' = applied \cup
                {[tx |-> tx_id[c], by |-> v, store |-> s, key |-> op.key, pos |-> Len(log[s]) + 1]}

\* Apply is one of these.
LEMMA ApplyIs ==
  ASSUME NEW c, Apply(c) PROVE \E v \in Vectors : \E s, op, new : Applies(c, v, s, op, new)
  <1>1. PICK v \in Vectors :
          LET op == Head(buf[c][v])
              s == StoreOf(v)
              new == Written(v, store[s][op.key], op, tx_id[c])
          IN  /\ FirstPhase(c, v)
              /\ buf' = [buf EXCEPT ![c][v] = Tail(@)]
              /\ IF new = Absent
                 THEN UNCHANGED <<stores, applied>>
                 ELSE /\ store' = [store EXCEPT ![s][op.key] = new]
                      /\ log' = [log EXCEPT ![s] = Append(@, [key |-> op.key, ver |-> new])]
                      /\ applied' = applied \cup
                            {[tx |-> tx_id[c], by |-> v, store |-> s, key |-> op.key,
                              pos |-> Len(log[s]) + 1]}
    BY DEF Apply
  <1> DEFINE op == Head(buf[c][v])
             s == StoreOf(v)
             new == Written(v, store[s][op.key], op, tx_id[c])
  <1>2. Applies(c, v, s, op, new)
    <2>1. CASE new = Absent
      BY <1>1, <2>1 DEF stores, Applies
    <2>2. CASE new # Absent
      BY <1>1, <2>2 DEF Applies
    <2> QED
      BY <2>1, <2>2
  <1> QED
    BY <1>2

\* The first phase with something left to apply has something to apply.
LEMMA FirstPhaseIs ==
  ASSUME TypeInv, NEW c \in Clients, NEW v \in Vectors, FirstPhase(c, v)
  PROVE  /\ buf[c][v] \in Seq(Op) /\ buf[c][v] # <<>>
         /\ Len(buf[c][v]) \in Nat /\ Len(buf[c][v]) >= 1
         /\ DOMAIN buf[c][v] = 1 .. Len(buf[c][v])
         /\ Head(buf[c][v]) = buf[c][v][1] /\ Head(buf[c][v]) \in Op
         /\ Head(buf[c][v]).key \in Keys(StoreOf(v))
         /\ Tail(buf[c][v]) \in Seq(Op) /\ Len(Tail(buf[c][v])) = Len(buf[c][v]) - 1
         /\ DOMAIN Tail(buf[c][v]) = 1 .. Len(buf[c][v]) - 1
         /\ \A i \in 1 .. Len(buf[c][v]) - 1 : Tail(buf[c][v])[i] = buf[c][v][i + 1]
  <1>1. buf[c][v] \in Seq(Op) /\ buf[c][v] # <<>>
    BY DEF FirstPhase, TypeInv
  <1>2. /\ Len(buf[c][v]) \in Nat /\ Len(buf[c][v]) >= 1 /\ DOMAIN buf[c][v] = 1 .. Len(buf[c][v])
        /\ Head(buf[c][v]) = buf[c][v][1] /\ Head(buf[c][v]) \in Op
    BY <1>1
  <1>3. Head(buf[c][v]).key \in Keys(StoreOf(v))
    BY <1>2 DEF TypeInv
  <1>4. /\ Tail(buf[c][v]) \in Seq(Op) /\ Len(Tail(buf[c][v])) = Len(buf[c][v]) - 1
        /\ \A i \in 1 .. Len(buf[c][v]) - 1 : Tail(buf[c][v])[i] = buf[c][v][i + 1]
    BY <1>1, HeadTailProperties
  <1> QED
    BY <1>1, <1>2, <1>3, <1>4

\* One write of phase 2 keeps the types.
LEMMA ApplyType == ASSUME TypeInv, NEW c \in Clients, Apply(c) PROVE TypeInv'
  <1> USE BoundsAssumption
  <1>a. PICK v \in Vectors : \E s, op, new : Applies(c, v, s, op, new)
    BY ApplyIs
  <1>d. PICK s, op, new : Applies(c, v, s, op, new)
    BY <1>a
  <1>1. /\ op = Head(buf[c][v]) /\ s = StoreOf(v)
        /\ new = Written(v, store[s][op.key], op, tx_id[c])
        /\ FirstPhase(c, v)
        /\ buf' = [buf EXCEPT ![c][v] = Tail(buf[c][v])]
        /\ \/ new = Absent /\ UNCHANGED <<store, log, applied>>
           \/ /\ new # Absent
              /\ store' = [store EXCEPT ![s][op.key] = new]
              /\ log' = [log EXCEPT ![s] = Append(log[s], [key |-> op.key, ver |-> new])]
    BY <1>d DEF Applies
  <1>2. /\ up /\ pc[c] = "apply"
        /\ UNCHANGED <<tm, next_id, synced, up, pc, handle, done, acked, crashes>>
    BY DEF Apply
  <1>f. FirstPhase(c, v)
    BY <1>1
  <1>3. s \in Stores /\ op \in Op /\ op.key \in Keys(s)
    BY <1>1, <1>f, FirstPhaseIs, StoreOfIs
  <1>4. store[s] \in [Keys(s) -> Version \cup {Absent}] /\ tx_id[c] \in 1 .. MaxTx
    <2>1. \A t \in Stores : store[t] \in [Keys(t) -> Version \cup {Absent}]
      BY DEF TypeInv, TypeOK
    <2>2. tx_id[c] \in 0 .. MaxTx /\ tx_id[c] # 0
      BY <1>2 DEF TypeInv, TypeOK
    <2> QED
      BY <1>3, <2>1, <2>2
  <1>5. new \in Version \cup {Absent}
    BY <1>1, <1>3, <1>4, WrittenType
  <1>b. Tail(buf[c][v]) \in Seq(Op) /\ buf \in [Clients -> [Vectors -> Seq(Op)]]
    BY <1>f, FirstPhaseIs DEF TypeInv
  <1>6. buf' \in [Clients -> [Vectors -> Seq(Op)]]
    BY <1>1, <1>b
  <1>7. ASSUME NEW d \in Clients, NEW w \in Vectors, NEW i \in DOMAIN buf'[d][w]
        PROVE  buf'[d][w][i].key \in Keys(StoreOf(w))
    <2>1. CASE d = c /\ w = v
      <3>1. buf'[d][w] = Tail(buf[c][v])
        BY <1>1, <2>1 DEF TypeInv
      <3>2. /\ DOMAIN buf[c][v] = 1 .. Len(buf[c][v]) /\ DOMAIN Tail(buf[c][v]) = 1 .. Len(buf[c][v]) - 1
            /\ \A j \in 1 .. Len(buf[c][v]) - 1 : Tail(buf[c][v])[j] = buf[c][v][j + 1]
            /\ Len(buf[c][v]) \in Nat
        BY <1>f, FirstPhaseIs
      <3>3. i \in 1 .. Len(buf[c][v]) - 1 /\ buf'[d][w][i] = buf[c][v][i + 1] /\ i + 1 \in DOMAIN buf[c][v]
        BY <1>7, <3>1, <3>2
      <3> QED
        BY <2>1, <3>3 DEF TypeInv
    <2>2. CASE ~(d = c /\ w = v)
      <3>1. buf'[d][w] = buf[d][w]
        BY <1>1, <2>2 DEF TypeInv
      <3> QED
        BY <1>7, <3>1 DEF TypeInv
    <2> QED
      BY <2>1, <2>2
  <1>8. /\ store' = [t \in Stores |-> store'[t]]
        /\ \A t \in Stores : store'[t] \in [Keys(t) -> Version \cup {Absent}]
    <2>1. CASE store' = store
      BY <2>1 DEF TypeInv, TypeOK
    <2>2. CASE store' = [store EXCEPT ![s][op.key] = new]
      <3>1. store = [t \in Stores |-> store[t]] /\ \A t \in Stores : store[t] \in [Keys(t) -> Version \cup {Absent}]
        BY DEF TypeInv, TypeOK
      <3>2. store'[s] = [store[s] EXCEPT ![op.key] = new] /\ \A t \in Stores : t # s => store'[t] = store[t]
        BY <1>3, <2>2, <3>1
      <3>3. store' = [t \in Stores |-> store'[t]]
        BY <1>3, <2>2, <3>1
      <3> QED
        BY <1>3, <1>5, <3>1, <3>2, <3>3
    <2> QED
      BY <1>1, <2>1, <2>2
  <1>9. /\ log' \in [Stores -> Seq(Record)]
        /\ \A t \in Stores : \A i \in DOMAIN log'[t] : log'[t][i].key \in Keys(t)
        /\ \A t \in Stores : synced[t] \in 0 .. Len(log'[t])
    <2>1. CASE log' = log
      BY <2>1 DEF TypeInv, TypeOK
    <2>2. CASE new # Absent /\ log' = [log EXCEPT ![s] = Append(log[s], [key |-> op.key, ver |-> new])]
      <3> DEFINE r == [key |-> op.key, ver |-> new]
      <3>1. r \in Record /\ r.key = op.key
        BY <1>3, <1>5, <2>2 DEF Op, Record
      <3>2. log \in [Stores -> Seq(Record)] /\ log[s] \in Seq(Record) /\ Len(log[s]) \in Nat
        BY <1>3 DEF TypeInv
      <3>3. log'[s] = Append(log[s], r) /\ \A t \in Stores : t # s => log'[t] = log[t]
        BY <1>3, <2>2, <3>2
      <3> HIDE DEF r
      <3>4. log' \in [Stores -> Seq(Record)]
        BY <1>3, <2>2, <3>1, <3>2 DEF r
      <3>5. /\ DOMAIN Append(log[s], r) = 1 .. Len(log[s]) + 1 /\ Len(Append(log[s], r)) = Len(log[s]) + 1
            /\ \A i \in 1 .. Len(log[s]) + 1 :
                  Append(log[s], r)[i] = IF i <= Len(log[s]) THEN log[s][i] ELSE r
            /\ DOMAIN log[s] = 1 .. Len(log[s])
        BY <3>1, <3>2
      <3>6. ASSUME NEW t \in Stores, NEW i \in DOMAIN log'[t] PROVE log'[t][i].key \in Keys(t)
        <4>1. \A u \in Stores : \A j \in DOMAIN log[u] : log[u][j].key \in Keys(u)
          BY DEF TypeInv
        <4>2. CASE t = s
          <5>1. i \in 1 .. Len(log[s]) + 1 /\ log'[t][i] = IF i <= Len(log[s]) THEN log[s][i] ELSE r
            BY <3>3, <3>5, <3>6, <4>2
          <5>2. CASE i <= Len(log[s])
            BY <1>3, <3>2, <3>5, <4>1, <4>2, <5>1, <5>2
          <5>3. CASE ~(i <= Len(log[s]))
            BY <1>3, <3>1, <4>2, <5>1, <5>3
          <5> QED
            BY <5>2, <5>3
        <4>3. CASE t # s
          BY <3>3, <3>6, <4>1, <4>3
        <4> QED
          BY <4>2, <4>3
      <3>7. \A t \in Stores : synced[t] \in 0 .. Len(log'[t])
        <4>1. \A t \in Stores : synced[t] \in 0 .. Len(log[t])
          BY DEF TypeInv, TypeOK
        <4>2. Len(log'[s]) = Len(log[s]) + 1 /\ synced[s] \in 0 .. Len(log[s])
          BY <1>3, <3>3, <3>5, <4>1
        <4>3. synced[s] \in 0 .. Len(log'[s])
          BY <3>2, <4>2
        <4> QED
          BY <3>3, <4>1, <4>3
      <3> QED
        BY <3>4, <3>6, <3>7
    <2> QED
      BY <1>1, <2>1, <2>2
  <1>10. TypeOK'
    BY <1>2, <1>8, <1>9 DEF TypeInv, TypeOK, tm, handle
  <1> QED
    BY <1>2, <1>6, <1>7, <1>8, <1>9, <1>10 DEF TypeInv, tm, handle

\* The rest of commit(), and rollback.
LEMMA CommitType ==
  ASSUME TypeInv, NEW c \in Clients, commit(c) \/ Applied(c) \/ flush(c) \/ rollback(c)
  PROVE  TypeInv'
  <1> USE BoundsAssumption
  <1>0. /\ pc \in [Clients -> States] /\ \A d \in Clients : tx_id[d] # 0 <=> pc[d] \notin {"idle", "reading"}
        /\ snapshot \in [Clients -> 0 .. MaxTx] /\ tx_id \in [Clients -> 0 .. MaxTx]
        /\ log \in [Stores -> Seq(Record)] /\ synced \in [Stores -> Nat]
        /\ \A s \in Stores : Len(log[s]) \in Nat /\ synced[s] \in 0 .. Len(log[s])
        /\ buf \in [Clients -> [Vectors -> Seq(Op)]]
    BY DEF TypeInv, TypeOK
  <1>1. CASE commit(c)
    <2>1. /\ next_tx_id' \in 1 .. MaxTx + 1 /\ committed_tx_id' \in 0 .. MaxTx
          /\ tickets' \subseteq 1 .. next_tx_id' - 1
      BY <1>1, TicketType DEF commit
    <2>2. pc' \in [Clients -> States] /\ \A d \in Clients : tx_id[d] # 0 <=> pc'[d] \notin {"idle", "reading"}
      BY <1>0, <1>1 DEF commit, States
    <2>3. TypeOK'
      BY <1>1, <2>1, <2>2 DEF commit, TypeInv, TypeOK, stores, handle
    <2> QED
      BY <1>1, <2>1, <2>3 DEF commit, TypeInv, stores, handle
  <1>2. CASE Applied(c)
    <2>1. pc' \in [Clients -> States] /\ \A d \in Clients : tx_id[d] # 0 <=> pc'[d] \notin {"idle", "reading"}
      BY <1>0, <1>2 DEF Applied, States, Stores
    <2>2. TypeOK'
      BY <1>2, <2>1 DEF Applied, TypeInv, TypeOK, tm, stores, handle
    <2> QED
      BY <1>2, <2>2 DEF Applied, TypeInv, tm, stores, handle
  <1>3. CASE flush(c)
    <2>1. synced' \in [Stores -> Nat] /\ \A s \in Stores : synced'[s] \in 0 .. Len(log[s])
      BY <1>0, <1>3 DEF flush
    <2>2. /\ pc' \in [Clients -> States] /\ \A d \in Clients : tx_id'[d] # 0 <=> pc'[d] \notin {"idle", "reading"}
          /\ snapshot' \in [Clients -> 0 .. MaxTx] /\ tx_id' \in [Clients -> 0 .. MaxTx]
      <3>1. CASE Close(c)
        BY <3>1, CloseType
      <3>2. CASE pc' = [pc EXCEPT ![c] = IF @ = "nodes" THEN "edges" ELSE "props"] /\ UNCHANGED handle
        BY <1>0, <1>3, <3>2 DEF flush, handle, States, Stores
      <3> QED
        BY <1>3, <3>1, <3>2 DEF flush
    <2>3. TypeOK'
      BY <1>3, <2>1, <2>2 DEF flush, TypeInv, TypeOK, tm, stores
    <2> QED
      BY <1>3, <2>1, <2>2, <2>3 DEF flush, TypeInv, tm, stores
  <1>4. CASE rollback(c)
    <2>1. /\ next_tx_id' \in 1 .. MaxTx + 1 /\ committed_tx_id' \in 0 .. MaxTx
          /\ tickets' \subseteq 1 .. next_tx_id' - 1
      BY <1>4, TicketType DEF rollback
    <2>2. /\ pc' \in [Clients -> States] /\ \A d \in Clients : tx_id'[d] # 0 <=> pc'[d] \notin {"idle", "reading"}
          /\ snapshot' \in [Clients -> 0 .. MaxTx] /\ tx_id' \in [Clients -> 0 .. MaxTx]
      BY <1>4, CloseType DEF rollback
    <2>3. TypeOK'
      BY <1>4, <2>1, <2>2 DEF rollback, TypeInv, TypeOK, stores
    <2>4. NoWrites \in [Vectors -> Seq(Op)] /\ \A v \in Vectors : NoWrites[v] = <<>>
      BY DEF NoWrites
    <2>5. buf' = [buf EXCEPT ![c] = NoWrites]
      BY <1>4 DEF rollback
    <2>6. buf' \in [Clients -> [Vectors -> Seq(Op)]]
      BY <1>0, <2>4, <2>5
    <2>7. \A d \in Clients, v \in Vectors : buf'[d][v] = buf[d][v] \/ buf'[d][v] = <<>>
      BY <1>0, <2>4, <2>5
    <2>8. \A d \in Clients, v \in Vectors : \A i \in DOMAIN buf'[d][v] : buf'[d][v][i].key \in Keys(StoreOf(v))
      <3> SUFFICES ASSUME NEW d \in Clients, NEW v \in Vectors, NEW i \in DOMAIN buf'[d][v]
                   PROVE  buf'[d][v][i].key \in Keys(StoreOf(v))
        OBVIOUS
      <3>1. buf'[d][v] # <<>>
        OBVIOUS
      <3>2. buf'[d][v] = buf[d][v]
        BY <2>7, <3>1
      <3> QED
        BY <3>2 DEF TypeInv
    <2> QED
      BY <1>4, <2>1, <2>2, <2>3, <2>6, <2>8 DEF rollback, TypeInv, stores
  <1> QED
    BY <1>1, <1>2, <1>3, <1>4

\* A crash cuts each WAL somewhere beyond what is synced.
LEMMA CrashIs ==
  ASSUME TypeInv, Crash
  PROVE  /\ log' \in [Stores -> Seq(Record)] /\ synced' \in [Stores -> Nat]
         /\ \A s \in Stores : /\ synced[s] <= synced'[s] /\ synced'[s] <= Len(log[s])
                              /\ Len(log'[s]) = synced'[s]
                              /\ \A i \in 1 .. Len(log'[s]) : log'[s][i] = log[s][i]
  <1>1. PICK n \in [Stores -> 0 .. MaxTx * MaxOps] :
          /\ \A s \in Stores : synced[s] <= n[s] /\ n[s] <= Len(log[s])
          /\ log' = [s \in Stores |-> SubSeq(log[s], 1, n[s])]
          /\ synced' = n
    BY DEF Crash
  <1>2. n \in [Stores -> Nat]
    BY <1>1, BoundsAssumption
  <1>3. log \in [Stores -> Seq(Record)]
    BY DEF TypeInv
  <1>4. ASSUME NEW s \in Stores
        PROVE  /\ SubSeq(log[s], 1, n[s]) \in Seq(Record)
               /\ Len(SubSeq(log[s], 1, n[s])) = n[s]
               /\ \A i \in 1 .. n[s] : SubSeq(log[s], 1, n[s])[i] = log[s][i]
    <2>1. log[s] \in Seq(Record) /\ n[s] \in Nat /\ n[s] <= Len(log[s])
      BY <1>1, <1>2, <1>3
    <2>2. \A i \in 1 .. n[s] : log[s][i] \in Record
      BY <2>1
    <2> QED
      BY <2>1, <2>2, SubSeqProperties
  <1> QED
    BY <1>1, <1>2, <1>4

\* A crash keeps the types.
LEMMA CrashType == ASSUME TypeInv, Crash PROVE TypeInv'
  <1> USE BoundsAssumption
  <1>1. /\ up /\ up' = FALSE /\ crashes < MaxCrashes /\ crashes' = crashes + 1
        /\ pc' = [c \in Clients |-> "idle"] /\ tx_id' = [c \in Clients |-> 0]
        /\ snapshot' = [c \in Clients |-> 0] /\ buf' = [c \in Clients |-> NoWrites]
        /\ UNCHANGED <<tm, store, next_id, history>>
    BY DEF Crash
  <1>2. NoWrites \in [Vectors -> Seq(Op)] /\ \A v \in Vectors : NoWrites[v] = <<>>
    BY DEF NoWrites
  <1>3. /\ buf' \in [Clients -> [Vectors -> Seq(Op)]]
        /\ \A c \in Clients, v \in Vectors : DOMAIN buf'[c][v] = {}
    BY <1>1, <1>2
  <1>4. \A s \in Stores : synced'[s] \in 0 .. Len(log'[s])
    BY CrashIs
  <1>5. ASSUME NEW s \in Stores, NEW i \in DOMAIN log'[s] PROVE log'[s][i].key \in Keys(s)
    <2>1. /\ log[s] \in Seq(Record) /\ log'[s] \in Seq(Record) /\ Len(log'[s]) <= Len(log[s])
          /\ log'[s][i] = log[s][i]
      <3>1. log'[s] \in Seq(Record) /\ log[s] \in Seq(Record)
        BY CrashIs DEF TypeInv
      <3>2. i \in 1 .. Len(log'[s])
        BY <3>1
      <3> QED
        BY <3>1, <3>2, CrashIs
    <2>2. i \in DOMAIN log[s]
      BY <2>1
    <2> QED
      BY <2>1, <2>2 DEF TypeInv
  <1>6. TypeOK'
    <2>1. TypeOK
      BY DEF TypeInv
    <2>2. crashes' \in 0 .. MaxCrashes /\ up' \in BOOLEAN
      <3>1. crashes \in 0 .. MaxCrashes
        BY <2>1 DEF TypeOK
      <3>2. crashes' \in 0 .. MaxCrashes
        BY <1>1, <3>1
      <3> QED
        BY <1>1, <3>2
    <2>3. pc' \in [Clients -> States] /\ snapshot' \in [Clients -> 0 .. MaxTx]
      BY <1>1 DEF States
    <2>4. \A c \in Clients : tx_id'[c] # 0 <=> pc'[c] \notin {"idle", "reading"}
      BY <1>1
    <2> QED
      BY <1>1, <1>4, <2>1, <2>2, <2>3, <2>4 DEF TypeOK, tm
  <1> QED
    BY <1>1, <1>3, <1>5, <1>6, CrashIs DEF TypeInv, tm

\* The last record of a key is what replay_wal restores.
LEMMA ReplayIs ==
  ASSUME TypeInv, NEW s \in Stores, NEW k \in Keys(s)
  PROVE  \/ /\ replay_wal(s)[k] = Absent
            /\ \A j \in DOMAIN log[s] : log[s][j].key # k
         \/ \E i \in DOMAIN log[s] : /\ log[s][i].key = k /\ replay_wal(s)[k] = log[s][i].ver
                                     /\ \A j \in DOMAIN log[s] : log[s][j].key = k => j <= i
  <1> DEFINE of == {i \in DOMAIN log[s] : log[s][i].key = k}
             last == CHOOSE i \in of : \A j \in of : j <= i
  <1>1. replay_wal(s)[k] = IF of = {} THEN Absent ELSE log[s][last].ver
    BY DEF replay_wal
  <1>2. CASE of = {}
    BY <1>1, <1>2
  <1>3. CASE of # {}
    <2>1. log[s] \in Seq(Record) /\ Len(log[s]) \in Nat
      BY DEF TypeInv
    <2>2. of \in SUBSET (0 .. Len(log[s]))
      BY <2>1
    <2>3. \E i \in of : \A j \in of : j <= i
      <3> HIDE DEF of
      <3> QED
        BY <1>3, <2>1, <2>2, GreatestNatural
    <2>4. last \in of /\ \A j \in of : j <= last
      BY <2>3
    <2> QED
      BY <1>1, <1>3, <2>4
  <1> QED
    BY <1>2, <1>3

\* open() starts the ids after the largest in the WAL.
LEMMA NextIdIs ==
  ASSUME TypeInv, Open, NEW s \in {"nodes", "edges"}
  PROVE  next_id'[s] \in 0 .. MaxKeys /\ \A i \in DOMAIN log[s] : log[s][i].key < next_id'[s]
  <1> USE BoundsAssumption
  <1> DEFINE P(n) == /\ \A i \in DOMAIN log[s] : log[s][i].key < n
                     /\ \E i \in DOMAIN log[s] : log[s][i].key = n - 1
  <1>0. log[s] \in Seq(Record) /\ \A i \in DOMAIN log[s] : log[s][i].key \in Ids
    BY KeysAre DEF TypeInv, Stores
  <1>1. next_id'[s] = IF log[s] = <<>> THEN 0 ELSE CHOOSE n \in 1 .. MaxKeys : P(n)
    BY DEF Open, TypeInv, TypeOK
  <1>2. CASE log[s] = <<>>
    BY <1>1, <1>2
  <1>3. CASE log[s] # <<>>
    <2> DEFINE T == {log[s][i].key : i \in DOMAIN log[s]}
    <2>1. 1 \in DOMAIN log[s]
      BY <1>0, <1>3
    <2>2. T # {} /\ MaxKeys - 1 \in Nat /\ T \in SUBSET (0 .. MaxKeys - 1)
      <3>1. log[s][1].key \in T /\ log[s][1].key \in 0 .. MaxKeys - 1
        BY <1>0, <2>1 DEF Ids
      <3>2. T \in SUBSET (0 .. MaxKeys - 1)
        BY <1>0 DEF Ids
      <3>3. MaxKeys - 1 \in Nat
        BY <3>1
      <3> QED
        BY <3>1, <3>2, <3>3
    <2>3. PICK m \in T : \A y \in T : y <= m
      <3> HIDE DEF T
      <3> QED
        BY <2>2, GreatestNatural
    <2>4. m \in 0 .. MaxKeys - 1
      BY <2>2, <2>3
    <2>5. P(m + 1) /\ m + 1 \in 1 .. MaxKeys
      <3>1. \A i \in DOMAIN log[s] : log[s][i].key <= m /\ log[s][i].key \in Int
        BY <1>0, <2>3 DEF Ids
      <3>2. \E i \in DOMAIN log[s] : log[s][i].key = m
        BY <2>3
      <3> QED
        BY <2>4, <3>1, <3>2
    <2>6. (CHOOSE n \in 1 .. MaxKeys : P(n)) \in 1 .. MaxKeys /\ P(CHOOSE n \in 1 .. MaxKeys : P(n))
      <3> HIDE DEF P
      <3> QED
        BY <2>5
    <2> QED
      BY <1>1, <1>3, <2>6
  <1> QED
    BY <1>2, <1>3

\* open() after a crash keeps the types.
LEMMA OpenType == ASSUME TypeInv, Open PROVE TypeInv'
  <1> USE BoundsAssumption
  <1>1. /\ ~up /\ up' = TRUE /\ next_tx_id' = 1 /\ committed_tx_id' = 0 /\ tickets' = {}
        /\ store' = [s \in Stores |-> replay_wal(s)]
        /\ UNCHANGED <<log, synced, pc, handle, buf, crashes>>
    BY DEF Open
  <1>2. next_id' \in [{"nodes", "edges"} -> 0 .. MaxKeys]
    <2>1. DOMAIN next_id = {"nodes", "edges"}
      BY DEF TypeInv, TypeOK
    <2>2. next_id' = [s \in {"nodes", "edges"} |-> next_id'[s]]
      BY <2>1 DEF Open
    <2> QED
      BY <2>2, NextIdIs
  <1>3. ASSUME NEW s \in Stores PROVE store'[s] \in [Keys(s) -> Version \cup {Absent}]
    <2>1. store'[s] = replay_wal(s) /\ log[s] \in Seq(Record)
      BY <1>1 DEF TypeInv
    <2>2. \A k \in Keys(s) : replay_wal(s)[k] \in Version \cup {Absent}
      <3> SUFFICES ASSUME NEW k \in Keys(s) PROVE replay_wal(s)[k] \in Version \cup {Absent}
        OBVIOUS
      <3>1. \A i \in DOMAIN log[s] : log[s][i].ver \in Version
        <4>1. \A i \in DOMAIN log[s] : log[s][i] \in Record
          BY <2>1
        <4> QED
          BY <4>1 DEF Record
      <3> QED
        BY <3>1, ReplayIs
    <2>3. replay_wal(s) = [k \in Keys(s) |-> replay_wal(s)[k]]
      BY DEF replay_wal
    <2> QED
      BY <2>1, <2>2, <2>3
  <1>4. TypeOK'
    BY <1>1, <1>2, <1>3 DEF TypeInv, TypeOK, handle
  <1>5. store' = [s \in Stores |-> store'[s]]
    BY <1>1
  <1> QED
    BY <1>1, <1>4, <1>5 DEF TypeInv, handle

\* Every step keeps the types.
LEMMA TypeStep == ASSUME TypeInv, [Next]_vars PROVE TypeInv'
  <1>1. ASSUME NEW c \in Clients, Step(c) PROVE TypeInv'
    BY <1>1, BeginType, CallType, ApplyType, CommitType DEF Step
  <1>2. CASE UNCHANGED vars
    <2>1. TypeOK'
      BY <1>2 DEF TypeInv, TypeOK, vars, tm, stores, handle, history
    <2> QED
      BY <1>2, <2>1 DEF TypeInv, vars, tm, stores, handle, history
  <1> QED
    BY <1>1, <1>2, CrashType, OpenType DEF Next

\* The types are right, through any number of crashes and restarts.
LEMMA AlwaysTypeInv == Spec => []TypeInv
  BY InitType, TypeStep, PTL DEF Spec

-----------------------------------------------------------------------------
(* Tickets                                                                 *)

\* The calls that buffer a write leave everything else alone.
LEMMA CallFrame ==
  ASSUME NEW c \in Clients,
         \/ create_node(c) \/ create_edge(c)
         \/ \E k \in Ids : \/ update_node_labels(c, k)
                           \/ delete(c, "node_deletes", k)
                           \/ delete(c, "edge_deletes", k)
         \/ \E k \in Cells : set_prop(c, k)
  PROVE  /\ up
         /\ UNCHANGED <<next_tx_id, committed_tx_id, tickets, store, log, synced, up, pc, tx_id, snapshot,
                        done, applied, acked, crashes>>
  BY DEF create_node, create_edge, update_node_labels, delete, set_prop, Buffer, tm, stores, handle, history

\* Every step keeps the tickets owned.
LEMMA TicketStep == ASSUME TypeInv, TicketsAreOwned, [Next]_vars PROVE TicketsAreOwned'
  <1> USE BoundsAssumption
  <1>0. /\ pc \in [Clients -> States] /\ tx_id \in [Clients -> 0 .. MaxTx]
        /\ next_tx_id \in 1 .. MaxTx + 1 /\ committed_tx_id \in 0 .. MaxTx
        /\ \A c \in Clients : tx_id[c] # 0 <=> pc[c] \notin {"idle", "reading"}
    BY DEF TypeInv, TypeOK
  <1>1. ASSUME NEW c \in Clients, begin_read(c) \/ EndRead(c) \/ latest_committed(c) PROVE TicketsAreOwned'
    BY <1>0, <1>1 DEF begin_read, EndRead, latest_committed, TicketsAreOwned, tm, history, Stores
  <1>2. ASSUME NEW c \in Clients, begin_write(c) PROVE TicketsAreOwned'
    <2>1. /\ tx_id' = [tx_id EXCEPT ![c] = next_tx_id] /\ pc' = [pc EXCEPT ![c] = "ticketed"]
          /\ next_tx_id' = next_tx_id + 1 /\ UNCHANGED <<committed_tx_id, acked>>
      BY <1>2 DEF begin_write, Tickets!Issue, history
    <2>2. next_tx_id \notin acked
      BY <1>0 DEF TicketsAreOwned
    <2> QED
      BY <1>0, <2>1, <2>2 DEF TicketsAreOwned, Stores
  <1>3. ASSUME UNCHANGED <<next_tx_id, committed_tx_id, tx_id, pc, acked>> PROVE TicketsAreOwned'
    BY <1>3 DEF TicketsAreOwned
  <1>4. ASSUME NEW c \in Clients, commit(c) PROVE TicketsAreOwned'
    <2>1. /\ tx_id[c] = committed_tx_id + 1 /\ pc' = [pc EXCEPT ![c] = "apply"]
          /\ committed_tx_id' = committed_tx_id + 1 /\ UNCHANGED <<next_tx_id, tx_id, acked>>
      BY <1>4 DEF commit, Tickets!Retire, handle
    <2> QED
      BY <1>0, <2>1 DEF TicketsAreOwned, Stores
  <1>5. ASSUME NEW c \in Clients, Apply(c) PROVE TicketsAreOwned'
    BY <1>3, <1>5 DEF Apply, tm, handle
  <1>6. ASSUME NEW c \in Clients, Applied(c) PROVE TicketsAreOwned'
    BY <1>0, <1>6 DEF Applied, TicketsAreOwned, tm, handle, history, Stores
  <1>7. ASSUME NEW c \in Clients, flush(c) PROVE TicketsAreOwned'
    <2>0. pc[c] \in Stores /\ tx_id[c] # 0 /\ UNCHANGED <<next_tx_id, committed_tx_id>>
      BY <1>0, <1>7 DEF flush, tm, Stores
    <2>1. CASE Close(c) /\ acked' = acked \cup {tx_id[c]}
      <3>1. pc' = [pc EXCEPT ![c] = "idle"] /\ tx_id' = [tx_id EXCEPT ![c] = 0]
        BY <2>1 DEF Close
      <3>2. /\ tx_id'[c] = 0 /\ pc'[c] = "idle"
            /\ \A d \in Clients : d # c => tx_id'[d] = tx_id[d] /\ pc'[d] = pc[d]
        BY <1>0, <3>1
      <3>3. tx_id[c] \in 1 .. next_tx_id - 1 /\ \A d \in Clients : d # c => tx_id[d] # tx_id[c]
        BY <1>0, <2>0 DEF TicketsAreOwned
      <3>4. acked' \subseteq 1 .. next_tx_id - 1
        BY <2>1, <3>3 DEF TicketsAreOwned
      <3>5. \A d \in Clients : tx_id'[d] # 0 => tx_id'[d] < next_tx_id /\ tx_id'[d] \notin acked'
        BY <2>1, <3>2, <3>3 DEF TicketsAreOwned
      <3>6. \A d, e \in Clients : tx_id'[d] # 0 /\ tx_id'[d] = tx_id'[e] => d = e
        BY <3>2 DEF TicketsAreOwned
      <3>7. \A d \in Clients : pc'[d] \in {"apply"} \cup Stores => tx_id'[d] <= committed_tx_id
        BY <3>2 DEF TicketsAreOwned, Stores
      <3> QED
        BY <2>0, <3>4, <3>5, <3>6, <3>7 DEF TicketsAreOwned
    <2>2. CASE pc' = [pc EXCEPT ![c] = IF @ = "nodes" THEN "edges" ELSE "props"] /\ UNCHANGED <<handle, acked>>
      BY <1>0, <2>0, <2>2 DEF TicketsAreOwned, handle, Stores
    <2> QED
      BY <1>7, <2>1, <2>2 DEF flush
  <1>8. ASSUME NEW c \in Clients, rollback(c) PROVE TicketsAreOwned'
    <2>1. /\ pc' = [pc EXCEPT ![c] = "idle"] /\ tx_id' = [tx_id EXCEPT ![c] = 0]
          /\ committed_tx_id' = committed_tx_id + 1 /\ UNCHANGED <<next_tx_id, acked>>
      BY <1>8 DEF rollback, Tickets!Retire, Close, history
    <2> QED
      BY <1>0, <2>1 DEF TicketsAreOwned, Stores
  <1>9. CASE Crash
    BY <1>9 DEF Crash, TicketsAreOwned, tm, history, Stores
  <1>10. CASE Open
    <2>1. \A c \in Clients : tx_id[c] = 0 /\ pc[c] = "idle"
      BY <1>0, <1>10 DEF Open, TypeInv
    <2> QED
      BY <1>10, <2>1 DEF Open, TicketsAreOwned, handle, Stores
  <1>11. CASE UNCHANGED vars
    BY <1>3, <1>11 DEF vars, tm, handle, history
  <1>12. ASSUME NEW c \in Clients, Step(c) PROVE TicketsAreOwned'
    BY <1>1, <1>2, <1>3, <1>4, <1>5, <1>6, <1>7, <1>8, <1>12, CallFrame DEF Step
  <1> QED
    BY <1>9, <1>10, <1>11, <1>12 DEF Next

-----------------------------------------------------------------------------
(* Durability                                                              *)

\* Every step keeps what commit() has flushed so far, and what it promised.
LEMMA DurableStep ==
  ASSUME TypeInv, TicketsAreOwned, FlushedSoFar, CommitIsDurable, [Next]_vars
  PROVE  FlushedSoFar' /\ CommitIsDurable'
  <1> USE BoundsAssumption
  <1>0. /\ pc \in [Clients -> States] /\ tx_id \in [Clients -> 0 .. MaxTx]
        /\ \A c \in Clients : tx_id[c] # 0 <=> pc[c] \notin {"idle", "reading"}
        /\ log \in [Stores -> Seq(Record)] /\ synced \in [Stores -> Nat]
        /\ \A s \in Stores : Len(log[s]) \in Nat /\ synced[s] <= Len(log[s])
    BY DEF TypeInv, TypeOK
  \* Steps of handles that are not flushing.
  <1>1. ASSUME NEW c \in Clients, UNCHANGED <<log, synced, up, applied, acked>>, pc'[c] \notin {"edges", "props"},
               \A d \in Clients : d # c => pc'[d] = pc[d] /\ tx_id'[d] = tx_id[d]
        PROVE  FlushedSoFar' /\ CommitIsDurable'
    BY <1>1 DEF FlushedSoFar, CommitIsDurable
  <1>2. ASSUME NEW c \in Clients, Apply(c) PROVE FlushedSoFar' /\ CommitIsDurable'
    <2>1. up /\ pc[c] = "apply" /\ UNCHANGED <<synced, up, pc, tx_id, acked>>
      BY <1>2 DEF Apply, handle
    <2>2. PICK v \in Vectors : \E s, op, new : Applies(c, v, s, op, new)
      BY <1>2, ApplyIs
    <2>3. PICK s, op, new : Applies(c, v, s, op, new)
      BY <2>2
    <2>4. CASE UNCHANGED <<log, applied>>
      BY <2>1, <2>4 DEF FlushedSoFar, CommitIsDurable
    <2>5. CASE ~UNCHANGED <<log, applied>>
      <3> DEFINE r == [key |-> op.key, ver |-> new]
                 w0 == [tx |-> tx_id[c], by |-> v, store |-> s, key |-> op.key, pos |-> Len(log[s]) + 1]
      <3>1. s \in Stores /\ log' = [log EXCEPT ![s] = Append(log[s], r)] /\ applied' = applied \cup {w0}
        BY <2>3, <2>5, StoreOfIs DEF Applies
      <3>2. w0.tx = tx_id[c] /\ w0.store = s /\ w0.pos = Len(log[s]) + 1
        OBVIOUS
      <3>3. Len(log'[s]) = Len(log[s]) + 1 /\ \A t \in Stores : t # s => log'[t] = log[t]
        BY <1>0, <3>1
      <3>4. \A t \in Stores : Len(log[t]) <= Len(log'[t]) /\ Len(log'[t]) \in Nat
        BY <1>0, <3>3, SMTT(30)
      <3>5. tx_id[c] # 0 /\ tx_id[c] \notin acked /\ \A d \in Clients : tx_id[d] = tx_id[c] => d = c
        BY <1>0, <2>1 DEF TicketsAreOwned
      <3> HIDE DEF w0, r
      <3>6. ASSUME NEW w \in applied'
            PROVE  w.store \in Stores /\ w.pos \in Nat /\ w.pos <= Len(log'[w.store])
        <4>1. CASE w = w0
          BY <1>0, <3>1, <3>2, <3>3, <4>1
        <4>2. CASE w \in applied
          <5>1. w.store \in Stores /\ w.pos \in Nat /\ w.pos <= Len(log[w.store])
            BY <2>1, <4>2 DEF FlushedSoFar
          <5> QED
            BY <1>0, <3>4, <5>1
        <4> QED
          BY <3>1, <3>6, <4>1, <4>2
      <3>7. ASSUME NEW d \in Clients, NEW w \in applied', w.tx = tx_id[d]
            PROVE  /\ pc[d] \in {"edges", "props"} /\ w.store = "nodes" => w.pos <= synced["nodes"]
                   /\ pc[d] = "props" /\ w.store = "edges" => w.pos <= synced["edges"]
        <4>1. CASE w = w0
          BY <2>1, <3>2, <3>5, <3>7, <4>1
        <4>2. CASE w \in applied
          BY <3>7, <4>2 DEF FlushedSoFar
        <4> QED
          BY <3>1, <3>7, <4>1, <4>2
      <3>8. CommitIsDurable'
        BY <2>1, <3>1, <3>2, <3>5 DEF CommitIsDurable
      <3> QED
        BY <2>1, <3>6, <3>7, <3>8 DEF FlushedSoFar
    <2> QED
      BY <2>4, <2>5
  <1>3. ASSUME NEW c \in Clients, flush(c) PROVE FlushedSoFar' /\ CommitIsDurable'
    <2>1. /\ up /\ pc[c] \in Stores /\ synced' = [synced EXCEPT ![pc[c]] = Len(log[pc[c]])]
          /\ UNCHANGED <<log, up, applied>>
      BY <1>3 DEF flush, stores
    <2>2. \A s \in Stores : synced[s] <= synced'[s] /\ synced'[s] \in Nat
      BY <1>0, <2>1
    <2>3. synced'[pc[c]] = Len(log[pc[c]])
      BY <1>0, <2>1
    <2>4. \A w \in applied : w.store \in Stores /\ w.pos \in Nat /\ w.pos <= Len(log[w.store])
      BY <2>1 DEF FlushedSoFar
    <2>5. \A w \in applied : w.store = pc[c] => w.pos <= synced'[w.store]
      BY <2>3, <2>4
    <2>6. \A w \in applied : w.pos <= synced[w.store] => w.pos <= synced'[w.store]
      BY <1>0, <2>2, <2>4
    <2>7. CASE pc[c] = "props" /\ Close(c) /\ acked' = acked \cup {tx_id[c]}
      <3>1. pc' = [pc EXCEPT ![c] = "idle"] /\ tx_id' = [tx_id EXCEPT ![c] = 0]
        BY <2>7 DEF Close
      <3>2. ASSUME NEW w \in applied, w.tx = tx_id[c] PROVE w.pos <= synced'[w.store]
        <4>1. w.store \in {"nodes", "edges", "props"}
          BY <2>4 DEF Stores
        <4>2. w.store \in {"nodes", "edges"} => w.pos <= synced[w.store]
          BY <2>7, <3>2 DEF FlushedSoFar
        <4> QED
          BY <2>5, <2>6, <2>7, <4>1, <4>2
      <3>3. CommitIsDurable'
        BY <2>1, <2>6, <2>7, <3>2 DEF CommitIsDurable
      <3>4. ASSUME NEW d \in Clients, NEW w \in applied, w.tx = tx_id'[d]
            PROVE  /\ pc'[d] \in {"edges", "props"} /\ w.store = "nodes" => w.pos <= synced'["nodes"]
                   /\ pc'[d] = "props" /\ w.store = "edges" => w.pos <= synced'["edges"]
        BY <1>0, <2>6, <3>1, <3>4 DEF FlushedSoFar
      <3> QED
        BY <2>1, <2>4, <3>3, <3>4 DEF FlushedSoFar
    <2>8. CASE /\ pc[c] # "props" /\ pc' = [pc EXCEPT ![c] = IF @ = "nodes" THEN "edges" ELSE "props"]
               /\ UNCHANGED <<handle, acked>>
      <3>1. CommitIsDurable'
        BY <2>1, <2>6, <2>8 DEF CommitIsDurable
      <3>2. ASSUME NEW d \in Clients, NEW w \in applied, w.tx = tx_id[d]
            PROVE  /\ pc'[d] \in {"edges", "props"} /\ w.store = "nodes" => w.pos <= synced'["nodes"]
                   /\ pc'[d] = "props" /\ w.store = "edges" => w.pos <= synced'["edges"]
        <4>1. CASE d # c
          BY <1>0, <2>6, <2>8, <3>2, <4>1 DEF FlushedSoFar
        <4>2. CASE d = c
          <5>1. pc[c] \in {"nodes", "edges"} /\ pc'[c] = IF pc[c] = "nodes" THEN "edges" ELSE "props"
            BY <1>0, <2>1, <2>8 DEF Stores
          <5> QED
            BY <2>5, <2>6, <3>2, <4>2, <5>1 DEF FlushedSoFar
        <4> QED
          BY <4>1, <4>2
      <3> QED
        BY <2>1, <2>4, <2>8, <3>1, <3>2 DEF FlushedSoFar, handle
    <2> QED
      BY <1>3, <2>7, <2>8 DEF flush
  <1>4. CASE Crash
    <2>1. up' = FALSE /\ pc' = [c \in Clients |-> "idle"] /\ UNCHANGED <<applied, acked>>
      BY <1>4 DEF Crash, history
    <2>2. \A s \in Stores : synced[s] <= synced'[s] /\ synced'[s] \in Nat
      BY <1>4, CrashIs
    <2>3. \A w \in applied : w.store \in Stores /\ w.pos \in Nat
      BY DEF FlushedSoFar
    <2>4. CommitIsDurable'
      BY <1>0, <2>1, <2>2, <2>3 DEF CommitIsDurable
    <2> QED
      BY <2>1, <2>3, <2>4 DEF FlushedSoFar
  <1>5. CASE Open
    BY <1>5 DEF Open, FlushedSoFar, CommitIsDurable
  <1>6. CASE UNCHANGED vars
    BY <1>6 DEF vars, stores, handle, history, FlushedSoFar, CommitIsDurable
  <1>7. ASSUME NEW c \in Clients,
               \/ begin_read(c) \/ EndRead(c) \/ begin_write(c) \/ latest_committed(c)
               \/ commit(c) \/ Applied(c) \/ rollback(c)
        PROVE  FlushedSoFar' /\ CommitIsDurable'
    <2>1. UNCHANGED <<log, synced, up, applied, acked>>
      BY <1>7 DEF begin_read, EndRead, begin_write, latest_committed, commit, Applied, rollback, stores, history
    <2>2. pc'[c] \notin {"edges", "props"} /\ \A d \in Clients : d # c => pc'[d] = pc[d] /\ tx_id'[d] = tx_id[d]
      BY <1>0, <1>7
      DEF begin_read, EndRead, begin_write, latest_committed, commit, Applied, rollback, Close, handle
    <2> QED
      BY <1>1, <2>1, <2>2
  <1>8. ASSUME NEW c \in Clients, Step(c) PROVE FlushedSoFar' /\ CommitIsDurable'
    <2>1. ASSUME UNCHANGED <<log, synced, up, pc, tx_id, applied, acked>> PROVE FlushedSoFar' /\ CommitIsDurable'
      BY <2>1 DEF FlushedSoFar, CommitIsDurable
    <2> QED
      BY <1>2, <1>3, <1>7, <1>8, <2>1, CallFrame DEF Step
  <1> QED
    BY <1>4, <1>5, <1>6, <1>8 DEF Next

\* When commit() has returned, every record of the transaction is on the disk
\* of its store: for any schedule of the clients, through crashes and restarts.
THEOREM CommittedIsDurable == Spec => []CommitIsDurable
  <1>1. Init => TicketsAreOwned /\ FlushedSoFar /\ CommitIsDurable
    BY DEF Init, TicketsAreOwned, FlushedSoFar, CommitIsDurable, Stores
  <1>2. TypeInv /\ TicketsAreOwned /\ FlushedSoFar /\ CommitIsDurable /\ [Next]_vars
          => TicketsAreOwned' /\ FlushedSoFar' /\ CommitIsDurable'
    BY TicketStep, DurableStep
  <1> QED
    BY <1>1, <1>2, AlwaysTypeInv, PTL DEF Spec

-----------------------------------------------------------------------------
(* What a write changes in the buffers and the stores                      *)

\* What each vector writes.
LEMMA WrittenIs ==
  ASSUME NEW old, NEW op, NEW x
  PROVE  /\ \A v \in {"node_inserts", "edge_inserts"} : Written(v, old, op, x) = Inserted(x, op.data)
         /\ Written("prop_writes", old, op, x) = Cell(op.data)
         /\ Written("node_updates", old, op, x) = IF old # Absent THEN Relabelled(old, x, op.data) ELSE Absent
         /\ \A v \in {"node_deletes", "edge_deletes"} :
               Written(v, old, op, x) = IF old # Absent THEN Deleted(old, x) ELSE Absent
  BY DEF Written

\* The stamps and the data of what a vector writes.
LEMMA WrittenStamps ==
  ASSUME NEW v \in Vectors, NEW old \in Version \cup {Absent}, NEW op \in Op, NEW x \in 1 .. MaxTx,
         NEW new, new = Written(v, old, op, x), new # Absent
  PROVE  /\ new \in Version
         /\ v \in {"node_inserts", "edge_inserts"} =>
               new.created_tx = x /\ new.deleted_tx = MAX_TX_ID /\ new.data = op.data
         /\ v = "prop_writes" => new.created_tx = 0 /\ new.deleted_tx = MAX_TX_ID
         /\ v = "node_updates" => old # Absent /\ new.created_tx = x /\ new.deleted_tx = old.deleted_tx
         /\ v \in {"node_deletes", "edge_deletes"} =>
               old # Absent /\ new.created_tx = old.created_tx /\ new.deleted_tx = x /\ new.data = old.data
  <1>1. new \in Version
    BY WrittenType
  <1>2. v \in {"node_inserts", "edge_inserts"} =>
          new.created_tx = x /\ new.deleted_tx = MAX_TX_ID /\ new.data = op.data
    BY WrittenIs DEF Inserted
  <1>3. v = "prop_writes" => new.created_tx = 0 /\ new.deleted_tx = MAX_TX_ID
    BY WrittenIs DEF Cell
  <1>4. v = "node_updates" => old # Absent /\ new.created_tx = x /\ new.deleted_tx = old.deleted_tx
    BY WrittenIs DEF Relabelled
  <1>5. ASSUME v \in {"node_deletes", "edge_deletes"}
        PROVE  old # Absent /\ new.created_tx = old.created_tx /\ new.deleted_tx = x /\ new.data = old.data
    <2>1. old # Absent /\ old \in Version /\ new = Deleted(old, x)
      BY <1>5, WrittenIs
    <2> QED
      BY <2>1 DEF Deleted, Version
  <1> QED
    BY <1>1, <1>2, <1>3, <1>4, <1>5

\* A buffering call, seen from the buffers.
CallAdds(c, v, op) ==
    /\ up /\ v \in Calls /\ buf' = [buf EXCEPT ![c][v] = Append(buf[c][v], op)]
    /\ UNCHANGED store
    /\ \/ v = "node_inserts" /\ op.key = next_id["nodes"] /\ next_id' = [next_id EXCEPT !["nodes"] = @ + 1]
       \/ /\ v = "edge_inserts" /\ op.key = next_id["edges"] /\ op.data \in KnownNodes(c)
          /\ next_id' = [next_id EXCEPT !["edges"] = @ + 1]
       \/ v = "node_updates" /\ UNCHANGED next_id
       \/ v \in {"node_deletes", "edge_deletes"} /\ (Polite => Spared(v, op.key)) /\ UNCHANGED next_id
       \/ v = "prop_writes" /\ UNCHANGED next_id

\* Every call that buffers a write is one of these.
LEMMA CallIs ==
  ASSUME NEW c \in Clients,
         \/ create_node(c) \/ create_edge(c)
         \/ \E k \in Ids : \/ update_node_labels(c, k)
                           \/ delete(c, "node_deletes", k)
                           \/ delete(c, "edge_deletes", k)
         \/ \E k \in Cells : set_prop(c, k)
  PROVE  \E v \in Vectors : \E op : CallAdds(c, v, op)
  <1> USE VectorsAre
  <1>1. CASE create_node(c)
    <2>1. CallAdds(c, "node_inserts", [key |-> next_id["nodes"], data |-> tx_id[c]])
      BY <1>1 DEF create_node, Buffer, CallAdds, stores
    <2> QED
      BY <2>1
  <1>2. CASE create_edge(c)
    <2>1. PICK src \in KnownNodes(c) : Buffer(c, "edge_inserts", [key |-> next_id["edges"], data |-> src])
      BY <1>2 DEF create_edge
    <2>2. CallAdds(c, "edge_inserts", [key |-> next_id["edges"], data |-> src])
      BY <1>2, <2>1 DEF create_edge, Buffer, CallAdds, stores
    <2> QED
      BY <2>2
  <1>3. ASSUME NEW k \in Ids, update_node_labels(c, k) PROVE \E v \in Vectors : \E op : CallAdds(c, v, op)
    BY <1>3 DEF update_node_labels, Buffer, CallAdds, stores
  <1>4. ASSUME NEW k \in Ids, NEW v \in {"node_deletes", "edge_deletes"}, delete(c, v, k)
        PROVE  \E w \in Vectors : \E op : CallAdds(c, w, op)
    <2>1. CallAdds(c, v, [key |-> k, data |-> 0])
      BY <1>4 DEF delete, Buffer, CallAdds, stores
    <2> QED
      BY <2>1
  <1>5. ASSUME NEW k \in Cells, set_prop(c, k) PROVE \E v \in Vectors : \E op : CallAdds(c, v, op)
    BY <1>5 DEF set_prop, Buffer, CallAdds, stores
  <1> QED
    BY <1>1, <1>2, <1>3, <1>4, <1>5

\* The steps of an open database, seen from the buffers and the stores.
LEMMA BufferStep ==
  ASSUME up, [Next]_vars
  PROVE  \/ Crash
         \/ \E c \in Clients : Apply(c)
         \/ \E c \in Clients, v \in Vectors : \E op : CallAdds(c, v, op)
         \/ /\ UNCHANGED <<up, store, next_id>>
            /\ (buf' = buf \/ \E c \in Clients : buf' = [buf EXCEPT ![c] = NoWrites])
  <1>1. ASSUME NEW c \in Clients, begin_read(c) \/ EndRead(c) \/ begin_write(c) \/ latest_committed(c)
        PROVE  UNCHANGED <<up, store, next_id, buf>>
    BY <1>1 DEF begin_read, EndRead, begin_write, latest_committed, stores
  <1>2. ASSUME NEW c \in Clients, commit(c) \/ Applied(c) \/ flush(c)
        PROVE  UNCHANGED <<up, store, next_id, buf>>
    BY <1>2 DEF commit, Applied, flush, stores
  <1>3. ASSUME NEW c \in Clients, rollback(c)
        PROVE  UNCHANGED <<up, store, next_id>> /\ buf' = [buf EXCEPT ![c] = NoWrites]
    BY <1>3 DEF rollback, stores
  <1>4. ASSUME UNCHANGED vars PROVE UNCHANGED <<up, store, next_id, buf>>
    BY <1>4 DEF vars, stores
  <1>5. ~Open
    BY DEF Open
  <1>6. ASSUME NEW c \in Clients, Step(c)
        PROVE  \/ \E d \in Clients : Apply(d)
               \/ \E d \in Clients, v \in Vectors : \E op : CallAdds(d, v, op)
               \/ /\ UNCHANGED <<up, store, next_id>>
                  /\ (buf' = buf \/ \E d \in Clients : buf' = [buf EXCEPT ![d] = NoWrites])
    BY <1>1, <1>2, <1>3, <1>6, CallIs DEF Step
  <1> QED
    BY <1>4, <1>5, <1>6 DEF Next

\* The first write of the first phase is gone.
Pops(c, v) == FirstPhase(c, v) /\ buf' = [buf EXCEPT ![c][v] = Tail(buf[c][v])]

\* Apply, seen from the buffers: one write of one of them is gone.
LEMMA ApplyBuffers ==
  ASSUME TypeInv, NEW c \in Clients, NEW v \in Vectors, Pops(c, v)
  PROVE  /\ \A i \in DOMAIN buf'[c][v] : i + 1 \in DOMAIN buf[c][v] /\ buf'[c][v][i] = buf[c][v][i + 1] /\ i \in Nat \ {0}
         /\ \A i \in DOMAIN buf[c][v] : i # 1 => i - 1 \in DOMAIN buf'[c][v] /\ buf'[c][v][i - 1] = buf[c][v][i]
         /\ 1 \in DOMAIN buf[c][v]
         /\ \A d \in Clients, w \in Vectors : d # c \/ w # v => buf'[d][w] = buf[d][w]
  <1>1. buf \in [Clients -> [Vectors -> Seq(Op)]]
    BY DEF TypeInv
  <1>2. buf'[c][v] = Tail(buf[c][v]) /\ \A d \in Clients, w \in Vectors : d # c \/ w # v => buf'[d][w] = buf[d][w]
    BY <1>1 DEF Pops
  <1>3. /\ Len(buf[c][v]) \in Nat /\ Len(buf[c][v]) >= 1
        /\ DOMAIN buf[c][v] = 1 .. Len(buf[c][v])
        /\ DOMAIN Tail(buf[c][v]) = 1 .. Len(buf[c][v]) - 1
        /\ \A i \in 1 .. Len(buf[c][v]) - 1 : Tail(buf[c][v])[i] = buf[c][v][i + 1]
    BY FirstPhaseIs DEF Pops
  <1>4. ASSUME NEW i \in DOMAIN buf'[c][v]
        PROVE  i + 1 \in DOMAIN buf[c][v] /\ buf'[c][v][i] = buf[c][v][i + 1] /\ i \in Nat \ {0}
    <2>1. buf'[c][v] = Tail(buf[c][v])
      BY <1>2
    <2>2. i \in 1 .. Len(buf[c][v]) - 1
      BY <1>3, <1>4, <2>1
    <2>3. i + 1 \in 1 .. Len(buf[c][v]) /\ i \in Nat \ {0}
      BY <1>3, <2>2
    <2>4. Tail(buf[c][v])[i] = buf[c][v][i + 1]
      BY <1>3, <2>2
    <2> QED
      BY <1>3, <2>1, <2>3, <2>4
  <1>5. ASSUME NEW i \in DOMAIN buf[c][v], i # 1
        PROVE  i - 1 \in DOMAIN buf'[c][v] /\ buf'[c][v][i - 1] = buf[c][v][i]
    <2>1. i - 1 \in 1 .. Len(buf[c][v]) - 1 /\ (i - 1) + 1 = i
      BY <1>3, <1>5
    <2> QED
      BY <1>2, <1>3, <2>1
  <1> QED
    BY <1>2, <1>3, <1>4, <1>5

\* One write of phase 2, with its types, key by key.
AppliesAt(c, v, s, op, new) ==
    /\ pc[c] = "apply" /\ tx_id[c] \in 1 .. MaxTx
    /\ Pops(c, v) /\ s = StoreOf(v) /\ op = buf[c][v][1] /\ op.key \in Keys(s)
    /\ store[s][op.key] \in Version \cup {Absent}
    /\ new = Written(v, store[s][op.key], op, tx_id[c])
    /\ \/ new = Absent /\ store' = store
       \/ /\ new # Absent /\ new \in Version /\ store'[s][op.key] = new
          /\ \A k \in Keys(s) : k # op.key => store'[s][k] = store[s][k]
          /\ \A t \in Stores : t # s => store'[t] = store[t]
    /\ UNCHANGED <<up, next_id, pc, tx_id, snapshot>>

\* Apply is one of these.
LEMMA ApplyPoint ==
  ASSUME TypeInv, NEW c \in Clients, Apply(c)
  PROVE  \E v \in Vectors, s \in Stores, op \in Op : \E new : AppliesAt(c, v, s, op, new)
  <1>1. PICK v \in Vectors : \E s, op, new : Applies(c, v, s, op, new)
    BY ApplyIs
  <1>2. PICK s, op, new : Applies(c, v, s, op, new)
    BY <1>1
  <1>3. /\ op = Head(buf[c][v]) /\ s = StoreOf(v) /\ new = Written(v, store[s][op.key], op, tx_id[c])
        /\ FirstPhase(c, v) /\ Pops(c, v)
    BY <1>2 DEF Applies, Pops
  <1>4. op = buf[c][v][1] /\ op \in Op /\ op.key \in Keys(s)
    BY <1>3, FirstPhaseIs
  <1>5. s \in Stores
    BY <1>3, StoreOfIs
  <1>6. store = [t \in Stores |-> store[t]] /\ \A t \in Stores : store[t] \in [Keys(t) -> Version \cup {Absent}]
    BY DEF TypeInv, TypeOK
  <1>7. /\ pc[c] = "apply" /\ tx_id[c] \in 1 .. MaxTx
        /\ UNCHANGED <<up, next_id, pc, tx_id, snapshot>>
    <2>1. pc[c] = "apply" /\ tx_id[c] \in 0 .. MaxTx /\ UNCHANGED <<up, next_id, pc, tx_id, snapshot>>
      BY DEF Apply, TypeInv, handle
    <2>2. tx_id[c] # 0
      BY <2>1 DEF TypeInv, TypeOK
    <2> QED
      BY <2>1, <2>2, BoundsAssumption
  <1>8. store[s][op.key] \in Version \cup {Absent}
    BY <1>4, <1>5, <1>6
  <1>9. new \in Version \cup {Absent}
    BY <1>3, <1>4, <1>7, <1>8, WrittenType
  <1>10. \/ new = Absent /\ store' = store
         \/ /\ new # Absent /\ new \in Version /\ store'[s][op.key] = new
            /\ \A k \in Keys(s) : k # op.key => store'[s][k] = store[s][k]
            /\ \A t \in Stores : t # s => store'[t] = store[t]
    <2>1. CASE new = Absent /\ store' = store
      BY <2>1
    <2>2. CASE new # Absent /\ store' = [store EXCEPT ![s][op.key] = new]
      <3>1. store'[s] = [store[s] EXCEPT ![op.key] = new] /\ \A t \in Stores : t # s => store'[t] = store[t]
        BY <1>5, <1>6, <2>2
      <3> QED
        BY <1>4, <1>5, <1>6, <1>9, <2>2, <3>1
    <2> QED
      BY <1>2, <2>1, <2>2 DEF Applies
  <1>11. AppliesAt(c, v, s, op, new)
    BY <1>3, <1>4, <1>7, <1>8, <1>10 DEF AppliesAt
  <1> QED
    BY <1>4, <1>5, <1>11

\* A call, seen from the buffers: one write is added to the end of one of them.
LEMMA CallBuffers ==
  ASSUME TypeInv, NEW c \in Clients, NEW v \in Vectors, NEW op, CallAdds(c, v, op), TypeInv'
  PROVE  /\ DOMAIN buf'[c][v] = DOMAIN buf[c][v] \cup {Len(buf[c][v]) + 1}
         /\ Len(buf[c][v]) + 1 \notin DOMAIN buf[c][v]
         /\ buf'[c][v][Len(buf[c][v]) + 1] = op
         /\ \A i \in DOMAIN buf[c][v] : buf'[c][v][i] = buf[c][v][i]
         /\ \A d \in Clients, w \in Vectors : d # c \/ w # v => buf'[d][w] = buf[d][w]
  <1>1. buf \in [Clients -> [Vectors -> Seq(Op)]] /\ buf' \in [Clients -> [Vectors -> Seq(Op)]]
    BY DEF TypeInv
  <1>2. /\ buf'[c][v] = Append(buf[c][v], op)
        /\ \A d \in Clients, w \in Vectors : d # c \/ w # v => buf'[d][w] = buf[d][w]
    BY <1>1 DEF CallAdds
  <1>3. buf[c][v] \in Seq(Op \cup {op})
    BY <1>1
  <1>4. /\ Len(buf[c][v]) \in Nat /\ DOMAIN buf[c][v] = 1 .. Len(buf[c][v])
        /\ Len(Append(buf[c][v], op)) = Len(buf[c][v]) + 1
        /\ DOMAIN Append(buf[c][v], op) = 1 .. Len(buf[c][v]) + 1
        /\ Append(buf[c][v], op)[Len(buf[c][v]) + 1] = op
        /\ \A i \in 1 .. Len(buf[c][v]) : Append(buf[c][v], op)[i] = buf[c][v][i]
    BY <1>3
  <1> QED
    BY <1>2, <1>4

\* The writes of a phase are applied when those of the earlier ones are.
LEMMA NodesFirst ==
  ASSUME NEW c, FirstPhase(c, "edge_inserts") PROVE buf[c]["node_inserts"] = <<>>
  <1>1. PICK i \in DOMAIN Phases : Phases[i] = "edge_inserts" /\ \A j \in 1 .. i - 1 : buf[c][Phases[j]] = <<>>
    BY DEF FirstPhase
  <1>2. i = 4 /\ Phases[1] = "node_inserts"
    BY <1>1 DEF Phases
  <1> QED
    BY <1>1, <1>2

\* A handle with nothing buffered.
LEMMA NoWritesAre == \A v \in Vectors : DOMAIN NoWrites[v] = {} /\ NoWrites[v] = <<>>
  BY DEF NoWrites

-----------------------------------------------------------------------------
(* One lifetime: what the stores hold                                      *)

\* Only Apply changes a store that stays open, and no ticket comes back.
LEMMA LifetimeStep ==
  ASSUME OneLifetime, TypeInv, up, [Next]_vars
  PROVE  /\ up' /\ committed_tx_id <= committed_tx_id'
         /\ store' = store \/ \E c \in Clients : Apply(c)
  <1>0. committed_tx_id \in 0 .. MaxTx /\ crashes \in 0 .. MaxCrashes
    BY DEF TypeInv, TypeOK
  <1>1. ASSUME NEW c \in Clients, begin_read(c) \/ EndRead(c) \/ begin_write(c) \/ latest_committed(c)
        PROVE  up' /\ committed_tx_id' = committed_tx_id /\ store' = store
    BY <1>1 DEF begin_read, EndRead, begin_write, latest_committed, Tickets!Issue, tm, stores
  <1>2. ASSUME NEW c \in Clients, commit(c) \/ Applied(c) \/ flush(c) \/ rollback(c)
        PROVE  up' /\ committed_tx_id <= committed_tx_id' /\ store' = store
    <2>1. committed_tx_id' = committed_tx_id \/ committed_tx_id' = committed_tx_id + 1
      BY <1>2 DEF commit, Applied, flush, rollback, Tickets!Retire, tm
    <2>2. up' /\ store' = store
      BY <1>2 DEF commit, Applied, flush, rollback, stores
    <2> QED
      BY <1>0, <2>1, <2>2, BoundsAssumption
  <1>3. ASSUME NEW c \in Clients, Apply(c) PROVE up' /\ committed_tx_id' = committed_tx_id
    BY <1>3 DEF Apply, tm
  <1>4. ~Crash /\ ~Open
    BY <1>0, BoundsAssumption DEF Crash, Open, OneLifetime
  <1>5. ASSUME UNCHANGED vars PROVE up' /\ committed_tx_id' = committed_tx_id /\ store' = store
    BY <1>5 DEF vars, tm, stores
  <1>6. committed_tx_id <= committed_tx_id
    BY <1>0, BoundsAssumption
  <1>7. ASSUME NEW c \in Clients, Step(c)
        PROVE  /\ up' /\ committed_tx_id <= committed_tx_id'
               /\ store' = store \/ \E d \in Clients : Apply(d)
    BY <1>1, <1>2, <1>3, <1>6, <1>7, CallFrame DEF Step
  <1> QED
    BY <1>4, <1>5, <1>6, <1>7 DEF Next

\* One lifetime: no store ever holds a stamp of a transaction that has not
\* committed.
THEOREM StampsOfCommitted == OneLifetime => (Spec => []StampsAreCommitted)
  <1> SUFFICES ASSUME OneLifetime PROVE Spec => []StampsAreCommitted
    OBVIOUS
  <1>1. Init => up /\ StampsAreCommitted /\ TicketsAreOwned
    <2>1. Init => StampsAreCommitted
      BY DEF Init, StampsAreCommitted
    <2> QED
      BY <2>1 DEF Init, TicketsAreOwned, Stores
  <1>2. ASSUME TypeInv, TicketsAreOwned, up, StampsAreCommitted, [Next]_vars
        PROVE  up' /\ StampsAreCommitted'
    <2>0. /\ committed_tx_id \in Nat /\ up' /\ committed_tx_id <= committed_tx_id'
          /\ (store' = store \/ \E c \in Clients : Apply(c))
      BY <1>2, LifetimeStep, BoundsAssumption, SMTT(30) DEF TypeInv, TypeOK
    <2>1. \A s \in Stores : \A k \in Keys(s) : store[s][k] \in Version \cup {Absent}
      BY <1>2 DEF TypeInv, TypeOK
    <2>2. TypeInv'
      BY <1>2, TypeStep
    <2>3. committed_tx_id' \in Nat
      BY <2>2, BoundsAssumption DEF TypeInv, TypeOK
    <2> DEFINE Fine(v, n) == v.created_tx <= n /\ (v.deleted_tx = MAX_TX_ID \/ v.deleted_tx <= n)
    <2>4. ASSUME NEW v \in Version, Fine(v, committed_tx_id) PROVE Fine(v, committed_tx_id')
      <3>1. v.created_tx \in Nat /\ v.deleted_tx \in Nat
        BY BoundsAssumption DEF Version, MAX_TX_ID
      <3> QED
        BY <2>0, <2>3, <2>4, <3>1
    <2>5. \A s \in Stores : \A k \in Keys(s) : store[s][k] # Absent => Fine(store[s][k], committed_tx_id)
      BY <1>2 DEF StampsAreCommitted
    <2>6. CASE store' = store
      <3>1. \A s \in Stores : \A k \in Keys(s) : store[s][k] # Absent => Fine(store[s][k], committed_tx_id')
        BY <2>1, <2>4, <2>5
      <3> QED
        BY <2>0, <2>6, <3>1 DEF StampsAreCommitted
    <2>7. ASSUME NEW c \in Clients, Apply(c), store' # store PROVE StampsAreCommitted'
      <3>a. PICK v \in Vectors, s \in Stores, op \in Op : \E n : AppliesAt(c, v, s, op, n)
        BY <1>2, <2>7, ApplyPoint
      <3>b. PICK new : AppliesAt(c, v, s, op, new)
        BY <3>a
      <3>1. /\ op.key \in Keys(s) /\ new # Absent /\ store'[s][op.key] = new
            /\ \A k \in Keys(s) : k # op.key => store'[s][k] = store[s][k]
            /\ \A t \in Stores : t # s => store'[t] = store[t]
        BY <2>7, <3>b DEF AppliesAt
      <3>2. /\ tx_id[c] \in 1 .. MaxTx /\ tx_id[c] <= committed_tx_id
            /\ committed_tx_id' = committed_tx_id
        BY <1>2, <2>7, <3>b DEF AppliesAt, TicketsAreOwned, Apply, tm
      <3>3. store[s][op.key] \in Version \cup {Absent} /\ new = Written(v, store[s][op.key], op, tx_id[c])
        BY <3>b DEF AppliesAt
      <3>4. /\ v \in {"node_inserts", "edge_inserts"} => new.created_tx = tx_id[c] /\ new.deleted_tx = MAX_TX_ID
            /\ v = "prop_writes" => new.created_tx = 0 /\ new.deleted_tx = MAX_TX_ID
            /\ v = "node_updates" => /\ store[s][op.key] # Absent /\ new.created_tx = tx_id[c]
                                     /\ new.deleted_tx = store[s][op.key].deleted_tx
            /\ v \in {"node_deletes", "edge_deletes"} =>
                  /\ store[s][op.key] # Absent /\ new.created_tx = store[s][op.key].created_tx
                  /\ new.deleted_tx = tx_id[c]
        BY <3>1, <3>2, <3>3, WrittenStamps
      <3>5. Fine(new, committed_tx_id)
        <4>1. store[s][op.key] # Absent => Fine(store[s][op.key], committed_tx_id)
          BY <2>5, <3>1
        <4>2. CASE v \in {"node_inserts", "edge_inserts"}
          BY <3>2, <3>4, <4>2
        <4>3. CASE v = "prop_writes"
          BY <2>0, <3>4, <4>3
        <4>4. CASE v = "node_updates"
          BY <3>2, <3>4, <4>1, <4>4
        <4>5. CASE v \in {"node_deletes", "edge_deletes"}
          BY <3>2, <3>4, <4>1, <4>5
        <4> QED
          BY <4>2, <4>3, <4>4, <4>5, VectorsAre
      <3>6. \A t \in Stores : \A k \in Keys(t) : store'[t][k] # Absent => Fine(store'[t][k], committed_tx_id)
        BY <2>5, <3>1, <3>5
      <3> QED
        BY <3>2, <3>6 DEF StampsAreCommitted
    <2> QED
      BY <2>0, <2>6, <2>7
  <1>3. TypeInv /\ TicketsAreOwned /\ up /\ StampsAreCommitted /\ [Next]_vars
          => TicketsAreOwned' /\ up' /\ StampsAreCommitted'
    BY <1>2, TicketStep
  <1> QED
    BY <1>1, <1>3, AlwaysTypeInv, PTL DEF Spec

-----------------------------------------------------------------------------
(* One lifetime: edges and their sources                                   *)

\* Every step of one lifetime keeps the sources known.
LEMMA SourceStep ==
  ASSUME TypeInv, up, SourcesAreKnown, [Next]_vars, OneLifetime
  PROVE  SourcesAreKnown'
  <1> USE KeysAre, VectorsAre
  <1>0. /\ "nodes" \in Stores /\ "edges" \in Stores /\ "nodes" # "edges"
        /\ \A k \in Ids : store["nodes"][k] \in Version \cup {Absent} /\ store["edges"][k] \in Version \cup {Absent}
        /\ buf \in [Clients -> [Vectors -> Seq(Op)]]
    BY DEF TypeInv, TypeOK, Stores
  <1>1. TypeInv' /\ up' /\ ~Crash
    BY TypeStep, LifetimeStep DEF Crash
  <1>2. CASE UNCHANGED <<up, store, next_id>> /\ buf' = buf
    BY <1>2 DEF SourcesAreKnown
  <1>3. ASSUME NEW c \in Clients, UNCHANGED <<up, store, next_id>>, buf' = [buf EXCEPT ![c] = NoWrites]
        PROVE  SourcesAreKnown'
    <2>1. DOMAIN buf'[c]["edge_inserts"] = {} /\ \A d \in Clients : d # c => buf'[d] = buf[d]
      BY <1>0, <1>3, NoWritesAre
    <2> QED
      BY <1>3, <2>1 DEF SourcesAreKnown
  <1>4. ASSUME NEW c \in Clients, NEW v \in Vectors, NEW op, CallAdds(c, v, op) PROVE SourcesAreKnown'
    <2>1. store' = store
      BY <1>4 DEF CallAdds
    <2>2. /\ DOMAIN buf'[c][v] = DOMAIN buf[c][v] \cup {Len(buf[c][v]) + 1}
          /\ buf'[c][v][Len(buf[c][v]) + 1] = op
          /\ \A i \in DOMAIN buf[c][v] : buf'[c][v][i] = buf[c][v][i]
          /\ \A d \in Clients, w \in Vectors : d # c \/ w # v => buf'[d][w] = buf[d][w]
      BY <1>1, <1>4, CallBuffers
    <2>3. \A d \in Clients : \A j \in DOMAIN buf[d]["node_inserts"] :
            j \in DOMAIN buf'[d]["node_inserts"] /\ buf'[d]["node_inserts"][j] = buf[d]["node_inserts"][j]
      BY <2>2
    <2>4. ASSUME NEW d \in Clients, NEW i \in DOMAIN buf'[d]["edge_inserts"],
                 NEW src, src = buf'[d]["edge_inserts"][i].data
          PROVE  src \in Ids /\ \/ store["nodes"][src] # Absent
                                \/ \E j \in DOMAIN buf'[d]["node_inserts"] : buf'[d]["node_inserts"][j].key = src
      <3>1. CASE i \in DOMAIN buf[d]["edge_inserts"] /\ buf'[d]["edge_inserts"][i] = buf[d]["edge_inserts"][i]
        <4>1. src \in Ids /\ \/ store["nodes"][src] # Absent
                             \/ \E j \in DOMAIN buf[d]["node_inserts"] : buf[d]["node_inserts"][j].key = src
          BY <2>4, <3>1 DEF SourcesAreKnown
        <4> QED
          BY <2>3, <4>1
      <3>2. CASE d = c /\ v = "edge_inserts" /\ i = Len(buf[c][v]) + 1
        <4>1. op.data \in KnownNodes(c) /\ src = op.data
          BY <1>4, <2>2, <2>4, <3>2 DEF CallAdds
        <4>2. \/ src \in Ids /\ store["nodes"][src] # Absent
              \/ \E j \in DOMAIN buf[c]["node_inserts"] : buf[c]["node_inserts"][j].key = src
          BY <4>1 DEF KnownNodes
        <4>3. \A j \in DOMAIN buf[c]["node_inserts"] : buf[c]["node_inserts"][j].key \in Ids
          BY StoreOfIs DEF TypeInv
        <4> QED
          BY <2>3, <3>2, <4>2, <4>3
      <3> QED
        BY <2>2, <2>4, <3>1, <3>2
    <2> QED
      BY <2>1, <2>4 DEF SourcesAreKnown
  <1>5. ASSUME NEW c \in Clients, Apply(c) PROVE SourcesAreKnown'
    <2>1. PICK v \in Vectors, s \in Stores, op \in Op : \E new : AppliesAt(c, v, s, op, new)
      BY <1>5, ApplyPoint
    <2>2. PICK new : AppliesAt(c, v, s, op, new)
      BY <2>1
    <2>3. s = StoreOf(v) /\ new = Written(v, store[s][op.key], op, tx_id[c]) /\ Pops(c, v) /\ FirstPhase(c, v)
      BY <2>2 DEF AppliesAt, Pops
    <2>4. op = buf[c][v][1] /\ op \in Op /\ op.key \in Keys(s)
      BY <2>2 DEF AppliesAt
    <2>5. /\ \A i \in DOMAIN buf'[c][v] :
                i + 1 \in DOMAIN buf[c][v] /\ buf'[c][v][i] = buf[c][v][i + 1] /\ i \in Nat \ {0}
          /\ \A i \in DOMAIN buf[c][v] : i # 1 => i - 1 \in DOMAIN buf'[c][v] /\ buf'[c][v][i - 1] = buf[c][v][i]
          /\ 1 \in DOMAIN buf[c][v]
          /\ \A d \in Clients, w \in Vectors : d # c \/ w # v => buf'[d][w] = buf[d][w]
      BY <2>3, ApplyBuffers
    <2>6. /\ s \in Stores /\ (v = "edge_inserts" => s = "edges") /\ (v = "node_inserts" => s = "nodes")
          /\ (s = "edges" => v \in {"edge_inserts", "edge_deletes"})
      BY <2>3, StoreOfIs
    <2>8. tx_id[c] \in 1 .. MaxTx
      BY <2>2 DEF AppliesAt
    <2>9. store[s][op.key] \in Version \cup {Absent}
      BY <2>2 DEF AppliesAt
    <2>10. \/ new = Absent /\ store' = store
           \/ /\ new # Absent /\ store'[s][op.key] = new
              /\ \A k \in Keys(s) : k # op.key => store'[s][k] = store[s][k]
              /\ \A t \in Stores : t # s => store'[t] = store[t]
      BY <2>2 DEF AppliesAt
    \* No node goes away, and the one to be inserted is there.
    <2>11. \A k \in Ids : store["nodes"][k] # Absent => store'["nodes"][k] # Absent
      BY <1>0, <2>10
    <2>12. v \in {"node_inserts", "edge_inserts"} => new # Absent
      <3>1. Inserted(tx_id[c], op.data) \in Version
        BY <2>4, <2>8, BoundsAssumption DEF Inserted, Version, Op, MAX_TX_ID
      <3>2. v \in {"node_inserts", "edge_inserts"} => new = Inserted(tx_id[c], op.data)
        BY <2>3, WrittenIs
      <3> QED
        BY <3>1, <3>2, AbsentAssumption
    <2>13. v = "node_inserts" => store'["nodes"][op.key] # Absent
      BY <2>6, <2>10, <2>12
    <2>14. ASSUME NEW d \in Clients, NEW j \in DOMAIN buf[d]["node_inserts"]
           PROVE  \/ store'["nodes"][buf[d]["node_inserts"][j].key] # Absent
                  \/ \E m \in DOMAIN buf'[d]["node_inserts"] :
                        buf'[d]["node_inserts"][m].key = buf[d]["node_inserts"][j].key
      <3>1. CASE d # c \/ v # "node_inserts"
        BY <2>5, <2>14, <3>1
      <3>2. CASE d = c /\ v = "node_inserts" /\ j = 1
        BY <2>4, <2>13, <3>2
      <3>3. CASE d = c /\ v = "node_inserts" /\ j # 1
        BY <2>5, <2>14, <3>3
      <3> QED
        BY <3>1, <3>2, <3>3
    <2>15. ASSUME NEW d \in Clients, NEW i \in DOMAIN buf[d]["edge_inserts"],
                  NEW src, src = buf[d]["edge_inserts"][i].data
           PROVE  src \in Ids /\ \/ store'["nodes"][src] # Absent
                                 \/ \E j \in DOMAIN buf'[d]["node_inserts"] : buf'[d]["node_inserts"][j].key = src
      <3>1. src \in Ids /\ \/ store["nodes"][src] # Absent
                           \/ \E j \in DOMAIN buf[d]["node_inserts"] : buf[d]["node_inserts"][j].key = src
        BY <2>15 DEF SourcesAreKnown
      <3> QED
        BY <2>11, <2>14, <3>1
    <2>16. ASSUME NEW d \in Clients, NEW i \in DOMAIN buf'[d]["edge_inserts"]
           PROVE  \E j \in DOMAIN buf[d]["edge_inserts"] : buf'[d]["edge_inserts"][i] = buf[d]["edge_inserts"][j]
      BY <2>5, <2>16
    <2>17. ASSUME NEW k \in Ids, store'["edges"][k] # Absent
           PROVE  store'["edges"][k].data \in Ids /\ store'["nodes"][store'["edges"][k].data] # Absent
      <3>1. CASE store'["edges"][k] = store["edges"][k]
        BY <2>11, <2>17, <3>1 DEF SourcesAreKnown
      <3>2. CASE s = "edges" /\ k = op.key /\ new # Absent /\ store'["edges"][k] = new
        <4>1. CASE v = "edge_deletes"
          <5>1. store[s][op.key] # Absent /\ new.data = store[s][op.key].data
            <6>1. new # Absent /\ new = Written(v, store[s][op.key], op, tx_id[c])
              BY <2>3, <3>2
            <6>2. op \in Op /\ v \in {"node_deletes", "edge_deletes"}
              BY <2>4, <4>1
            <6> QED
              BY <2>8, <2>9, <6>1, <6>2, WrittenStamps, SMTT(30)
          <5> QED
            BY <2>11, <3>2, <5>1 DEF SourcesAreKnown
        <4>2. CASE v = "edge_inserts"
          <5>1. new.data = op.data
            <6>1. new # Absent /\ new = Written(v, store[s][op.key], op, tx_id[c])
              BY <2>3, <3>2
            <6>2. op \in Op /\ v \in {"node_inserts", "edge_inserts"}
              BY <2>4, <4>2
            <6> QED
              BY <2>8, <2>9, <6>1, <6>2, WrittenStamps, SMTT(30)
          <5>2. buf[c]["node_inserts"] = <<>>
            BY <2>3, <4>2, NodesFirst
          <5>3. op.data \in Ids /\ store["nodes"][op.data] # Absent
            BY <2>4, <2>5, <4>2, <5>2 DEF SourcesAreKnown
          <5> QED
            BY <2>11, <3>2, <5>1, <5>3
        <4> QED
          BY <2>6, <3>2, <4>1, <4>2
      <3> QED
        BY <1>0, <2>10, <3>1, <3>2
    <2> QED
      BY <2>15, <2>16, <2>17 DEF SourcesAreKnown
  <1> QED
    BY <1>1, <1>2, <1>3, <1>4, <1>5, BufferStep

\* One lifetime: an edge in memory has its source node in memory, between any
\* two writes of any commit().
THEOREM EdgesFindTheirNodes == OneLifetime => (Spec => []EdgesHaveNodes)
  <1> SUFFICES ASSUME OneLifetime PROVE Spec => []EdgesHaveNodes
    OBVIOUS
  <1>1. Init => up /\ SourcesAreKnown
    BY KeysAre, VectorsAre DEF Init, SourcesAreKnown, NoWrites, Stores
  <1>2. TypeInv /\ up /\ SourcesAreKnown /\ [Next]_vars => up' /\ SourcesAreKnown'
    BY SourceStep, LifetimeStep
  <1>3. TypeInv /\ SourcesAreKnown => EdgesHaveNodes
    BY DEF TypeInv, SourcesAreKnown, EdgesHaveNodes
  <1> QED
    BY <1>1, <1>2, <1>3, AlwaysTypeInv, PTL DEF Spec

-----------------------------------------------------------------------------
(* Reads of a settled snapshot                                             *)

\* After open() no id that will be allocated is in the store.
LEMMA OpenFresh ==
  ASSUME TypeInv, Open
  PROVE  /\ buf' = [c \in Clients |-> NoWrites]
         /\ \A s \in {"nodes", "edges"} : \A k \in Ids : k >= next_id'[s] => store'[s][k] = Absent
  <1>1. buf' = [c \in Clients |-> NoWrites]
    BY DEF Open, TypeInv
  <1>2. ASSUME NEW s \in {"nodes", "edges"}, NEW k \in Ids, k >= next_id'[s]
        PROVE  store'[s][k] = Absent
    <2>1. s \in Stores /\ k \in Keys(s) /\ store'[s] = replay_wal(s)
      BY KeysAre DEF Open, Stores
    <2>2. next_id'[s] \in 0 .. MaxKeys /\ \A i \in DOMAIN log[s] : log[s][i].key < next_id'[s]
      BY NextIdIs
    <2>3. \A i \in DOMAIN log[s] : log[s][i].key # k
      BY <1>2, <2>2, BoundsAssumption DEF Ids
    <2> QED
      BY <2>1, <2>3, ReplayIs
  <1> QED
    BY <1>1, <1>2

\* Nothing is buffered after a crash.
LEMMA CrashEmpties == ASSUME Crash PROVE up' = FALSE /\ buf' = [c \in Clients |-> NoWrites]
  BY DEF Crash

\* Nothing but open() happens to a closed database.
LEMMA ClosedStays == ASSUME ~up, ~Open, [Next]_vars PROVE ~up'
  <1>1. ASSUME NEW c \in Clients, Step(c) PROVE up
    BY <1>1, CallFrame DEF Step, begin_read, EndRead, begin_write, latest_committed, commit, Apply, Applied,
       flush, rollback
  <1>2. ~Crash
    BY DEF Crash
  <1> QED
    BY <1>1, <1>2 DEF Next, vars

\* InsertsAreFresh, of one store.
FreshIn(v, s) ==
    /\ \A c \in Clients : \A i \in DOMAIN buf[c][v] :
          buf[c][v][i].key < next_id[s] /\ store[s][buf[c][v][i].key] = Absent
    /\ \A c, d \in Clients : \A i \in DOMAIN buf[c][v], j \in DOMAIN buf[d][v] :
          buf[c][v][i].key = buf[d][v][j].key => c = d /\ i = j
    /\ \A k \in Ids : k >= next_id[s] => store[s][k] = Absent

\* InsertsAreFresh says it of both.
LEMMA FreshIs ==
  /\ InsertsAreFresh <=> (up => FreshIn("node_inserts", "nodes") /\ FreshIn("edge_inserts", "edges"))
  /\ InsertsAreFresh' <=> (up' => FreshIn("node_inserts", "nodes")' /\ FreshIn("edge_inserts", "edges")')
  BY StoreOfIs DEF InsertsAreFresh, FreshIn

\* Every step keeps the ids to be inserted fresh.
LEMMA FreshStep ==
  ASSUME TypeInv, InsertsAreFresh, [Next]_vars PROVE InsertsAreFresh'
  <1> USE BoundsAssumption
  <1>0. TypeInv'
    BY TypeStep
  <1>1. /\ buf \in [Clients -> [Vectors -> Seq(Op)]] /\ next_id \in [{"nodes", "edges"} -> 0 .. MaxKeys]
        /\ \A c \in Clients : \A i \in DOMAIN buf[c]["node_inserts"] : buf[c]["node_inserts"][i].key \in Ids
        /\ \A c \in Clients : \A i \in DOMAIN buf[c]["edge_inserts"] : buf[c]["edge_inserts"][i].key \in Ids
    BY VectorsAre, StoreOfIs, KeysAre DEF TypeInv, TypeOK
  <1>2. /\ buf' \in [Clients -> [Vectors -> Seq(Op)]]
        /\ \A c \in Clients : \A i \in DOMAIN buf'[c]["node_inserts"] : buf'[c]["node_inserts"][i].key \in Ids
        /\ \A c \in Clients : \A i \in DOMAIN buf'[c]["edge_inserts"] : buf'[c]["edge_inserts"][i].key \in Ids
    BY <1>0, VectorsAre, StoreOfIs, KeysAre DEF TypeInv
  <1>3. CASE Crash
    BY <1>3, CrashEmpties DEF InsertsAreFresh
  <1>4. CASE Open
    <2>1. \A c \in Clients, v \in Vectors : DOMAIN buf'[c][v] = {}
      BY <1>4, OpenFresh, NoWritesAre
    <2> QED
      BY <1>4, <2>1, OpenFresh, VectorsAre, StoreOfIs DEF InsertsAreFresh
  <1>5. CASE up /\ ~Crash
    <2> SUFFICES ASSUME NEW v \in {"node_inserts", "edge_inserts"}, NEW s \in {"nodes", "edges"}, s = StoreOf(v),
                        FreshIn(v, s)
                 PROVE  FreshIn(v, s)'
      BY <1>5, FreshIs, StoreOfIs
    <2>0. v \in Vectors /\ s \in Stores /\ Keys(s) = Ids
      BY VectorsAre, KeysAre DEF Stores
    <2>k. /\ \A c \in Clients : \A i \in DOMAIN buf[c][v] : buf[c][v][i].key \in Ids
          /\ \A c \in Clients : \A i \in DOMAIN buf'[c][v] : buf'[c][v][i].key \in Ids
      BY <1>1, <1>2
    <2>1. CASE UNCHANGED <<up, store, next_id>> /\ buf' = buf
      BY <2>1 DEF FreshIn
    <2>2. ASSUME NEW c \in Clients, UNCHANGED <<up, store, next_id>>, buf' = [buf EXCEPT ![c] = NoWrites]
          PROVE  FreshIn(v, s)'
      <3>1. DOMAIN buf'[c][v] = {} /\ \A d \in Clients : d # c => buf'[d] = buf[d]
        BY <1>1, <2>0, <2>2, NoWritesAre
      <3> QED
        BY <2>2, <3>1 DEF FreshIn
    <2>3. ASSUME NEW c \in Clients, NEW w \in Vectors, NEW op, CallAdds(c, w, op) PROVE FreshIn(v, s)'
      <3>1. /\ DOMAIN buf'[c][w] = DOMAIN buf[c][w] \cup {Len(buf[c][w]) + 1}
            /\ Len(buf[c][w]) + 1 \notin DOMAIN buf[c][w]
            /\ buf'[c][w][Len(buf[c][w]) + 1] = op
            /\ \A i \in DOMAIN buf[c][w] : buf'[c][w][i] = buf[c][w][i]
            /\ \A d \in Clients, u \in Vectors : d # c \/ u # w => buf'[d][u] = buf[d][u]
        BY <1>0, <2>3, CallBuffers
      <3>2. store' = store
        BY <2>3 DEF CallAdds
      <3>3. CASE w = v
        <4>1. op.key = next_id[s] /\ next_id'[s] = next_id[s] + 1 /\ next_id[s] \in Nat
          BY <1>1, <2>3, <3>3, StoreOfIs DEF CallAdds
        <4>2. op.key \in Ids
          BY <2>k, <3>1, <3>3
        <4>3. ASSUME NEW d \in Clients, NEW i \in DOMAIN buf'[d][v]
              PROVE  \/ d = c /\ i = Len(buf[c][v]) + 1 /\ buf'[d][v][i].key = next_id[s]
                     \/ i \in DOMAIN buf[d][v] /\ buf'[d][v][i] = buf[d][v][i] /\ buf'[d][v][i].key < next_id[s]
          BY <2>0, <3>1, <3>3, <4>1, <4>3 DEF FreshIn
        <4>4. \A k \in Ids : k >= next_id'[s] => store'[s][k] = Absent
          BY <3>2, <4>1 DEF FreshIn, Ids
        <4>5. ASSUME NEW d \in Clients, NEW i \in DOMAIN buf'[d][v]
              PROVE  buf'[d][v][i].key < next_id'[s] /\ store'[s][buf'[d][v][i].key] = Absent
          <5>1. CASE buf'[d][v][i].key = next_id[s]
            BY <3>2, <4>1, <4>2, <5>1 DEF FreshIn
          <5>2. CASE i \in DOMAIN buf[d][v] /\ buf'[d][v][i] = buf[d][v][i]
            <6>1. buf[d][v][i].key < next_id[s] /\ store[s][buf[d][v][i].key] = Absent /\ buf[d][v][i].key \in Ids
              BY <2>k, <5>2 DEF FreshIn
            <6> QED
              BY <3>2, <4>1, <5>2, <6>1 DEF Ids
          <5> QED
            BY <4>3, <4>5, <5>1, <5>2
        <4>6. ASSUME NEW d \in Clients, NEW e \in Clients, NEW i \in DOMAIN buf'[d][v], NEW j \in DOMAIN buf'[e][v],
                     buf'[d][v][i].key = buf'[e][v][j].key
              PROVE  d = e /\ i = j
          <5>1. buf'[d][v][i].key \in Ids /\ buf'[e][v][j].key \in Ids
            BY <2>k, <4>6
          <5>2. CASE buf'[d][v][i].key = next_id[s]
            <6>1. ~(next_id[s] < next_id[s])
              BY <4>1
            <6>2. d = c /\ i = Len(buf[c][v]) + 1
              BY <4>3, <5>2, <6>1
            <6>3. e = c /\ j = Len(buf[c][v]) + 1
              BY <4>3, <4>6, <5>2, <6>1
            <6> QED
              BY <6>2, <6>3
          <5>3. CASE buf'[d][v][i].key # next_id[s]
            <6>1. /\ i \in DOMAIN buf[d][v] /\ buf'[d][v][i] = buf[d][v][i]
                  /\ j \in DOMAIN buf[e][v] /\ buf'[e][v][j] = buf[e][v][j]
              BY <4>3, <4>6, <5>3
            <6> QED
              BY <4>6, <6>1 DEF FreshIn
          <5> QED
            BY <5>2, <5>3
        <4> QED
          BY <4>4, <4>5, <4>6 DEF FreshIn
      <3>4. CASE w # v
        <4>1. \A d \in Clients : buf'[d][v] = buf[d][v]
          BY <2>0, <3>1, <3>4
        <4>2. next_id'[s] = next_id[s]
          BY <1>1, <2>3, <3>4, StoreOfIs DEF CallAdds
        <4> QED
          BY <3>2, <4>1, <4>2 DEF FreshIn
      <3> QED
        BY <3>3, <3>4
    <2>4. ASSUME NEW c \in Clients, Apply(c) PROVE FreshIn(v, s)'
      <3>1. PICK w \in Vectors, t \in Stores, op \in Op : \E new : AppliesAt(c, w, t, op, new)
        BY <2>4, ApplyPoint
      <3>2. PICK new : AppliesAt(c, w, t, op, new)
        BY <3>1
      <3>3. /\ Pops(c, w) /\ t = StoreOf(w) /\ op = buf[c][w][1] /\ op.key \in Keys(t) /\ next_id' = next_id
            /\ \/ new = Absent /\ store' = store
               \/ /\ new # Absent /\ store'[t][op.key] = new
                  /\ \A k \in Keys(t) : k # op.key => store'[t][k] = store[t][k]
                  /\ \A r \in Stores : r # t => store'[r] = store[r]
        BY <3>2 DEF AppliesAt
      <3>4. /\ \A i \in DOMAIN buf'[c][w] :
                  i + 1 \in DOMAIN buf[c][w] /\ buf'[c][w][i] = buf[c][w][i + 1] /\ i \in Nat \ {0}
            /\ 1 \in DOMAIN buf[c][w]
            /\ \A d \in Clients, u \in Vectors : d # c \/ u # w => buf'[d][u] = buf[d][u]
        BY <3>3, ApplyBuffers
      <3>5. \A k \in Ids : store[s][k] = Absent /\ (t # s \/ k # op.key) => store'[s][k] = Absent
        BY <2>0, <3>3
      \* What remains to be inserted was there before, in another place.
      <3>6. ASSUME NEW d \in Clients, NEW i \in DOMAIN buf'[d][v]
            PROVE  \E j \in DOMAIN buf[d][v] :
                      /\ buf'[d][v][i] = buf[d][v][j]
                      /\ j = IF d = c /\ w = v THEN i + 1 ELSE i
        BY <2>0, <3>4, <3>6
      <3>7. ASSUME NEW d \in Clients, NEW e \in Clients, NEW i \in DOMAIN buf'[d][v], NEW j \in DOMAIN buf'[e][v],
                   buf'[d][v][i].key = buf'[e][v][j].key
            PROVE  d = e /\ i = j
        <4>1. PICK m \in DOMAIN buf[d][v] : buf'[d][v][i] = buf[d][v][m] /\ m = IF d = c /\ w = v THEN i + 1 ELSE i
          BY <3>6, <3>7
        <4>2. PICK n \in DOMAIN buf[e][v] : buf'[e][v][j] = buf[e][v][n] /\ n = IF e = c /\ w = v THEN j + 1 ELSE j
          BY <3>6, <3>7
        <4>3. d = e /\ m = n
          BY <3>7, <4>1, <4>2 DEF FreshIn
        <4>4. (d = c /\ w = v) => i \in Nat /\ j \in Nat
          BY <3>4, <3>7, <4>3
        <4> QED
          BY <4>1, <4>2, <4>3, <4>4
      <3>8. ASSUME NEW k \in Ids, t = s, k = op.key, store'[s][k] # Absent, store[s][k] = Absent
            PROVE  w = v
        <4>1. new # Absent /\ new = Written(w, store[t][op.key], op, tx_id[c]) /\ store[t][op.key] = Absent
          BY <3>2, <3>3, <3>8 DEF AppliesAt
        <4>2. w \in {"node_inserts", "edge_inserts", "prop_writes"}
          BY <4>1, WrittenIs, VectorsAre
        <4> QED
          BY <3>3, <3>8, <4>2, StoreOfIs
      <3>9. ASSUME NEW d \in Clients, NEW i \in DOMAIN buf'[d][v]
            PROVE  buf'[d][v][i].key < next_id'[s] /\ store'[s][buf'[d][v][i].key] = Absent
        <4>1. PICK m \in DOMAIN buf[d][v] : buf'[d][v][i] = buf[d][v][m] /\ m = IF d = c /\ w = v THEN i + 1 ELSE i
          BY <3>6, <3>9
        <4>2. buf[d][v][m].key < next_id[s] /\ store[s][buf[d][v][m].key] = Absent /\ buf[d][v][m].key \in Ids
          BY <2>k, <4>1 DEF FreshIn
        <4>3. ASSUME t = s, w = v, buf[d][v][m].key = op.key PROVE FALSE
          <5>1. d = c /\ m = 1
            BY <3>3, <3>4, <4>1, <4>3 DEF FreshIn
          <5> QED
            BY <3>4, <3>9, <4>1, <4>3, <5>1
        <4> QED
          BY <3>3, <3>5, <3>8, <4>1, <4>2, <4>3
      <3>10. \A k \in Ids : k >= next_id'[s] => store'[s][k] = Absent
        <4>1. ASSUME NEW k \in Ids, k >= next_id[s], t = s, k = op.key, store'[s][k] # Absent PROVE FALSE
          <5>1. store[s][k] = Absent
            BY <4>1 DEF FreshIn
          <5>2. w = v
            BY <3>8, <4>1, <5>1
          <5>3. op.key < next_id[s]
            BY <3>3, <3>4, <5>2 DEF FreshIn
          <5> QED
            BY <1>1, <4>1, <5>3 DEF Ids
        <4> QED
          BY <3>3, <3>5, <4>1 DEF FreshIn
      <3> QED
        BY <3>7, <3>9, <3>10 DEF FreshIn
    <2> QED
      BY <1>5, <2>1, <2>2, <2>3, <2>4, BufferStep
  <1>6. CASE ~up /\ ~Open
    BY <1>6, ClosedStays DEF InsertsAreFresh
  <1> QED
    BY <1>3, <1>4, <1>5, <1>6

\* DeletesAreDue, of one store.
DueIn(v, s) ==
    /\ \A c \in Clients : \A i \in DOMAIN buf[c][v] :
          store[s][buf[c][v][i].key] # Absent => store[s][buf[c][v][i].key].deleted_tx = MAX_TX_ID
    /\ \A c, d \in Clients : \A i \in DOMAIN buf[c][v], j \in DOMAIN buf[d][v] :
          buf[c][v][i].key = buf[d][v][j].key => c = d /\ i = j

\* DeletesAreDue says it of both.
LEMMA DueIs ==
  /\ DeletesAreDue <=> (up => DueIn("node_deletes", "nodes") /\ DueIn("edge_deletes", "edges"))
  /\ DeletesAreDue' <=> (up' => DueIn("node_deletes", "nodes")' /\ DueIn("edge_deletes", "edges")')
  <1>1. DeletesAreDue <=> (up => DueIn("node_deletes", "nodes") /\ DueIn("edge_deletes", "edges"))
    BY StoreOfIs DEF DeletesAreDue, DueIn
  <1>2. DeletesAreDue' <=> (up' => DueIn("node_deletes", "nodes")' /\ DueIn("edge_deletes", "edges")')
    BY StoreOfIs DEF DeletesAreDue, DueIn
  <1> QED
    BY <1>1, <1>2

\* With polite clients every step keeps the deletes due.
LEMMA DueStep ==
  ASSUME Polite, TypeInv, DeletesAreDue, [Next]_vars PROVE DeletesAreDue'
  <1> USE BoundsAssumption
  <1>0. TypeInv'
    BY TypeStep
  <1>1. buf \in [Clients -> [Vectors -> Seq(Op)]]
    BY DEF TypeInv
  <1>3. CASE Crash
    BY <1>3, CrashEmpties DEF DeletesAreDue
  <1>4. CASE Open
    <2>1. \A c \in Clients, v \in Vectors : DOMAIN buf'[c][v] = {}
      BY <1>4, OpenFresh, NoWritesAre
    <2> QED
      BY <2>1, VectorsAre, StoreOfIs DEF DeletesAreDue
  <1>5. CASE up /\ ~Crash
    <2> SUFFICES ASSUME NEW v \in {"node_deletes", "edge_deletes"}, NEW s \in {"nodes", "edges"}, s = StoreOf(v),
                        DueIn(v, s)
                 PROVE  DueIn(v, s)'
      BY <1>5, DueIs, StoreOfIs
    <2>0. v \in Vectors /\ s \in Stores /\ Keys(s) = Ids
      BY VectorsAre, KeysAre DEF Stores
    <2>k. \A c \in Clients : \A i \in DOMAIN buf[c][v] : buf[c][v][i].key \in Ids
      BY <2>0 DEF TypeInv
    <2>1. CASE UNCHANGED <<up, store, next_id>> /\ buf' = buf
      BY <2>1 DEF DueIn
    <2>2. ASSUME NEW c \in Clients, UNCHANGED <<up, store, next_id>>, buf' = [buf EXCEPT ![c] = NoWrites]
          PROVE  DueIn(v, s)'
      <3>1. DOMAIN buf'[c][v] = {} /\ \A d \in Clients : d # c => buf'[d] = buf[d]
        BY <1>1, <2>0, <2>2, NoWritesAre
      <3> QED
        BY <2>2, <3>1 DEF DueIn
    <2>3. ASSUME NEW c \in Clients, NEW w \in Vectors, NEW op, CallAdds(c, w, op) PROVE DueIn(v, s)'
      <3>1. /\ DOMAIN buf'[c][w] = DOMAIN buf[c][w] \cup {Len(buf[c][w]) + 1}
            /\ Len(buf[c][w]) + 1 \notin DOMAIN buf[c][w]
            /\ buf'[c][w][Len(buf[c][w]) + 1] = op
            /\ \A i \in DOMAIN buf[c][w] : buf'[c][w][i] = buf[c][w][i]
            /\ \A d \in Clients, u \in Vectors : d # c \/ u # w => buf'[d][u] = buf[d][u]
        BY <1>0, <2>3, CallBuffers
      <3>2. store' = store
        BY <2>3 DEF CallAdds
      <3>3. CASE w = v
        <4>1. /\ store[s][op.key] # Absent => store[s][op.key].deleted_tx = MAX_TX_ID
              /\ \A d \in Clients : \A i \in DOMAIN buf[d][v] : buf[d][v][i].key # op.key
          BY <2>3, <3>3 DEF CallAdds, Spared
        <4>2. ASSUME NEW d \in Clients, NEW i \in DOMAIN buf'[d][v]
              PROVE  \/ d = c /\ i = Len(buf[c][v]) + 1 /\ buf'[d][v][i].key = op.key
                     \/ i \in DOMAIN buf[d][v] /\ buf'[d][v][i] = buf[d][v][i] /\ buf'[d][v][i].key # op.key
          BY <2>0, <3>1, <3>3, <4>1, <4>2
        <4>3. ASSUME NEW d \in Clients, NEW i \in DOMAIN buf'[d][v], store'[s][buf'[d][v][i].key] # Absent
              PROVE  store'[s][buf'[d][v][i].key].deleted_tx = MAX_TX_ID
          BY <3>2, <4>1, <4>2, <4>3 DEF DueIn
        <4>4. ASSUME NEW d \in Clients, NEW e \in Clients, NEW i \in DOMAIN buf'[d][v], NEW j \in DOMAIN buf'[e][v],
                     buf'[d][v][i].key = buf'[e][v][j].key
              PROVE  d = e /\ i = j
          <5>1. CASE buf'[d][v][i].key = op.key
            BY <4>2, <4>4, <5>1
          <5>2. CASE buf'[d][v][i].key # op.key
            <6>1. /\ i \in DOMAIN buf[d][v] /\ buf'[d][v][i] = buf[d][v][i]
                  /\ j \in DOMAIN buf[e][v] /\ buf'[e][v][j] = buf[e][v][j]
              BY <4>2, <4>4, <5>2
            <6> QED
              BY <4>4, <6>1 DEF DueIn
          <5> QED
            BY <5>1, <5>2
        <4> QED
          BY <4>3, <4>4 DEF DueIn
      <3>4. CASE w # v
        <4>1. \A d \in Clients : buf'[d][v] = buf[d][v]
          BY <2>0, <3>1, <3>4
        <4> QED
          BY <3>2, <4>1 DEF DueIn
      <3> QED
        BY <3>3, <3>4
    <2>4. ASSUME NEW c \in Clients, Apply(c) PROVE DueIn(v, s)'
      <3>1. PICK w \in Vectors, t \in Stores, op \in Op : \E new : AppliesAt(c, w, t, op, new)
        BY <2>4, ApplyPoint
      <3>2. PICK new : AppliesAt(c, w, t, op, new)
        BY <3>1
      <3>3. /\ Pops(c, w) /\ t = StoreOf(w) /\ op = buf[c][w][1] /\ op.key \in Keys(t)
            /\ \/ new = Absent /\ store' = store
               \/ /\ new # Absent /\ store'[t][op.key] = new
                  /\ \A k \in Keys(t) : k # op.key => store'[t][k] = store[t][k]
                  /\ \A r \in Stores : r # t => store'[r] = store[r]
        BY <3>2 DEF AppliesAt
      <3>4. /\ \A i \in DOMAIN buf'[c][w] :
                  i + 1 \in DOMAIN buf[c][w] /\ buf'[c][w][i] = buf[c][w][i + 1] /\ i \in Nat \ {0}
            /\ 1 \in DOMAIN buf[c][w]
            /\ \A d \in Clients, u \in Vectors : d # c \/ u # w => buf'[d][u] = buf[d][u]
        BY <3>3, ApplyBuffers
      <3>6. ASSUME NEW d \in Clients, NEW i \in DOMAIN buf'[d][v]
            PROVE  \E j \in DOMAIN buf[d][v] :
                      /\ buf'[d][v][i] = buf[d][v][j]
                      /\ j = IF d = c /\ w = v THEN i + 1 ELSE i
        BY <2>0, <3>4, <3>6
      <3>7. ASSUME NEW d \in Clients, NEW e \in Clients, NEW i \in DOMAIN buf'[d][v], NEW j \in DOMAIN buf'[e][v],
                   buf'[d][v][i].key = buf'[e][v][j].key
            PROVE  d = e /\ i = j
        <4>1. PICK m \in DOMAIN buf[d][v] : buf'[d][v][i] = buf[d][v][m] /\ m = IF d = c /\ w = v THEN i + 1 ELSE i
          BY <3>6, <3>7
        <4>2. PICK n \in DOMAIN buf[e][v] : buf'[e][v][j] = buf[e][v][n] /\ n = IF e = c /\ w = v THEN j + 1 ELSE j
          BY <3>6, <3>7
        <4>3. d = e /\ m = n
          BY <3>7, <4>1, <4>2 DEF DueIn
        <4>4. (d = c /\ w = v) => i \in Nat /\ j \in Nat
          BY <3>4, <3>7, <4>3
        <4> QED
          BY <4>1, <4>2, <4>3, <4>4
      \* What a write other than a delete leaves there is alive if it was.
      <3>8. ASSUME NEW k \in Ids, t = s, k = op.key, w # v, store'[s][k] # Absent,
                   store[s][k] # Absent => store[s][k].deleted_tx = MAX_TX_ID
            PROVE  store'[s][k].deleted_tx = MAX_TX_ID
        <4>1. CASE new = Absent
          BY <3>3, <3>8, <4>1
        <4>2. CASE new # Absent
          <5>1. /\ tx_id[c] \in 1 .. MaxTx /\ store[t][op.key] \in Version \cup {Absent}
                /\ new = Written(w, store[t][op.key], op, tx_id[c])
            BY <3>2 DEF AppliesAt
          <5>2. /\ w \in {"node_inserts", "edge_inserts"} => new.deleted_tx = MAX_TX_ID
                /\ w = "prop_writes" => new.deleted_tx = MAX_TX_ID
                /\ w = "node_updates" => store[t][op.key] # Absent /\ new.deleted_tx = store[t][op.key].deleted_tx
            BY <4>2, <5>1, WrittenStamps
          <5>3. w \notin {"node_deletes", "edge_deletes"}
            BY <3>3, <3>8, StoreOfIs
          <5> QED
            BY <3>3, <3>8, <4>2, <5>2, <5>3, VectorsAre
        <4> QED
          BY <4>1, <4>2
      <3>9. ASSUME NEW d \in Clients, NEW i \in DOMAIN buf'[d][v], store'[s][buf'[d][v][i].key] # Absent
            PROVE  store'[s][buf'[d][v][i].key].deleted_tx = MAX_TX_ID
        <4>1. PICK m \in DOMAIN buf[d][v] : buf'[d][v][i] = buf[d][v][m] /\ m = IF d = c /\ w = v THEN i + 1 ELSE i
          BY <3>6, <3>9
        <4>2. /\ store[s][buf[d][v][m].key] # Absent => store[s][buf[d][v][m].key].deleted_tx = MAX_TX_ID
              /\ buf[d][v][m].key \in Ids
          BY <2>k, <4>1 DEF DueIn
        <4>3. ASSUME t = s, w = v, buf[d][v][m].key = op.key PROVE FALSE
          <5>1. d = c /\ m = 1
            BY <3>3, <3>4, <4>1, <4>3 DEF DueIn
          <5> QED
            BY <3>4, <3>9, <4>1, <4>3, <5>1
        <4>4. CASE t = s /\ buf[d][v][m].key = op.key
          BY <3>8, <3>9, <4>1, <4>2, <4>3, <4>4
        <4>5. CASE t # s \/ buf[d][v][m].key # op.key
          <5>1. store'[s][buf[d][v][m].key] = store[s][buf[d][v][m].key]
            BY <2>0, <3>3, <4>2, <4>5
          <5> QED
            BY <3>9, <4>1, <4>2, <5>1
        <4> QED
          BY <4>4, <4>5
      <3> QED
        BY <3>7, <3>9 DEF DueIn
    <2> QED
      BY <1>5, <2>1, <2>2, <2>3, <2>4, BufferStep
  <1>6. CASE ~up /\ ~Open
    BY <1>6, ClosedStays DEF DeletesAreDue
  <1> QED
    BY <1>3, <1>4, <1>5, <1>6

\* Nobody relabels where nobody may.
LEMMA NoneRelabelsStep ==
  ASSUME NoUpdates, TypeInv, NoneRelabels, [Next]_vars PROVE NoneRelabels'
  <1>0. buf \in [Clients -> [Vectors -> Seq(Op)]] /\ "node_updates" \in Vectors
    BY VectorsAre DEF TypeInv
  <1>1. CASE Crash \/ Open
    <2>1. buf' = [c \in Clients |-> NoWrites]
      BY <1>1, CrashEmpties, OpenFresh
    <2> QED
      BY <1>0, <2>1, NoWritesAre DEF NoneRelabels
  <1>2. CASE up
    <2>1. ASSUME NEW c \in Clients, NEW v \in Vectors, NEW op, CallAdds(c, v, op) PROVE NoneRelabels'
      <3>1. v # "node_updates" /\ buf' = [buf EXCEPT ![c][v] = Append(buf[c][v], op)]
        BY <2>1 DEF CallAdds, NoUpdates
      <3>2. \A d \in Clients : buf'[d]["node_updates"] = buf[d]["node_updates"]
        BY <1>0, <3>1
      <3> QED
        BY <3>2 DEF NoneRelabels
    <2>2. ASSUME NEW c \in Clients, Apply(c) PROVE NoneRelabels'
      <3>1. PICK v \in Vectors, s \in Stores, op \in Op : \E new : AppliesAt(c, v, s, op, new)
        BY <2>2, ApplyPoint
      <3>2. FirstPhase(c, v) /\ Pops(c, v)
        BY <3>1 DEF AppliesAt, Pops
      <3>3. v # "node_updates"
        BY <3>2 DEF FirstPhase, NoneRelabels
      <3>4. \A d \in Clients : buf'[d]["node_updates"] = buf[d]["node_updates"]
        BY <1>0, <3>2, <3>3, ApplyBuffers
      <3> QED
        BY <3>4 DEF NoneRelabels
    <2>3. ASSUME NEW c \in Clients, buf' = [buf EXCEPT ![c] = NoWrites] PROVE NoneRelabels'
      BY <1>0, <2>3, NoWritesAre DEF NoneRelabels
    <2>4. CASE buf' = buf
      BY <2>4 DEF NoneRelabels
    <2> QED
      BY <1>1, <1>2, <2>1, <2>2, <2>3, <2>4, BufferStep
  <1>3. CASE ~up /\ ~Open
    <2>1. ASSUME NEW c \in Clients, Step(c) PROVE up
      BY <2>1, CallFrame DEF Step, begin_read, EndRead, begin_write, latest_committed, commit, Apply, Applied,
         flush, rollback
    <2>2. buf' = buf
      BY <1>3, <2>1 DEF Next, Crash, vars
    <2> QED
      BY <2>2 DEF NoneRelabels
  <1> QED
    BY <1>1, <1>2, <1>3

\* A handle that stays in its transaction keeps its snapshot.
LEMMA SnapshotStays ==
  ASSUME TypeInv, [Next]_vars, NEW c \in Clients, InTransaction(c), InTransaction(c)'
  PROVE  snapshot'[c] = snapshot[c]
  <1>0. pc \in [Clients -> States] /\ snapshot \in [Clients -> 0 .. MaxTx] /\ pc[c] \in {"reading", "open"}
        /\ pc'[c] \in {"reading", "open"}
    BY DEF TypeInv, TypeOK, InTransaction
  <1>1. ASSUME NEW d \in Clients,
               \/ begin_read(d) \/ EndRead(d) \/ begin_write(d) \/ latest_committed(d)
        PROVE  snapshot'[c] = snapshot[c]
    BY <1>0, <1>1 DEF begin_read, EndRead, begin_write, latest_committed
  <1>2. ASSUME NEW d \in Clients, commit(d) \/ Apply(d) \/ Applied(d) PROVE snapshot'[c] = snapshot[c]
    BY <1>2 DEF commit, Apply, Applied, handle
  <1>3. ASSUME NEW d \in Clients, flush(d) PROVE snapshot'[c] = snapshot[c]
    BY <1>0, <1>3 DEF flush, Close, handle, Stores
  <1>4. ASSUME NEW d \in Clients, rollback(d) PROVE snapshot'[c] = snapshot[c]
    <2>1. pc' = [pc EXCEPT ![d] = "idle"] /\ snapshot' = [snapshot EXCEPT ![d] = 0]
      BY <1>4 DEF rollback, Close
    <2> QED
      BY <1>0, <2>1
  <1>5. ~Crash
    BY <1>0 DEF Crash
  <1>6. Open => snapshot' = snapshot
    BY DEF Open, handle
  <1>7. UNCHANGED vars => snapshot' = snapshot
    BY DEF vars, handle
  <1>8. ASSUME NEW d \in Clients, Step(d) PROVE snapshot'[c] = snapshot[c]
    BY <1>1, <1>2, <1>3, <1>4, <1>8, CallFrame DEF Step
  <1> QED
    BY <1>5, <1>6, <1>7, <1>8 DEF Next

\* A step of an open database does not change what a settled handle reads.
LEMMA ReadStep ==
  ASSUME TypeInv, TypeInv', TicketsAreOwned, InsertsAreFresh, DeletesAreDue, NoneRelabels, [Next]_vars,
         NEW c \in Clients, InTransaction(c), InTransaction(c)', Settled(c)
  PROVE  Reads(c)' = Reads(c)
  <1> USE BoundsAssumption
  <1>1. snapshot'[c] = snapshot[c]
    BY SnapshotStays
  <1>2. up
    BY DEF TypeInv, InTransaction
  <1>3. CASE store' = store
    BY <1>1, <1>3 DEF Reads, get
  <1>4. ASSUME NEW d \in Clients, Apply(d), store' # store PROVE Reads(c)' = Reads(c)
    <2>1. PICK v \in Vectors, s \in Stores, op \in Op : \E n : AppliesAt(d, v, s, op, n)
      BY <1>4, ApplyPoint
    <2>2. PICK new : AppliesAt(d, v, s, op, new)
      BY <2>1
    <2>3. /\ FirstPhase(d, v) /\ s = StoreOf(v) /\ op = buf[d][v][1] /\ op.key \in Keys(s)
          /\ store[s][op.key] \in Version \cup {Absent} /\ new = Written(v, store[s][op.key], op, tx_id[d])
          /\ new # Absent /\ new \in Version /\ store'[s][op.key] = new
          /\ \A k \in Keys(s) : k # op.key => store'[s][k] = store[s][k]
          /\ \A t \in Stores : t # s => store'[t] = store[t]
      BY <1>4, <2>2 DEF AppliesAt, Pops
    <2>4. tx_id[d] \in 1 .. MaxTx /\ snapshot[c] \in 0 .. MaxTx /\ tx_id[d] > snapshot[c]
      BY <2>2 DEF AppliesAt, TypeInv, TypeOK, Settled
    <2>5. 1 \in DOMAIN buf[d][v] /\ v # "node_updates"
      <3>0. FirstPhase(d, v)
        BY <2>3
      <3>1. 1 \in DOMAIN buf[d][v]
        <4>1. /\ Len(buf[d][v]) \in Nat /\ Len(buf[d][v]) >= 1
              /\ DOMAIN buf[d][v] = 1 .. Len(buf[d][v])
          BY <3>0, FirstPhaseIs
        <4> QED
          BY <4>1
      <3> QED
        BY <2>3, <3>1 DEF FirstPhase, NoneRelabels
    \* What the snapshot sees under the key that changes.
    <2>6. ASSUME s \in {"nodes", "edges"} PROVE get(c, s, op.key)' = get(c, s, op.key)
      <3>1. CASE v \in {"node_inserts", "edge_inserts"}
        <4>1. store[s][op.key] = Absent
          BY <1>2, <2>3, <2>5, <3>1, ZenonT(60) DEF InsertsAreFresh
        <4>2. new.created_tx = tx_id[d]
          <5>1. store[s][op.key] \in Version \cup {Absent} /\ tx_id[d] \in 1 .. MaxTx
            BY <2>3, <2>4
          <5>2. new = Written(v, store[s][op.key], op, tx_id[d]) /\ new # Absent
            BY <2>3
          <5> QED
            BY <3>1, <5>1, <5>2, WrittenStamps
        <4>3. ~is_alive(new, snapshot[c])
          BY <2>4, <4>2 DEF is_alive
        <4> QED
          BY <1>1, <2>3, <4>1, <4>3 DEF get
      <3>2. CASE v \in {"node_deletes", "edge_deletes"}
        <4>1. /\ store[s][op.key] # Absent /\ new.created_tx = store[s][op.key].created_tx
              /\ new.deleted_tx = tx_id[d] /\ new.data = store[s][op.key].data
          <5>1. store[s][op.key] \in Version \cup {Absent} /\ tx_id[d] \in 1 .. MaxTx
            BY <2>3, <2>4
          <5>2. new = Written(v, store[s][op.key], op, tx_id[d]) /\ new # Absent
            BY <2>3
          <5> QED
            BY <3>2, <5>1, <5>2, WrittenStamps
        <4>2. store[s][op.key].deleted_tx = MAX_TX_ID
          BY <1>2, <2>3, <2>5, <3>2, <4>1, ZenonT(60) DEF DeletesAreDue
        <4>3. is_alive(new, snapshot[c]) <=> is_alive(store[s][op.key], snapshot[c])
          BY <2>4, <4>1, <4>2 DEF is_alive, MAX_TX_ID
        <4> QED
          BY <1>1, <2>3, <4>1, <4>3 DEF get
      <3>3. v # "prop_writes"
        BY <2>3, <2>6, StoreOfIs
      <3> QED
        BY <2>5, <3>1, <3>2, <3>3, VectorsAre
    <2>7. ASSUME NEW t \in {"nodes", "edges"}, NEW k \in Ids PROVE get(c, t, k)' = get(c, t, k)
      <3>1. CASE t = s /\ k = op.key
        BY <2>6, <3>1
      <3>2. CASE ~(t = s /\ k = op.key)
        <4>1. t \in Stores /\ k \in Keys(t)
          BY KeysAre DEF Stores
        <4>2. store'[t][k] = store[t][k]
          BY <2>3, <3>2, <4>1
        <4> QED
          BY <1>1, <4>2 DEF get
      <3> QED
        BY <3>1, <3>2
    <2> QED
      BY <2>7 DEF Reads
  <1>5. ~Crash
    BY DEF Crash, InTransaction
  <1> QED
    BY <1>2, <1>3, <1>4, <1>5, BufferStep DEF CallAdds

\* Where nobody relabels nodes and nobody deletes what is deleted already, a
\* handle whose snapshot is settled reads the same nodes and edges until it
\* ends: for any number of clients and transactions, across restarts too.
THEOREM SettledReadsAreRepeatable == Polite /\ NoUpdates => (Spec => SettledReadsRepeat)
  <1> SUFFICES ASSUME Polite, NoUpdates PROVE Spec => SettledReadsRepeat
    OBVIOUS
  <1> DEFINE Inv == TypeInv /\ TicketsAreOwned /\ InsertsAreFresh /\ DeletesAreDue /\ NoneRelabels
  <1>1. Init => Inv
    <2> SUFFICES ASSUME Init PROVE Inv
      OBVIOUS
    <2>1. \A c \in Clients, v \in Vectors : DOMAIN buf[c][v] = {} /\ buf[c][v] = <<>>
      BY NoWritesAre DEF Init
    <2>2. InsertsAreFresh
      BY <2>1, VectorsAre, StoreOfIs, KeysAre DEF Init, InsertsAreFresh, Stores
    <2>3. DeletesAreDue /\ NoneRelabels
      BY <2>1, VectorsAre DEF DeletesAreDue, NoneRelabels
    <2>4. TicketsAreOwned
      BY DEF Init, TicketsAreOwned, Stores
    <2> QED
      BY <2>2, <2>3, <2>4, InitType
  <1>2. Inv /\ [Next]_vars => Inv'
    BY TypeStep, TicketStep, FreshStep, DueStep, NoneRelabelsStep
  <1>3. Inv /\ Inv' /\ [Next]_vars =>
          [\A c \in Clients : InTransaction(c) /\ InTransaction(c)' /\ Settled(c) => Reads(c)' = Reads(c)]_vars
    BY ReadStep
  <1> HIDE DEF Inv
  <1> QED
    BY <1>1, <1>2, <1>3, PTL DEF Spec, SettledReadsRepeat

=============================================================================
