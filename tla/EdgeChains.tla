----------------------------- MODULE EdgeChains -----------------------------
(***************************************************************************)
(* src/storage/edge_store.rs: the adjacency chains.                        *)
(*                                                                         *)
(* Every edge is on two singly linked lists, the edges out of its source   *)
(* (next_out) and into its target (next_in).  link_into_chains and         *)
(* unlink_from_chains get the two heads as &mut, so that no other call has *)
(* them meanwhile; the entries of the map are locked one access at a time, *)
(* and out_edges and in_edges walk through them while they change.         *)
(*                                                                         *)
(* Ids come from an allocator like NodeStore's and are here any id that is *)
(* not in the map; stamps are left to Database.                            *)
(***************************************************************************)
EXTENDS Integers, FiniteSets

CONSTANTS
    Nodes,     \* nodes, by their id
    Threads,   \* threads that link and unlink
    Walkers,   \* threads that walk
    Ends,      \* the pairs of nodes that edges join
    Ids,       \* edge ids
    Absent,    \* no edge under this id
    NULL_EDGE, \* the end of a chain
    Quiet      \* hard_delete is only called while nobody walks

ASSUME IdsAssumption == IsFiniteSet(Ids) /\ NULL_EDGE \notin Ids
ASSUME EndsAssumption == Ends \subseteq Nodes \X Nodes
ASSUME QuietAssumption == Quiet \in BOOLEAN

Dirs == {"out", "in"}
Links == Ids \cup {NULL_EDGE}

\* src and dst are end["out"] and end["in"]; next_out and next_in are next[d].
Edge == [end : [Dirs -> Nodes], next : [Dirs -> Links]]

ASSUME AbsentAssumption == Absent \notin Edge

VARIABLES
    edges,    \* the map
    first,    \* first[d][n]: the head of node n's chain, a variable of the caller
    stored,   \* what the WAL replays to
    pc, dir,  \* where each call is, and which of the two chains it is at
    cur,      \* the edge it links or unlinks
    edge,     \* unlink's copy of that edge
    at,       \* where unlink's search is
    pred,     \* pred[t][d]: src_pred, dst_pred
    walk,     \* each walk: the chain, where it is, what it has found
    \* what follows is history, not program state
    linked,   \* the edges that are linked
    stable    \* those that were linked all through the walk

call == <<pc, dir, cur, edge, at, pred>>
vars == <<edges, first, stored, call, walk, linked, stable>>

NoWalk == [on |-> FALSE, dir |-> "out", node |-> Absent, at |-> NULL_EDGE, found |-> {}]
NoPred == [d \in Dirs |-> NULL_EDGE]

InMap == {id \in Ids : edges[id] # Absent}

\* The heads a call has borrowed.
Heads(id) == {<<d, edges[id].end[d]>> : d \in Dirs}
InCall == {t \in Threads : pc[t] # "idle"}
Borrowed == UNION {Heads(cur[t]) : t \in InCall}

\* &mut: a call gets the two heads to itself.
Borrowable(id) == Heads(id) \cap Borrowed = {}

End(t) == edges[cur[t]].end[dir[t]]

\* wal_insert of what the map holds
Persist(id) == stored' = [stored EXCEPT ![id] = edges[id]]

-----------------------------------------------------------------------------
\* insert_edge and insert_with_id: Edge::new has no links.
insert_edge(id, src, dst) ==
    /\ edges[id] = Absent
    /\ LET new == [end |-> [d \in Dirs |-> IF d = "out" THEN src ELSE dst],
                   next |-> [d \in Dirs |-> NULL_EDGE]]
       IN  /\ edges' = [edges EXCEPT ![id] = new]
           /\ stored' = [stored EXCEPT ![id] = new]
    /\ UNCHANGED <<first, call, walk, linked, stable>>

\* The caller has unlinked the edge.
hard_delete(id) ==
    /\ id \in InMap \ linked
    /\ \A t \in InCall : cur[t] # id
    /\ Quiet => \A w \in Walkers : ~walk[w].on
    /\ edges' = [edges EXCEPT ![id] = Absent]
    /\ stored' = [stored EXCEPT ![id] = Absent]
    /\ UNCHANGED <<first, call, walk, linked, stable>>

-----------------------------------------------------------------------------
(* link_into_chains *)

Begin(t, id, where) ==
    /\ pc[t] = "idle"
    /\ id \in InMap /\ Borrowable(id)
    /\ pc' = [pc EXCEPT ![t] = where]
    /\ cur' = [cur EXCEPT ![t] = id]
    /\ dir' = [dir EXCEPT ![t] = "out"]

\* The caller links an edge once.
link_into_chains(t, id) ==
    /\ id \notin linked
    /\ Begin(t, id, "link")
    /\ UNCHANGED <<edges, first, stored, edge, at, pred, walk, linked, stable>>

\* After the out chain the in chain, then the record.
Onward(t, again, last) ==
    IF dir[t] = "out"
    THEN /\ dir' = [dir EXCEPT ![t] = "in"]
         /\ pc' = [pc EXCEPT ![t] = again]
    ELSE /\ dir' = [dir EXCEPT ![t] = "out"]
         /\ pc' = [pc EXCEPT ![t] = last]

\* The edge points to the head, then the head to the edge.
LinkOne(t) ==
    /\ pc[t] = "link"
    /\ edges' = [edges EXCEPT ![cur[t]].next[dir[t]] = first[dir[t]][End(t)]]
    /\ first' = [first EXCEPT ![dir[t]][End(t)] = cur[t]]
    /\ Onward(t, "link", "link_log")
    /\ UNCHANGED <<stored, cur, edge, at, pred, walk, linked, stable>>

\* The call returns; its locals are gone.
Return(t) ==
    /\ pc' = [pc EXCEPT ![t] = "idle"]
    /\ dir' = [dir EXCEPT ![t] = "out"]
    /\ cur' = [cur EXCEPT ![t] = NULL_EDGE]
    /\ edge' = [edge EXCEPT ![t] = Absent]
    /\ at' = [at EXCEPT ![t] = NULL_EDGE]
    /\ pred' = [pred EXCEPT ![t] = NoPred]

LinkLog(t) ==
    /\ pc[t] = "link_log"
    /\ Persist(cur[t])
    /\ linked' = linked \cup {cur[t]}
    /\ Return(t)
    /\ UNCHANGED <<edges, first, walk, stable>>

-----------------------------------------------------------------------------
(* unlink_from_chains *)

\* The clone of the edge.
unlink_from_chains(t, id) ==
    /\ Begin(t, id, "unlink")
    /\ edge' = [edge EXCEPT ![t] = edges[id]]
    /\ stable' = [w \in Walkers |-> stable[w] \ {id}]
    /\ UNCHANGED <<edges, first, stored, at, pred, walk, linked>>

\* Mutant: an edge at the head of its chain is searched for behind it.
UnlinkHeadForgets(t) ==
    /\ pc[t] = "unlink"
    /\ at' = [at EXCEPT ![t] = first[dir[t]][End(t)]]
    /\ pc' = [pc EXCEPT ![t] = "search"]
    /\ UNCHANGED <<edges, first, stored, dir, cur, edge, pred, walk, linked, stable>>

\* The head, or else the start of the search.
UnlinkHead(t) ==
    /\ pc[t] = "unlink"
    /\ LET head == first[dir[t]][End(t)]
       IN  \/ /\ head = cur[t]
              /\ first' = [first EXCEPT ![dir[t]][End(t)] = edge[t].next[dir[t]]]
              /\ Onward(t, "unlink", "log")
              /\ UNCHANGED at
           \/ /\ head # cur[t]
              /\ at' = [at EXCEPT ![t] = head]
              /\ pc' = [pc EXCEPT ![t] = "search"]
              /\ UNCHANGED <<first, dir>>
    /\ UNCHANGED <<edges, stored, cur, edge, pred, walk, linked, stable>>

\* The search has reached the end of the chain, or a gap in it.
Lost(t) == at[t] \notin InMap

\* Mutant: the edge taken out is cut off from the rest of the chain as well.
FoundCutsOff(t) ==
    edges' = [edges EXCEPT ![at[t]].next[dir[t]] = edge[t].next[dir[t]],
                           ![cur[t]].next[dir[t]] = NULL_EDGE]

\* The predecessor skips the edge; the edge itself is left as it is.
Found(t) ==
    edges' = [edges EXCEPT ![at[t]].next[dir[t]] = edge[t].next[dir[t]]]

\* One turn of the loop, under the lock of the entry it is at.
Search(t) ==
    /\ pc[t] = "search"
    /\ \/ /\ Lost(t)
          /\ Onward(t, "unlink", "log")
          /\ UNCHANGED <<edges, at, pred>>
       \/ /\ ~Lost(t) /\ edges[at[t]].next[dir[t]] = cur[t]
          /\ Found(t)
          /\ pred' = [pred EXCEPT ![t][dir[t]] = at[t]]
          /\ Onward(t, "unlink", "log")
          /\ UNCHANGED at
       \/ /\ ~Lost(t) /\ edges[at[t]].next[dir[t]] # cur[t]
          /\ at' = [at EXCEPT ![t] = edges[at[t]].next[dir[t]]]
          /\ UNCHANGED <<edges, pc, dir, pred>>
    /\ UNCHANGED <<first, stored, cur, edge, walk, linked, stable>>

\* Mutant: the predecessor in the in chain is not persisted.
PersistPredOutOnly(t) ==
    IF dir[t] = "out" /\ pred[t]["out"] \in InMap
    THEN Persist(pred[t]["out"]) ELSE UNCHANGED stored

\* The record of a predecessor, if there is one and it is still in the map.
PersistPred(t) ==
    LET p == pred[t][dir[t]]
    IN  IF p \in InMap
        THEN Persist(p) ELSE UNCHANGED stored

UnlinkLog(t) ==
    /\ pc[t] = "log"
    /\ PersistPred(t)
    /\ \/ /\ dir[t] = "out"
          /\ dir' = [dir EXCEPT ![t] = "in"]
          /\ UNCHANGED <<pc, cur, edge, at, pred, linked>>
       \/ /\ dir[t] = "in"
          /\ linked' = linked \ {cur[t]}
          /\ Return(t)
    /\ UNCHANGED <<edges, first, walk, stable>>

-----------------------------------------------------------------------------
(* out_edges and in_edges *)

\* The caller passes the head, which it can read while nobody has borrowed it.
StartWalk(w, d, n) ==
    /\ ~walk[w].on /\ <<d, n>> \notin Borrowed
    /\ walk' = [walk EXCEPT ![w] = [on |-> TRUE, dir |-> d, node |-> n,
                                    at |-> first[d][n], found |-> {}]]
    /\ stable' = [stable EXCEPT ![w] =
                     {id \in linked : edges[id].end[d] = n}]
    /\ UNCHANGED <<edges, first, stored, call, linked>>

\* The end of the chain, or a gap in it.
Over(w) == walk[w].at \notin InMap

\* One turn of the loop.
WalkOn(w) ==
    /\ walk[w].on /\ ~Over(w)
    /\ walk' = [walk EXCEPT
          ![w].found = @ \cup {walk[w].at},
          ![w].at = edges[walk[w].at].next[walk[w].dir]]
    /\ UNCHANGED <<edges, first, stored, call, linked, stable>>

\* The walk returns what it found.
WalkEnd(w) ==
    /\ walk[w].on /\ Over(w)
    /\ walk' = [walk EXCEPT ![w] = NoWalk]
    /\ stable' = [stable EXCEPT ![w] = {}]
    /\ UNCHANGED <<edges, first, stored, call, linked>>

-----------------------------------------------------------------------------
Init ==
    /\ edges = [i \in Ids |-> Absent] /\ stored = edges
    /\ first = [d \in Dirs |-> [n \in Nodes |-> NULL_EDGE]]
    /\ pc = [t \in Threads |-> "idle"]
    /\ dir = [t \in Threads |-> "out"]
    /\ cur = [t \in Threads |-> NULL_EDGE]
    /\ edge = [t \in Threads |-> Absent]
    /\ at = [t \in Threads |-> NULL_EDGE]
    /\ pred = [t \in Threads |-> NoPred]
    /\ walk = [w \in Walkers |-> NoWalk]
    /\ linked = {} /\ stable = [w \in Walkers |-> {}]

Next ==
    \/ \E id \in Ids : \/ \E ends \in Ends : insert_edge(id, ends[1], ends[2])
                       \/ hard_delete(id)
    \/ \E t \in Threads :
          \/ \E id \in Ids : link_into_chains(t, id) \/ unlink_from_chains(t, id)
          \/ LinkOne(t) \/ LinkLog(t)
          \/ UnlinkHead(t) \/ Search(t) \/ UnlinkLog(t)
    \/ \E w \in Walkers :
          \/ \E d \in Dirs, n \in Nodes : StartWalk(w, d, n)
          \/ WalkOn(w) \/ WalkEnd(w)

Spec == Init /\ [][Next]_vars

-----------------------------------------------------------------------------
\* The types; and no two calls have a head in common.
TypeOK ==
    /\ edges \in [Ids -> Edge \cup {Absent}] /\ stored \in [Ids -> Edge \cup {Absent}]
    /\ first \in [Dirs -> [Nodes -> Links]]
    /\ pc \in [Threads -> {"idle", "link", "link_log", "unlink", "search", "log"}]
    /\ dir \in [Threads -> Dirs]
    /\ cur \in [Threads -> Links] /\ at \in [Threads -> Links]
    /\ edge \in [Threads -> Edge \cup {Absent}]
    /\ pred \in [Threads -> [Dirs -> Links]]
    /\ linked \subseteq InMap
    /\ \A t, u \in InCall : t # u => Heads(cur[t]) \cap Heads(cur[u]) = {}

\* The k-th edge behind link h of a chain of the map m; NULL_EDGE past its end.
Nth(m, d, h) ==
    LET nth[k \in 0 .. Cardinality(Ids)] ==
          IF k = 0 THEN h
          ELSE IF nth[k - 1] \notin {id \in Ids : m[id] # Absent} THEN NULL_EDGE
          ELSE m[nth[k - 1]].next[d]
    IN  nth

(***************************************************************************)
(* A chain nobody has borrowed holds the linked edges of its node and no   *)
(* others, each of them once; and the types are right.                     *)
(***************************************************************************)
ChainsAreExact ==
    /\ TypeOK
    /\ \A d \in Dirs, n \in Nodes : <<d, n>> \notin Borrowed =>
           LET nth == Nth(edges, d, first[d][n])
               mine == {id \in linked : edges[id].end[d] = n}
               size == Cardinality(mine)
           IN  /\ {nth[k] : k \in 0 .. size - 1} = mine
               /\ nth[size] = NULL_EDGE

(***************************************************************************)
(* A walk returns every edge that was linked from its start to its end,    *)
(* whatever was linked and unlinked around it meanwhile.                   *)
(***************************************************************************)
WalkFindsStable ==
    \A w \in Walkers : walk[w].on /\ Over(w) => stable[w] \subseteq walk[w].found

(***************************************************************************)
(* A walk returns edges of its own node only.                              *)
(***************************************************************************)
WalkStaysInChain ==
    \A w \in Walkers : \A id \in walk[w].found :
        edges[id] # Absent /\ edges[id].end[walk[w].dir] = walk[w].node

(***************************************************************************)
(* Whenever the process stops, no chain that is rebuilt from the log runs  *)
(* in a circle, on which out_edges would never return.                     *)
(***************************************************************************)
RecoveredChainsEnd ==
    \A d \in Dirs, id \in Ids :
        Nth(stored, d, id)[Cardinality(Ids)] = NULL_EDGE
=============================================================================
