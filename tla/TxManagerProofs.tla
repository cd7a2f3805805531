-------------------------- MODULE TxManagerProofs --------------------------
(***************************************************************************)
(* Theorems about TxManager for any set of clients, any spin limit and any *)
(* number of tickets.                                                      *)
(*                                                                         *)
(* TurnIsExclusive is not inductive: that a client past its load is the    *)
(* only one needs to know that no two clients hold the same ticket, that   *)
(* every ticket held is above committed_tx_id, and that a finished handle  *)
(* (which may still be inside rollback()) is at or below it.  Inv collects *)
(* those facts.                                                            *)
(***************************************************************************)
EXTENDS TxManager, FiniteSetTheorems, TLAPS

\* Every ticket held lies strictly between the two counters.
HeldInWindow ==
    /\ committed_tx_id < next_tx_id
    /\ \A c \in Clients : Holds(c) =>
          committed_tx_id < tx_id[c] /\ tx_id[c] < next_tx_id

\* No two clients hold the same ticket.
HeldOnce ==
    \A c, d \in Clients : Holds(c) /\ Holds(d) /\ tx_id[c] = tx_id[d] => c = d

\* The handle of a finished transaction is behind the counter.
FinishedIsBehind ==
    \A c \in Clients :
        pc[c] \notin {"idle", "reading"} /\ finished[c]
            => tx_id[c] > 0 /\ tx_id[c] <= committed_tx_id

\* A client between its load and its store has the next ticket, and a client
\* inside commit() or Drop's rollback() has a handle that is not finished.
StoreHasTurn ==
    \A c \in Clients :
        /\ pc[c] \in StoreStates => tx_id[c] = committed_tx_id + 1
        /\ pc[c] \in StoreStates \cup {"commit", "drop", "ticketed"} => ~finished[c]

\* Every ticket of the window is held by someone.
WindowIsHeld ==
    \A t \in Nat : committed_tx_id < t /\ t < next_tx_id
        => \E c \in Clients : Holds(c) /\ tx_id[c] = t

Inv ==
    /\ TypeOK
    /\ HeldInWindow
    /\ HeldOnce
    /\ FinishedIsBehind
    /\ StoreHasTurn
    /\ WindowIsHeld
    /\ SnapshotsAreSettled

----------------------------------------------------------------------------
(* The invariant is inductive *)

\* The initial state satisfies the invariant.
LEMMA InitInv == Init => Inv
  BY SpinLimitAssumption
  DEF Init, Inv, TypeOK, HeldInWindow, HeldOnce, FinishedIsBehind, StoreHasTurn,
      WindowIsHeld, SnapshotsAreSettled, Holds, States, StoreStates

\* The actions of a client that touch neither counter keep every ticket where
\* it is; the fetch_add opens the window at the top, the stores close it at
\* the bottom.
LEMMA NextInv == Inv /\ [Next]_vars => Inv'
<1> SUFFICES ASSUME Inv, [Next]_vars PROVE Inv'
  OBVIOUS
<1> USE SpinLimitAssumption, MaxTxAssumption
<1> USE DEF Inv, TypeOK, HeldInWindow, HeldOnce, FinishedIsBehind,
       StoreHasTurn, WindowIsHeld, SnapshotsAreSettled, Holds, States,
       StoreStates
<1>1. ASSUME NEW c \in Clients, BeginRead(c) PROVE Inv'
  BY <1>1 DEF BeginRead, Goto
<1>2. ASSUME NEW c \in Clients, EndRead(c) PROVE Inv'
  BY <1>2 DEF EndRead, Goto
<1>3. ASSUME NEW c \in Clients, BeginWrite(c) PROVE Inv'
  <2>1. WindowIsHeld'
    <3> SUFFICES ASSUME NEW t \in Nat, committed_tx_id < t, t < next_tx_id + 1
                 PROVE  \E d \in Clients : Holds(d)' /\ tx_id'[d] = t
      BY <1>3 DEF BeginWrite
    <3>1. CASE t = next_tx_id
      BY <1>3, <3>1 DEF BeginWrite, Goto
    <3>2. CASE t < next_tx_id
      <4>1. PICK d \in Clients : Holds(d) /\ tx_id[d] = t
        BY <3>2
      <4>2. d # c
        BY <1>3, <4>1 DEF BeginWrite
      <4> QED BY <1>3, <4>1, <4>2 DEF BeginWrite, Goto
    <3> QED BY <3>1, <3>2
  <2> QED BY <1>3, <2>1 DEF BeginWrite, Goto
<1>4. ASSUME NEW c \in Clients, TakeSnapshot(c) PROVE Inv'
  BY <1>4 DEF TakeSnapshot, Goto
<1>5. ASSUME NEW c \in Clients, CallCommit(c) PROVE Inv'
  BY <1>5 DEF CallCommit, Goto, handle
<1>6. ASSUME NEW c \in Clients, CommitLoad(c) PROVE Inv'
  BY <1>6 DEF CommitLoad, MyTurn, Goto, handle
<1>7. ASSUME NEW c \in Clients, CommitStore(c) PROVE Inv'
  <2>1. WindowIsHeld'
    <3> SUFFICES ASSUME NEW t \in Nat, tx_id[c] < t, t < next_tx_id
                 PROVE  \E d \in Clients : Holds(d)' /\ tx_id'[d] = t
      BY <1>7 DEF CommitStore
    <3>1. PICK d \in Clients : Holds(d) /\ tx_id[d] = t
      BY <1>7 DEF CommitStore
    <3> QED BY <1>7, <3>1 DEF CommitStore, Goto
  <2>2. tx_id[c] = committed_tx_id + 1 /\ Holds(c) /\ ~Holds(c)'
    BY <1>7 DEF CommitStore, Goto
  <2>3. \A d \in Clients \ {c} :
           Holds(d)' = Holds(d) /\ tx_id'[d] = tx_id[d] /\ pc'[d] = pc[d]
    BY <1>7 DEF CommitStore, Goto
  <2>4. \A d \in Clients \ {c} : Holds(d) => tx_id[d] > committed_tx_id + 1
    BY <2>2
  <2>5. TypeOK'
    BY <1>7 DEF CommitStore, Goto
  <2>6. HeldInWindow' /\ HeldOnce'
    BY <1>7, <2>2, <2>3, <2>4 DEF CommitStore
  <2>7. FinishedIsBehind' /\ StoreHasTurn'
    BY <1>7, <2>2, <2>3, <2>4 DEF CommitStore, Goto
  <2>8. SnapshotsAreSettled'
    BY <1>7, <2>2 DEF CommitStore, Goto
  <2> QED BY <2>1, <2>5, <2>6, <2>7, <2>8
<1>8. ASSUME NEW c \in Clients, CallRollback(c) PROVE Inv'
  BY <1>8 DEF CallRollback, Goto, handle
<1>9. ASSUME NEW c \in Clients, DropHandle(c) PROVE Inv'
  BY <1>9 DEF DropHandle, Goto
<1>10. ASSUME NEW c \in Clients, RollbackLoad(c) PROVE Inv'
  BY <1>10 DEF RollbackLoad, MyTurn, Goto, handle
<1>11. ASSUME NEW c \in Clients, RollbackStore(c) PROVE Inv'
  <2>1. WindowIsHeld'
    <3> SUFFICES ASSUME NEW t \in Nat, tx_id[c] < t, t < next_tx_id
                 PROVE  \E d \in Clients : Holds(d)' /\ tx_id'[d] = t
      BY <1>11 DEF RollbackStore
    <3>1. PICK d \in Clients : Holds(d) /\ tx_id[d] = t
      BY <1>11 DEF RollbackStore
    <3> QED BY <1>11, <3>1 DEF RollbackStore, Goto
  <2>2. tx_id[c] = committed_tx_id + 1 /\ Holds(c) /\ ~Holds(c)'
    BY <1>11 DEF RollbackStore, Goto
  <2>3. \A d \in Clients \ {c} :
           Holds(d)' = Holds(d) /\ tx_id'[d] = tx_id[d] /\ pc'[d] = pc[d]
    BY <1>11 DEF RollbackStore, Goto
  <2>4. \A d \in Clients \ {c} : Holds(d) => tx_id[d] > committed_tx_id + 1
    BY <2>2
  <2>5. TypeOK'
    BY <1>11 DEF RollbackStore, Goto
  <2>6. HeldInWindow' /\ HeldOnce'
    BY <1>11, <2>2, <2>3, <2>4 DEF RollbackStore
  <2>7. FinishedIsBehind' /\ StoreHasTurn'
    BY <1>11, <2>2, <2>3, <2>4 DEF RollbackStore, Goto
  <2>8. SnapshotsAreSettled'
    BY <1>11, <2>2 DEF RollbackStore, Goto
  <2> QED BY <2>1, <2>5, <2>6, <2>7, <2>8
<1>12. CASE UNCHANGED vars
  BY <1>12 DEF vars
<1> QED
  BY <1>1, <1>2, <1>3, <1>4, <1>5, <1>6, <1>7, <1>8, <1>9, <1>10, <1>11, <1>12
  DEF Next, Code, Ending

\* Inv holds in every reachable state, for any constants.
THEOREM InvHolds == Spec => []Inv
  BY InitInv, NextInv, PTL DEF Spec

----------------------------------------------------------------------------
(* What follows from it *)

\* Type correctness.
THEOREM TypeCorrect == Spec => []TypeOK
<1>1. Inv => TypeOK
  BY DEF Inv
<1> QED BY <1>1, InvHolds, PTL

\* No thread runs between another's successful load and its store of
\* committed_tx_id in a way that matters: one client at most is there, and
\* what it loaded is still true.
THEOREM TurnsAreExclusive == Spec => []TurnIsExclusive
<1>1. Inv => TurnIsExclusive
  <2> SUFFICES ASSUME Inv, NEW c \in Clients, pc[c] \in StoreStates
               PROVE  /\ Holds(c)
                      /\ MyTurn(c)
                      /\ \A d \in Clients \ {c} : pc[d] \notin StoreStates
    BY DEF TurnIsExclusive
  <2>1. Holds(c) /\ MyTurn(c)
    BY DEF Inv, TypeOK, StoreHasTurn, StoreStates, Holds, MyTurn
  <2>2. ASSUME NEW d \in Clients, pc[d] \in StoreStates PROVE d = c
    BY <2>1, <2>2 DEF Inv, TypeOK, StoreHasTurn, HeldOnce, StoreStates, Holds
  <2> QED BY <2>1, <2>2
<1> QED BY <1>1, InvHolds, PTL

\* Snapshots are reached before they are used, and a writer's snapshot is
\* older than its own ticket.
THEOREM SnapshotsSettled == Spec => []SnapshotsAreSettled
<1>1. Inv => SnapshotsAreSettled
  BY DEF Inv
<1> QED BY <1>1, InvHolds, PTL

\* Each ticket between the counters has exactly one holder, each ticket below
\* them has none.
THEOREM TicketsAreAccounted == Spec => []TicketsAccounted
<1>1. Inv => TicketsAccounted
  <2> SUFFICES ASSUME Inv, NEW t \in 1..(next_tx_id - 1)
               PROVE  Cardinality({c \in Clients : Holds(c) /\ tx_id[c] = t}) =
                          (IF t > committed_tx_id THEN 1 ELSE 0)
    BY DEF TicketsAccounted
  <2> DEFINE H == {c \in Clients : Holds(c) /\ tx_id[c] = t}
  <2> t \in Nat /\ t < next_tx_id
    BY DEF Inv, TypeOK
  <2>1. CASE t > committed_tx_id
    <3>1. PICK c \in Clients : Holds(c) /\ tx_id[c] = t
      BY <2>1 DEF Inv, TypeOK, WindowIsHeld
    <3>2. H = {c}
      BY <3>1 DEF Inv, HeldOnce
    <3> QED BY <2>1, <3>2, FS_Singleton
  <2>2. CASE ~(t > committed_tx_id)
    <3>1. H = {}
      BY <2>2 DEF Inv, TypeOK, HeldInWindow
    <3> QED BY <2>2, <3>1, FS_EmptySet
  <2> QED BY <2>1, <2>2
<1> QED BY <1>1, InvHolds, PTL

\* committed_tx_id moves by one ticket at a time: a plain store is enough.
THEOREM CounterAdvancesByOne == Spec => AdvancesByOne
<1>1. Inv /\ [Next]_vars =>
        [committed_tx_id' # committed_tx_id
           => committed_tx_id' = committed_tx_id + 1]_vars
  BY DEF Inv, TypeOK, StoreHasTurn, StoreStates, Next, Code, Ending, vars, handle,
     BeginRead, EndRead, BeginWrite, TakeSnapshot, CallCommit, CommitLoad,
     CommitStore, CallRollback, DropHandle, RollbackLoad, RollbackStore
<1> QED BY <1>1, InvHolds, PTL DEF Spec, AdvancesByOne

----------------------------------------------------------------------------
(* TxManager implements TicketOrder *)

OpenTickets == {tx_id[c] : c \in {d \in Clients : Holds(d)}}

\* A step that leaves the counters, the tickets and their holders alone is a
\* stuttering step of the abstract specification.
LEMMA SameHolders ==
  ASSUME UNCHANGED <<next_tx_id, committed_tx_id>>,
         \A c \in Clients : Holds(c)' = Holds(c),
         \A c \in Clients : Holds(c) => tx_id'[c] = tx_id[c]
  PROVE  UNCHANGED Tickets!vars
<1>1. OpenTickets' = OpenTickets
  BY DEF OpenTickets
<1> QED BY <1>1 DEF Tickets!vars, OpenTickets

\* A client that holds the next ticket gives it up and everyone else keeps
\* theirs: a Retire step.
LEMMA RetireStep ==
  ASSUME Inv,
         NEW c \in Clients, Holds(c), tx_id[c] = committed_tx_id + 1,
         committed_tx_id' = tx_id[c], next_tx_id' = next_tx_id,
         ~Holds(c)',
         \A d \in Clients \ {c} : Holds(d)' = Holds(d) /\ tx_id'[d] = tx_id[d]
  PROVE  Tickets!Retire
<1>1. committed_tx_id + 1 \in OpenTickets
  BY DEF OpenTickets
<1>2. \A d \in Clients \ {c} : Holds(d) => tx_id[d] # committed_tx_id + 1
  BY DEF Inv, HeldOnce
<1>3. OpenTickets' = OpenTickets \ {committed_tx_id + 1}
  BY <1>2 DEF OpenTickets
<1> QED BY <1>1, <1>3 DEF Tickets!Retire, OpenTickets

\* The lock-free manager implements the abstract ticket order: BeginWrite is
\* Issue, the two stores are Retire, everything else stutters.
THEOREM Implementation == Spec => ImplementsTicketOrder
<1>1. Init => Tickets!Init
  BY DEF Init, Tickets!Init, Holds
<1>2. Inv /\ [Next]_vars => [Tickets!Next]_Tickets!vars
  <2> SUFFICES ASSUME Inv, [Next]_vars PROVE [Tickets!Next]_Tickets!vars
    OBVIOUS
  <2> USE DEF Inv, TypeOK, StoreHasTurn, StoreStates, Goto, handle, Holds
  <2>1. ASSUME NEW c \in Clients, BeginWrite(c) PROVE Tickets!Issue
    <3>1. OpenTickets' = OpenTickets \cup {next_tx_id}
      BY <2>1 DEF BeginWrite, OpenTickets
    <3> QED BY <2>1, <3>1 DEF BeginWrite, Tickets!Issue, OpenTickets
  <2>2. ASSUME NEW c \in Clients, CommitStore(c) PROVE Tickets!Retire
    BY <2>2, RetireStep DEF CommitStore
  <2>3. ASSUME NEW c \in Clients, RollbackStore(c) PROVE Tickets!Retire
    BY <2>3, RetireStep DEF RollbackStore
  <2>4. ASSUME NEW c \in Clients,
               \/ BeginRead(c) \/ EndRead(c) \/ TakeSnapshot(c)
               \/ Ending(c) \/ CommitLoad(c) \/ RollbackLoad(c)
        PROVE  UNCHANGED Tickets!vars
    BY <2>4, SameHolders
    DEF BeginRead, EndRead, TakeSnapshot, Ending, CallCommit, CallRollback,
        DropHandle, CommitLoad, RollbackLoad
  <2>5. CASE UNCHANGED vars
    BY <2>5, SameHolders DEF vars
  <2> QED
    BY <2>1, <2>2, <2>3, <2>4, <2>5 DEF Next, Code, Tickets!Next
<1> QED BY <1>1, <1>2, InvHolds, PTL DEF Spec, ImplementsTicketOrder, Tickets!Spec
============================================================================
