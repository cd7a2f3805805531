----------------------------- MODULE TxManager -----------------------------
(***************************************************************************)
(* src/transaction/tx_manager.rs, driven through the Transaction handles   *)
(* of src/transaction/mod.rs.                                              *)
(*                                                                         *)
(* Two shared atomics, next_tx_id (the ticket dispenser) and               *)
(* committed_tx_id (the last ticket committed or rolled back), and no      *)
(* lock.  Each client is a thread with at most one Transaction handle.     *)
(* Every access to an atomic is a step of its own: commit() and rollback() *)
(* load committed_tx_id, compare it, and STORE tx_id; they do not compare  *)
(* and swap, so another thread may run between the load and the store.     *)
(***************************************************************************)
EXTENDS Integers, FiniteSets

CONSTANTS
    Clients,     \* threads that use the database
    SpinLimit,   \* SPIN_LIMIT: loads of commit() beyond which it times out
    MaxTx        \* bound on the tickets a behaviour issues

ASSUME SpinLimitAssumption == SpinLimit \in Nat
ASSUME MaxTxAssumption == MaxTx \in Nat

VARIABLES
    next_tx_id,       \* AtomicU64
    committed_tx_id,  \* AtomicU64
    pc,               \* where each client is
    tx_id,            \* the handle's ticket, 0 for none (and for a reader)
    snapshot,         \* the handle's snapshot
    finished,         \* the handle's "committed" Cell
    spins             \* iterations of commit()'s loop

vars == <<next_tx_id, committed_tx_id, pc, tx_id, snapshot, finished, spins>>
handle == <<tx_id, snapshot, finished>>

(***************************************************************************)
(* "idle": no handle.  "reading": a read-only handle.  "ticketed": inside  *)
(* begin_write, between the fetch_add and the load of the snapshot.        *)
(* "open": a write handle between two calls.  The others are inside        *)
(* commit(), rollback() and the rollback() that Drop calls, before the     *)
(* load and between a successful load and the store.                       *)
(***************************************************************************)
StoreStates == {"commit_store", "rollback_store", "drop_store"}
States == {"idle", "reading", "ticketed", "open", "commit", "rollback", "drop"}
              \cup StoreStates

Init ==
    /\ next_tx_id = 1
    /\ committed_tx_id = 0
    /\ pc = [c \in Clients |-> "idle"]
    /\ tx_id = [c \in Clients |-> 0]
    /\ snapshot = [c \in Clients |-> 0]
    /\ finished = [c \in Clients |-> FALSE]
    /\ spins = [c \in Clients |-> 0]

Goto(c, state) == pc' = [pc EXCEPT ![c] = state]

----------------------------------------------------------------------------
(* Beginning and ending a transaction *)

\* Database::begin_read: one load, no ticket.
BeginRead(c) ==
    /\ pc[c] = "idle"
    /\ Goto(c, "reading")
    /\ snapshot' = [snapshot EXCEPT ![c] = committed_tx_id]
    /\ UNCHANGED <<next_tx_id, committed_tx_id, tx_id, finished, spins>>

\* A read-only handle is dropped: neither commit nor Drop touches the manager.
EndRead(c) ==
    /\ pc[c] = "reading"
    /\ Goto(c, "idle")
    /\ snapshot' = [snapshot EXCEPT ![c] = 0]
    /\ UNCHANGED <<next_tx_id, committed_tx_id, tx_id, finished, spins>>

\* TxManager::begin_write: the fetch_add that takes a ticket.
BeginWrite(c) ==
    /\ pc[c] = "idle"
    /\ next_tx_id <= MaxTx
    /\ Goto(c, "ticketed")
    /\ tx_id' = [tx_id EXCEPT ![c] = next_tx_id]
    /\ finished' = [finished EXCEPT ![c] = FALSE]
    /\ next_tx_id' = next_tx_id + 1
    /\ UNCHANGED <<committed_tx_id, snapshot, spins>>

\* Mutant: the snapshot is taken from the ticket dispenser.
TakeSnapshotOfTickets(c) ==
    /\ pc[c] = "ticketed"
    /\ Goto(c, "open")
    /\ snapshot' = [snapshot EXCEPT ![c] = next_tx_id - 1]
    /\ UNCHANGED <<next_tx_id, committed_tx_id, tx_id, finished, spins>>

\* Database::begin_write: latest_committed() is a second access, after the
\* ticket has been taken.
TakeSnapshot(c) ==
    /\ pc[c] = "ticketed"
    /\ Goto(c, "open")
    /\ snapshot' = [snapshot EXCEPT ![c] = committed_tx_id]
    /\ UNCHANGED <<next_tx_id, committed_tx_id, tx_id, finished, spins>>

----------------------------------------------------------------------------
(* Transaction::commit and TxManager::commit *)

\* Mutant: "the counter is before my ticket" instead of equality.
MyTurnLax(c) == committed_tx_id < tx_id[c]

MyTurn(c) == committed_tx_id = tx_id[c] - 1

\* A finished handle is refused, which changes nothing and is no step here.
CallCommit(c) ==
    /\ pc[c] = "open"
    /\ ~finished[c]
    /\ Goto(c, "commit")
    /\ spins' = [spins EXCEPT ![c] = 0]
    /\ UNCHANGED <<next_tx_id, committed_tx_id, handle>>

\* One iteration of the loop: the turn has come, the limit is passed
\* (Err("timeout"), the handle stays open and keeps its ticket), or spin.
CommitLoad(c) ==
    /\ pc[c] = "commit"
    /\ \/ /\ MyTurn(c)
          /\ Goto(c, "commit_store")
          /\ UNCHANGED spins
       \/ /\ ~MyTurn(c)
          /\ spins[c] + 1 > SpinLimit
          /\ Goto(c, "open")
          /\ spins' = [spins EXCEPT ![c] = 0]
       \/ /\ ~MyTurn(c)
          /\ spins[c] + 1 <= SpinLimit
          /\ spins' = [spins EXCEPT ![c] = @ + 1]
          /\ UNCHANGED pc
    /\ UNCHANGED <<next_tx_id, committed_tx_id, handle>>

\* The store of committed_tx_id; Transaction::commit then sets its Cell.
CommitStore(c) ==
    /\ pc[c] = "commit_store"
    /\ committed_tx_id' = tx_id[c]
    /\ finished' = [finished EXCEPT ![c] = TRUE]
    /\ Goto(c, "open")
    /\ spins' = [spins EXCEPT ![c] = 0]
    /\ UNCHANGED <<next_tx_id, tx_id, snapshot>>

----------------------------------------------------------------------------
(* Transaction::rollback, Drop and TxManager::rollback *)

\* rollback() looks at is_write only: nothing stops it on a finished handle.
CallRollback(c) ==
    /\ pc[c] = "open"
    /\ Goto(c, "rollback")
    /\ UNCHANGED <<next_tx_id, committed_tx_id, handle, spins>>

\* Mutant: Drop does not roll back.
DropHandleLeaks(c) ==
    /\ pc[c] = "open"
    /\ Goto(c, "idle")
    /\ tx_id' = [tx_id EXCEPT ![c] = 0]
    /\ snapshot' = [snapshot EXCEPT ![c] = 0]
    /\ UNCHANGED <<next_tx_id, committed_tx_id, finished, spins>>

\* The handle goes out of scope; unless it is finished, Drop rolls it back.
DropHandle(c) ==
    /\ pc[c] = "open"
    /\ \/ /\ finished[c]
          /\ Goto(c, "idle")
          /\ tx_id' = [tx_id EXCEPT ![c] = 0]
          /\ snapshot' = [snapshot EXCEPT ![c] = 0]
       \/ /\ ~finished[c]
          /\ Goto(c, "drop")
          /\ UNCHANGED <<tx_id, snapshot>>
    /\ UNCHANGED <<next_tx_id, committed_tx_id, finished, spins>>

\* Mutant: rollback() advances the counter without waiting for its turn.
RollbackLoadEager(c) ==
    /\ pc[c] \in {"rollback", "drop"}
    /\ Goto(c, IF pc[c] = "drop" THEN "drop_store" ELSE "rollback_store")
    /\ UNCHANGED <<next_tx_id, committed_tx_id, handle, spins>>

\* The load that ends rollback()'s loop; the ones before it only spin, with
\* no limit.
RollbackLoad(c) ==
    /\ pc[c] \in {"rollback", "drop"}
    /\ MyTurn(c)
    /\ Goto(c, IF pc[c] = "drop" THEN "drop_store" ELSE "rollback_store")
    /\ UNCHANGED <<next_tx_id, committed_tx_id, handle, spins>>

\* Mutant: rollback() has nothing to undo and does not advance the counter.
RollbackStoreForgets(c) ==
    /\ finished' = [finished EXCEPT ![c] = TRUE]
    /\ \/ /\ pc[c] = "rollback_store"
          /\ Goto(c, "open")
          /\ UNCHANGED <<tx_id, snapshot>>
       \/ /\ pc[c] = "drop_store"
          /\ Goto(c, "idle")
          /\ tx_id' = [tx_id EXCEPT ![c] = 0]
          /\ snapshot' = [snapshot EXCEPT ![c] = 0]
    /\ UNCHANGED <<next_tx_id, committed_tx_id, spins>>

\* The store of committed_tx_id.  An explicit rollback() returns to the
\* handle and marks it finished; after Drop there is no handle.
RollbackStore(c) ==
    /\ committed_tx_id' = tx_id[c]
    /\ finished' = [finished EXCEPT ![c] = TRUE]
    /\ \/ /\ pc[c] = "rollback_store"
          /\ Goto(c, "open")
          /\ UNCHANGED <<tx_id, snapshot>>
       \/ /\ pc[c] = "drop_store"
          /\ Goto(c, "idle")
          /\ tx_id' = [tx_id EXCEPT ![c] = 0]
          /\ snapshot' = [snapshot EXCEPT ![c] = 0]
    /\ UNCHANGED <<next_tx_id, spins>>

----------------------------------------------------------------------------
(* What the code does by itself, and what its caller decides *)

Code(c) ==
    \/ TakeSnapshot(c)
    \/ CommitLoad(c) \/ CommitStore(c)
    \/ RollbackLoad(c) \/ RollbackStore(c)

Ending(c) == CallCommit(c) \/ CallRollback(c) \/ DropHandle(c)

Next == \E c \in Clients :
    \/ BeginRead(c) \/ EndRead(c) \/ BeginWrite(c)
    \/ Ending(c)
    \/ Code(c)

Spec == Init /\ [][Next]_vars

(***************************************************************************)
(* Fairness.  A thread inside the manager is scheduled again and again     *)
(* (the loops yield).  Nothing makes a caller end its transaction; where   *)
(* that is assumed it is the scope rule of Rust: a handle that is not      *)
(* leaked ends in commit(), rollback() or Drop.                            *)
(***************************************************************************)
LazySpec == Spec /\ \A c \in Clients : WF_vars(Code(c))
ScopedSpec == Spec /\ \A c \in Clients : WF_vars(Code(c) \/ Ending(c))

----------------------------------------------------------------------------
(* Properties *)

TypeOK ==
    /\ next_tx_id \in Nat \ {0}
    /\ committed_tx_id \in Nat
    /\ pc \in [Clients -> States]
    /\ tx_id \in [Clients -> Nat]
    /\ snapshot \in [Clients -> Nat]
    /\ finished \in [Clients -> BOOLEAN]
    /\ spins \in [Clients -> 0..SpinLimit]

\* The client holds a ticket that is neither committed nor rolled back.
Holds(c) == pc[c] \notin {"idle", "reading"} /\ ~finished[c]

\* The tickets between committed_tx_id and next_tx_id are exactly the tickets
\* held, each by one client: none is lost (the queue would stall for good)
\* and none is shared or held after it retired (the counter would go back).
TicketsAccounted ==
    \A t \in 1..(next_tx_id - 1) :
        Cardinality({c \in Clients : Holds(c) /\ tx_id[c] = t}) =
            (IF t > committed_tx_id THEN 1 ELSE 0)

\* The load of commit()/rollback() is still true at the store, although
\* nothing protects the two: at most one client is past its load, and it is
\* the one whose turn it is.
TurnIsExclusive ==
    \A c \in Clients : pc[c] \in StoreStates =>
        /\ Holds(c)
        /\ MyTurn(c)
        /\ \A d \in Clients \ {c} : pc[d] \notin StoreStates

\* A write transaction reads at a snapshot older than itself, and no handle
\* reads at a snapshot that has not been reached, although begin_write takes
\* the ticket and the snapshot in two steps.
SnapshotsAreSettled ==
    \A c \in Clients :
        /\ snapshot[c] <= committed_tx_id
        /\ pc[c] \notin {"idle", "reading", "ticketed"} => snapshot[c] < tx_id[c]

\* committed_tx_id only ever moves to the next ticket: it skips none and
\* never moves back, whatever thread stores.
AdvancesByOne ==
    [][committed_tx_id' # committed_tx_id
          => committed_tx_id' = committed_tx_id + 1]_vars

Tickets == INSTANCE TicketOrder WITH
    next <- next_tx_id,
    frontier <- committed_tx_id,
    open <- {tx_id[c] : c \in {d \in Clients : Holds(d)}}

\* The lock-free manager implements the abstract ticket order: in particular
\* a load and a store that are not atomic behave as one atomic retirement.
ImplementsTicketOrder == Tickets!Spec

\* Every ticket issued eventually retires if every handle is ended, even when
\* commit() times out any number of times: the queue never stalls.
TicketsRetire ==
    \A t \in 1..MaxTx : (next_tx_id > t) ~> (committed_tx_id >= t)

\* A handle given up after a timeout is gone eventually ("To prevent
\* indefinite waiting ... Caller should retry with a new ticket").
AbandonedHandleIsReleased ==
    \A c \in Clients : (pc[c] = "drop") ~> (pc[c] = "idle")

============================================================================
