---------------------------- MODULE TicketOrder ----------------------------
(***************************************************************************)
(* What the ticket lock of lightgraph promises, with no word about how:    *)
(* tickets are numbered 1, 2, 3, ... in the order they are issued, and     *)
(* they retire (commit or roll back) one at a time, each only after every  *)
(* earlier one.  "frontier" is the last ticket retired; a snapshot is a    *)
(* value the frontier has had.  TxManager is shown to implement this.      *)
(***************************************************************************)
EXTENDS Naturals

VARIABLES
    next,       \* the next ticket to issue
    frontier,   \* the last ticket retired, 0 before the first
    open        \* the tickets issued and not retired

vars == <<next, frontier, open>>

Init ==
    /\ next = 1
    /\ frontier = 0
    /\ open = {}

\* A ticket is issued.
Issue ==
    /\ next' = next + 1
    /\ open' = open \cup {next}
    /\ UNCHANGED frontier

\* The oldest open ticket retires: its turn has come and nobody else's has.
Retire ==
    /\ frontier + 1 \in open
    /\ frontier' = frontier + 1
    /\ open' = open \ {frontier + 1}
    /\ UNCHANGED next

Next == Issue \/ Retire

Spec == Init /\ [][Next]_vars
============================================================================
