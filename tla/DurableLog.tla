----------------------------- MODULE DurableLog -----------------------------
(***************************************************************************)
(* The contract of a store's write-ahead log, guarantees G1 to G3 of       *)
(* src/storage/consistency.rs, seen by someone who only watches the log:   *)
(* writes are appended in one order, a prefix of them is durable, a flush  *)
(* acknowledges only what is durable, and what a crash or a close takes    *)
(* away is a suffix that is not durable.  WalThread implements it.         *)
(***************************************************************************)
EXTENDS Naturals, Sequences

VARIABLES
    log,       \* the writes, in the order of the log
    durable,   \* length of the prefix that is on disk for good
    acked      \* length of the longest prefix a flush has acknowledged

vars == <<log, durable, acked>>

Init ==
    /\ log = <<>>
    /\ durable = 0
    /\ acked = 0

\* A write enters the log, behind all the others.
AppendWrite ==
    /\ Len(log') = Len(log) + 1
    /\ \A i \in 1..Len(log) : log'[i] = log[i]
    /\ UNCHANGED <<durable, acked>>

\* More of the log becomes durable.
Harden ==
    /\ durable' \in durable..Len(log)
    /\ UNCHANGED <<log, acked>>

\* A flush returns; it vouches for durable writes only.
Acknowledge ==
    /\ acked' \in acked..durable
    /\ UNCHANGED <<log, durable>>

\* A crash, or closing the store, keeps a prefix and all that is durable.
Lose ==
    /\ Len(log') \in durable..Len(log)
    /\ \A i \in 1..Len(log') : log'[i] = log[i]
    /\ UNCHANGED <<durable, acked>>

Next == AppendWrite \/ Harden \/ Acknowledge \/ Lose

Spec == Init /\ [][Next]_vars
=============================================================================
