---------------------------- MODULE MCTxManager ----------------------------
(* TxManager on small instances. *)
EXTENDS TxManager, TLC

CONSTANTS c1, c2, c3

MCTwoClients == {c1, c2}
MCThreeClients == {c1, c2, c3}

\* The clients are interchangeable in every safety property.
MCSymmetry == Permutations(Clients)
============================================================================
