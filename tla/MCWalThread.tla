---------------------------- MODULE MCWalThread ----------------------------
(* WalThread on small instances. *)
EXTENDS WalThread, TLC

CONSTANTS a, b

MCOneWriter == {a}
MCTwoWriters == {a, b}

\* The writers are interchangeable in every safety property.
MCSymmetry == Permutations(Writers)
============================================================================
