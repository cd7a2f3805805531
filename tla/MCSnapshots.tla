---------------------------- MODULE MCSnapshots ----------------------------
(* Snapshots on small instances. *)
EXTENDS Snapshots, TLC

CONSTANTS nodes_wal, edges_wal

MCFiles == {nodes_wal, edges_wal}

\* The code treats the WAL files alike.
MCSymmetry == Permutations(Files)
============================================================================
