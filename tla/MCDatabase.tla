---------------------------- MODULE MCDatabase ----------------------------
(* Database on small instances. *)
EXTENDS Database, TLC

CONSTANTS a, b, p

MCClients == {a, b}
MCCells == {p}
MCNoCells == {}
MCAllCalls == Vectors
MCInserts == {"node_inserts"}
MCUpdates == {"node_inserts", "node_updates"}
MCNodesAndEdges == {"node_inserts", "edge_inserts", "edge_deletes"}
MCNoUpdates == Vectors \ {"node_updates", "edge_deletes"}

MCSymmetry == Permutations(Clients)
============================================================================
