---------------------------- MODULE MCEdgeChains ----------------------------
(* EdgeChains on small instances. *)
EXTENDS EdgeChains, TLC

CONSTANTS a, b, w, m, n, e1, e2, e3

MCThreads == {a, b}
MCWalkers == {w}
MCNodes == {m, n}
MCEnds == {<<m, n>>, <<n, m>>, <<m, m>>}
MCIds == {e1, e2, e3}

\* Threads and edges are interchangeable in every property.
MCSymmetry == Permutations(Threads) \cup Permutations(Ids)
=============================================================================
