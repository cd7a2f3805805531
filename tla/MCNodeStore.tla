---------------------------- MODULE MCNodeStore ----------------------------
(* NodeStore on small instances. *)
EXTENDS NodeStore, TLC

CONSTANTS a, b, x, y

MCThreads == {a, b}
MCOneDeleter == {a}
MCData == {x, y}
MCOneValue == {x}

\* The values a node holds are interchangeable in every property; so are the
\* threads where all of them may delete.
MCValues == Permutations(Data)
MCBoth == Permutations(Data) \cup Permutations(Threads)
============================================================================
