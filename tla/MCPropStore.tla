---------------------------- MODULE MCPropStore ----------------------------
(* PropStore on small instances. *)
EXTENDS PropStore

CONSTANTS a, b, name, age, long, taken, x

MCThreads == {a, b}
MCOneThread == {a}
MCProps == {name, age, long, taken}
MCLong == {long, taken}
MCValues == {x}

\* The records of one long name do not parse; those of the other are taken for
\* the removal of a cell of "name".
MCMisread ==
    [r \in [prop : {taken}, row : Rows, value : MCValues \cup {None}] |->
        [prop |-> name, row |-> 1, value |-> None]]

\* The code treats the threads alike.
MCSymmetry == Permutations(Threads)
============================================================================
