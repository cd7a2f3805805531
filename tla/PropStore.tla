----------------------------- MODULE PropStore -----------------------------
(***************************************************************************)
(* src/storage/prop_store.rs: the columns of one label, the counter that   *)
(* hands out its rows, and the log of single cells they are rebuilt from.  *)
(* (Labels share nothing: every key, counter and record names one.)        *)
(*                                                                         *)
(* A call changes its column under the column's lock and sends the cell to *)
(* the WAL thread after it has released it; insert_row does so for one     *)
(* property after the other.  The WAL thread is abstracted to the order in *)
(* which it receives the records and the prefix a flush has synced.        *)
(***************************************************************************)
EXTENDS Integers, Sequences, SequencesExt

CONSTANTS
    Threads,
    Props,        \* property names
    LongNames,    \* those of 256 bytes or more
    Misread,      \* what the replay takes the records of long names for
    Values,
    None,         \* Option::None
    DirectRows,   \* callers also write to rows that alloc_row never gave them
    MaxRows,      \* bound on the rows
    MaxProps,     \* bound on the properties of one insert_row
    MaxLog        \* bound on the records, sent and still to be sent

ASSUME NamesAssumption == LongNames \subseteq Props /\ None \notin Values
ASSUME BoundsAssumption ==
    DirectRows \in BOOLEAN /\ MaxRows \in Nat \ {0} /\ MaxProps \in Nat /\ MaxLog \in Nat

Rows == 0 .. MaxRows - 1
Option == Values \cup {None}
Record == [prop : Props, row : Rows, value : Option]

\* A record of a long name is taken for nothing, or for some cell.
ASSUME MisreadAssumption ==
    /\ DOMAIN Misread \subseteq {r \in Record : r.prop \in LongNames}
    /\ Misread \in [DOMAIN Misread -> Record]

PropLists == {l \in SeqOf([prop : Props, value : Values], MaxProps) :
                 \A i, j \in DOMAIN l : i # j => l[i].prop # l[j].prop}

VARIABLES
    columns,   \* the values of each column; <<>> while there is no column
    next_row,  \* LabelSchema::next_row
    log,       \* the records the WAL thread has received
    synced,    \* how many of them a flush has synced
    up,        \* the store is open
    call,      \* the call each thread is in
    \* what follows is history, not program state
    raced,     \* cells two threads have changed at once
    lists,     \* of each row, the properties insert_row was given
    given,     \* the rows handed out since the last crash
    old        \* how many records it left to the replay

store == <<columns, next_row>>
disk == <<log, synced>>
history == <<raced, lists, given, old>>
vars == <<store, disk, up, call, history>>

(***************************************************************************)
(* The row a call works on, the properties insert_row has still to insert, *)
(* the record it has still to send, and whether it is an insert_row.       *)
(***************************************************************************)
Call == [row : Rows, todo : PropLists, send : BoundedSeq(Record, 1), new : BOOLEAN]
Idle == [row |-> 0, todo |-> <<>>, send |-> <<>>, new |-> FALSE]

-----------------------------------------------------------------------------
(* PropertyColumn                                                          *)

extend_to(col, n) ==
    [i \in 1 .. IF Len(col) < n THEN n ELSE Len(col) |->
        IF i <= Len(col) THEN col[i] ELSE None]

\* PropertyColumn::set; the row is there.
set(col, row, value) == [col EXCEPT ![row + 1] = value]

\* insert_prop and the replay: the column is created and made long enough.
Put(cols, r) ==
    [cols EXCEPT ![r.prop] = set(extend_to(@, r.row + 1), r.row, r.value)]

get_prop(cols, p, row) == IF row < Len(cols[p]) THEN cols[p][row + 1] ELSE None

-----------------------------------------------------------------------------
(* PropStore::open                                                         *)

(***************************************************************************)
(* The length byte of a long name is the length modulo 256: what follows   *)
(* as many bytes of the name is taken for the row and the value.  deserial-*)
(* ize ignores what is left over, so the record is ignored when these      *)
(* bytes of the name are no value, and is another cell when they are one.  *)
(***************************************************************************)
Parses(r) == r.prop \notin LongNames \/ r \in DOMAIN Misread
Cell(r) == IF r.prop \in LongNames THEN Misread[r] ELSE r

\* Mutant: the counter is left alone.
ReplayCellUncounted(s, r) ==
    IF Parses(r) THEN [s EXCEPT !.columns = Put(@, Cell(r))] ELSE s

\* One record; next_row is raised with fetch_max.
ReplayCell(s, r) ==
    IF Parses(r)
    THEN [columns |-> Put(s.columns, Cell(r)),
          next_row |-> IF s.next_row < Cell(r).row + 1 THEN Cell(r).row + 1 ELSE s.next_row]
    ELSE s

Empty == [columns |-> [p \in Props |-> <<>>], next_row |-> 0]

\* The store after the first n records, for every n.
Replayed(l) ==
    LET after[n \in 0 .. Len(l)] ==
          IF n = 0 THEN Empty ELSE ReplayCell(after[n - 1], l[n])
    IN  after

Replay(l) == Replayed(l)[Len(l)]

open ==
    /\ ~up /\ up' = TRUE
    /\ columns' = Replay(log).columns
    /\ next_row' = Replay(log).next_row
    /\ UNCHANGED <<disk, call, history>>

-----------------------------------------------------------------------------
(* The calls                                                               *)

Free(t) == up /\ call[t] = Idle

\* A row its caller has: insert_row is done with it.
Given(row) ==
    /\ DirectRows \/ row < next_row
    /\ DirectRows \/ \A t \in Threads : ~(call[t].new /\ call[t].row = row)

\* The column's lock is held only for this; Race notes who sends later.
Race(t, r) ==
    raced' = IF \E u \in Threads \ {t} :
                   \E i \in DOMAIN call[u].send :
                      call[u].send[i].prop = r.prop /\ call[u].send[i].row = r.row
             THEN raced \cup {<<r.prop, r.row>>} ELSE raced

Change(t, r, rest, new) ==
    /\ Len(log) + Cardinality({u \in Threads : call[u].send # <<>>}) < MaxLog
    /\ columns' = Put(columns, r)
    /\ call' = [call EXCEPT ![t] =
                   [row |-> r.row, todo |-> rest, send |-> <<r>>, new |-> new]]
    /\ Race(t, r)
    /\ UNCHANGED <<disk, up, given, old>>

\* What alloc_row returns: fetch_add(1).
alloc_row == next_row

AllocRow(t) ==
    /\ Free(t) /\ next_row \in Rows
    /\ next_row' = alloc_row + 1
    /\ given' = Append(given, alloc_row)
    /\ UNCHANGED <<columns, disk, up, call, raced, lists, old>>

\* insert_row: the row first, ...
insert_row(t, props) ==
    /\ Free(t) /\ alloc_row \in Rows
    /\ next_row' = next_row + 1
    /\ call' = [call EXCEPT ![t] =
                   IF props = <<>> THEN Idle
                   ELSE [row |-> alloc_row, todo |-> props, send |-> <<>>, new |-> TRUE]]
    /\ lists' = [lists EXCEPT ![alloc_row] = [i \in DOMAIN props |-> props[i].prop]]
    /\ given' = Append(given, alloc_row)
    /\ UNCHANGED <<columns, disk, up, raced, old>>

\* Mutant: the last property first.
InsertNextBackwards(t) ==
    LET c == call[t]
    IN  /\ up /\ c.todo # <<>> /\ c.send = <<>>
        /\ Change(t, [prop |-> Last(c.todo).prop, row |-> c.row, value |-> Last(c.todo).value],
                  Front(c.todo), TRUE)
        /\ UNCHANGED <<next_row, lists>>

\* ... then insert_prop for each property in turn.
InsertNext(t) ==
    LET c == call[t]
    IN  /\ up /\ c.todo # <<>> /\ c.send = <<>>
        /\ Change(t, [prop |-> Head(c.todo).prop, row |-> c.row, value |-> Head(c.todo).value],
                  Tail(c.todo), TRUE)
        /\ UNCHANGED <<next_row, lists>>

insert_prop(t, r) ==
    /\ Free(t) /\ Given(r.row)
    /\ Change(t, r, <<>>, FALSE)
    /\ UNCHANGED <<next_row, lists>>

\* Mutant: a change through set_prop is not logged.
set_propUnlogged(t, r) ==
    /\ Free(t) /\ Given(r.row)
    /\ r.row < Len(columns[r.prop])
    /\ columns' = Put(columns, r)
    /\ UNCHANGED <<next_row, disk, up, call, history>>

\* False, and nothing done, when the column does not reach the row.
set_prop(t, r) ==
    /\ Free(t) /\ Given(r.row)
    /\ r.row < Len(columns[r.prop])
    /\ Change(t, r, <<>>, FALSE)
    /\ UNCHANGED <<next_row, lists>>

\* The record goes into the WAL thread's channel.
wal_send_cell(t) ==
    LET c == call[t]
    IN  /\ up /\ c.send # <<>>
        /\ log' = log \o c.send
        /\ call' = [call EXCEPT ![t] =
                       IF c.todo = <<>> THEN Idle ELSE [c EXCEPT !.send = <<>>]]
        /\ UNCHANGED <<store, synced, up, history>>

flush ==
    /\ up /\ synced < Len(log)
    /\ synced' = Len(log)
    /\ UNCHANGED <<store, log, up, call, history>>

-----------------------------------------------------------------------------
\* The process ends anywhere; of what no flush has synced a prefix is left.
Crash ==
    /\ up /\ up' = FALSE
    /\ \E n \in synced .. Len(log) :
          log' = SubSeq(log, 1, n) /\ synced' = n /\ old' = n
    /\ columns' = Empty.columns /\ next_row' = 0
    /\ call' = [t \in Threads |-> Idle]
    /\ raced' = {} /\ lists' = [r \in Rows |-> <<>>] /\ given' = <<>>

Init ==
    /\ columns = Empty.columns /\ next_row = 0
    /\ log = <<>> /\ synced = 0
    /\ up = TRUE
    /\ call = [t \in Threads |-> Idle]
    /\ raced = {} /\ lists = [r \in Rows |-> <<>>] /\ given = <<>> /\ old = 0

Next ==
    \/ open \/ flush \/ Crash
    \/ \E t \in Threads :
          \/ AllocRow(t) \/ InsertNext(t) \/ wal_send_cell(t)
          \/ \E props \in PropLists : insert_row(t, props)
          \/ \E r \in Record : insert_prop(t, r) \/ set_prop(t, r)

Spec == Init /\ [][Next]_vars

-----------------------------------------------------------------------------
TypeOK ==
    /\ columns \in [Props -> BoundedSeq(Option, MaxRows)]
    /\ next_row \in 0 .. MaxRows
    /\ log \in Seq(Record) /\ synced \in 0 .. Len(log)
    /\ up \in BOOLEAN
    /\ call \in [Threads -> Call]
    /\ raced \subseteq Props \X Rows /\ lists \in [Rows -> Seq(Props)]
    /\ given \in Seq(Rows) /\ old \in 0 .. synced

\* No call has still to send this cell.
Quiet(p, row) ==
    \A t \in Threads : \A i \in DOMAIN call[t].send :
       ~(call[t].send[i].prop = p /\ call[t].send[i].row = row)

(***************************************************************************)
(* A row that alloc_row may hand out holds nothing: not a cell an earlier  *)
(* caller wrote, nor one that came back with the replay.                   *)
(***************************************************************************)
FreshRowsAreEmpty ==
    up /\ ~DirectRows =>
        \A p \in Props, row \in Rows : row >= next_row => get_prop(columns, p, row) = None

\* Since the store was opened, a long name's record was logged that is taken
\* for this cell.
Displaced(p, row) ==
    \E i \in old + 1 .. Len(log) :
       /\ log[i].prop \in LongNames /\ Parses(log[i])
       /\ Cell(log[i]).prop = p /\ Cell(log[i]).row = row

(***************************************************************************)
(* A cell whose sends have caught up would be recovered as it is, unless   *)
(* its name is too long, two threads changed it at once, or a record that  *)
(* is taken for it was logged since the store was opened: what insert_prop,*)
(* set_prop and insert_row leave in the columns is what they leave in the  *)
(* log.                                                                    *)
(***************************************************************************)
CellsSurvive ==
    up => LET cols == Replay(log).columns
          IN  \A p \in Props \ LongNames, row \in Rows :
                 Quiet(p, row) /\ <<p, row>> \notin raced /\ ~Displaced(p, row)
                     => get_prop(cols, p, row) = get_prop(columns, p, row)

(***************************************************************************)
(* Wherever a crash cuts the log, it leaves of a row that is being         *)
(* inserted the records of its first properties and never a later one's    *)
(* alone (but for names that are too long: what theirs are taken for is    *)
(* no record of the row).                                                  *)
(***************************************************************************)
Logged(n, p, row) ==
    \E i \in 1 .. n : p \notin LongNames /\ log[i].prop = p /\ log[i].row = row

RowsRecoverInOrder ==
    up /\ ~DirectRows =>
        \A n \in synced .. Len(log) : \A row \in Rows : \A i, j \in DOMAIN lists[row] :
           i < j /\ lists[row][i] \notin LongNames /\ Logged(n, lists[row][j], row)
               => Logged(n, lists[row][i], row)

(***************************************************************************)
(* Two calls of insert_row never work on the same row, and none on a row   *)
(* that is still to be handed out, however alloc_row and the calls that    *)
(* fill the columns interleave.                                            *)
(***************************************************************************)
RowsAreDistinct ==
    /\ \A t, u \in Threads :
          t # u /\ call[t].new /\ call[u].new => call[t].row # call[u].row
    /\ \A t \in Threads : call[t].new => call[t].row < next_row

(***************************************************************************)
(* From one opening to the next a row is handed out once, and none of      *)
(* which the replay has read a cell.                                       *)
(***************************************************************************)
RowsAreGivenOnce ==
    /\ \A i, j \in DOMAIN given : i # j => given[i] # given[j]
    /\ \A i \in DOMAIN given, k \in 1 .. old :
          Parses(log[k]) => Cell(log[k]).row # given[i]

(***************************************************************************)
(* alloc_row hands a row out once while the store is open, and empty, and  *)
(* after a crash none of which a cell came back.  (A row none of whose     *)
(* cells came back is handed out again.)                                   *)
(***************************************************************************)
RowsAreFresh == TypeOK /\ FreshRowsAreEmpty /\ RowsAreDistinct /\ RowsAreGivenOnce

-----------------------------------------------------------------------------
(* What the comments say and the code does not do.                         *)

\* "on restart, the database recovers to a state consistent with the last
\* completed fsync", consistency.rs:23-24, of the names that fit: whoever
\* raced, and whatever long name was written.
EveryCellSurvives ==
    up /\ synced = Len(log) /\ (\A t \in Threads : call[t] = Idle) =>
        \A p \in Props \ LongNames, row \in Rows :
           get_prop(Replay(log).columns, p, row) = get_prop(columns, p, row)

\* A fresh row is empty although Transaction::commit writes to rows it did
\* not allocate (transaction/mod.rs:167).
DirectRowsAreCounted ==
    up => \A p \in Props, row \in Rows :
             row >= next_row => get_prop(columns, p, row) = None
=============================================================================
