-------------------------- MODULE PropStoreProofs --------------------------
(***************************************************************************)
(* PropStore, for any number of threads, properties, rows and records.     *)
(***************************************************************************)
EXTENDS PropStore, SequenceTheorems, WellFoundedInduction, TLAPS

Columns == [Props -> BoundedSeq(Option, MaxRows)]

\* What the replay goes through: no column is longer than the rows counted.
Recovered == {s \in [columns : Columns, next_row : 0 .. MaxRows] :
                 \A p \in Props : Len(s.columns[p]) <= s.next_row}

\* The types; a closed store has no calls and no history; insert_prop and set_prop send one
\* record and have nothing else to do.
TypeInv ==
    /\ TypeOK
    /\ ~up => call = [t \in Threads |-> Idle] /\ lists = [r \in Rows |-> <<>>] /\ given = <<>>
    /\ \A t \in Threads : ~call[t].new => call[t].todo = <<>>
    /\ \A t \in Threads : \A i \in DOMAIN call[t].send : call[t].send[i].row = call[t].row

\* What the replay will read, or has read, is not handed out.
GivenRowsAreCounted ==
    /\ up => \A i \in DOMAIN given : given[i] < next_row
    /\ up => \A k \in 1 .. old : Parses(log[k]) => Cell(log[k]).row < next_row

\* Unless callers write to rows of their own choice, no column is longer than
\* the rows counted, and every call works on a row that is counted.
RowsAreCounted ==
    up /\ ~DirectRows =>
        /\ \A p \in Props : Len(columns[p]) <= next_row
        /\ \A t \in Threads : call[t].send # <<>> => call[t].row < next_row

\* What a call has still to send is in the column, and nobody else's.
SendsAreCurrent ==
    \A t \in Threads : \A i \in DOMAIN call[t].send :
       LET r == call[t].send[i]
       IN  <<r.prop, r.row>> \notin raced =>
              /\ get_prop(columns, r.prop, r.row) = r.value
              /\ \A u \in Threads \ {t} : \A j \in DOMAIN call[u].send :
                    ~(call[u].send[j].prop = r.prop /\ call[u].send[j].row = r.row)

\* Of the rows still to be handed out nothing is in the log or known.
FreshRowsAreUnknown ==
    up /\ ~DirectRows =>
        /\ \A i \in DOMAIN log : log[i].prop \notin LongNames => log[i].row < next_row
        /\ \A row \in Rows : row >= next_row => lists[row] = <<>>

\* The calls of insert_prop and set_prop work on rows that are done.
GivenRowsAreDone ==
    ~DirectRows => \A t, u \in Threads :
        ~call[t].new /\ call[t].send # <<>> /\ call[u].new => call[t].row # call[u].row

\* Logged, of any log.
LoggedIn(l, n, p, row) ==
    \E i \in 1 .. n : p \notin LongNames /\ l[i].prop = p /\ l[i].row = row

\* How far an insert_row has come with its list: what is behind it is logged,
\* but for the record it has still to send.
Done(t) == Len(lists[call[t].row]) - Len(call[t].todo)

Progress ==
    up /\ ~DirectRows => \A t \in Threads : call[t].new =>
        /\ Done(t) >= 0
        /\ \A m \in DOMAIN call[t].todo : call[t].todo[m].prop = lists[call[t].row][Done(t) + m]
        /\ call[t].send # <<>> => Done(t) >= 1 /\ call[t].send[1].prop = lists[call[t].row][Done(t)]
        /\ \A m \in 1 .. Done(t) :
              lists[call[t].row][m] \notin LongNames /\ (m < Done(t) \/ call[t].send = <<>>)
                  => LoggedIn(log, Len(log), lists[call[t].row][m], call[t].row)

\* What insert_row is done with is in the log.
DoneRowsAreLogged ==
    up /\ ~DirectRows => \A row \in Rows :
        (\A t \in Threads : ~(call[t].new /\ call[t].row = row)) =>
            \A m \in DOMAIN lists[row] :
               lists[row][m] \notin LongNames => LoggedIn(log, Len(log), lists[row][m], row)

\* A list names a property once.
ListsAreDistinct ==
    \A row \in Rows : \A i, j \in DOMAIN lists[row] : i # j => lists[row][i] # lists[row][j]

\* RowsRecoverInOrder, wherever the log is cut.
OrderInLog ==
    up /\ ~DirectRows =>
        \A n \in 0 .. Len(log) : \A row \in Rows : \A i, j \in DOMAIN lists[row] :
           i < j /\ lists[row][i] \notin LongNames /\ LoggedIn(log, n, lists[row][j], row)
               => LoggedIn(log, n, lists[row][i], row)

OrderInv ==
    FreshRowsAreUnknown /\ GivenRowsAreDone /\ Progress /\ DoneRowsAreLogged /\ ListsAreDistinct /\ OrderInLog

-----------------------------------------------------------------------------
(* Induction                                                               *)

\* Every nonempty set of naturals has a least element.
LEMMA LeastNatural == ASSUME NEW T \in SUBSET Nat, T # {} PROVE \E x \in T : \A y \in T : x <= y
  <1> DEFINE R == {ss \in Nat \X Nat : ss[1] < ss[2]}
  <1>1. IsWellFoundedOn(R, Nat)
    BY NatLessThanWellFounded, Zenon DEF OpToRel
  <1>2. PICK x \in T : \A y \in T : ~(<<y, x>> \in R)
    <2> HIDE DEF R
    <2> QED
      BY <1>1, WFMin
  <1>3. \A y \in T : ~(y < x)
    BY <1>2
  <1> QED
    BY <1>3

\* A set with 0 that is closed under successors up to N has all up to N.
LEMMA UpTo ==
  ASSUME NEW N \in Nat, NEW S, 0 \in S, \A n \in 0 .. N - 1 : n \in S => n + 1 \in S
  PROVE  \A n \in 0 .. N : n \in S
  <1> SUFFICES ASSUME NEW m \in 0 .. N, m \notin S PROVE FALSE
    OBVIOUS
  <1> DEFINE T == {n \in 0 .. N : n \notin S}
  <1>1. T \in SUBSET Nat /\ T # {}
    OBVIOUS
  <1>2. PICK x \in T : \A y \in T : x <= y
    <2> HIDE DEF T
    <2> QED
      BY <1>1, LeastNatural
  <1>3. x \in 1 .. N /\ x - 1 \in 0 .. N - 1 /\ (x - 1) + 1 = x
    BY <1>2
  <1>4. x - 1 \in S
    BY <1>2, <1>3
  <1> QED
    BY <1>2, <1>3, <1>4

-----------------------------------------------------------------------------
(* Columns                                                                 *)

\* A bounded sequence, by its length.
LEMMA BoundedIs ==
  ASSUME NEW S, NEW n \in Nat
  PROVE  /\ \A s \in BoundedSeq(S, n) : s \in Seq(S) /\ Len(s) \in 0 .. n /\ s \in [1 .. Len(s) -> S]
         /\ \A m \in 0 .. n : \A s \in [1 .. m -> S] : s \in BoundedSeq(S, n) /\ Len(s) = m
  <1>1. ASSUME NEW m \in 0 .. n, NEW s \in [1 .. m -> S]
        PROVE  s \in Seq(S) /\ Len(s) = m /\ s \in BoundedSeq(S, n)
    <2>1. s \in Seq(S) /\ Len(s) = m
      OBVIOUS
    <2> QED
      BY <2>1 DEF BoundedSeq, SeqOf
  <1>2. ASSUME NEW s \in BoundedSeq(S, n) PROVE \E m \in 0 .. n : s \in [1 .. m -> S]
    BY <1>2 DEF BoundedSeq, SeqOf
  <1> QED
    BY <1>1, <1>2

\* A column that reaches the row after a change.
LEMMA SetIs ==
  ASSUME NEW col \in BoundedSeq(Option, MaxRows), NEW row \in Rows, NEW value \in Option
  PROVE  LET new == set(extend_to(col, row + 1), row, value)
         IN  /\ new \in BoundedSeq(Option, MaxRows)
             /\ Len(new) = IF Len(col) < row + 1 THEN row + 1 ELSE Len(col)
             /\ new[row + 1] = value
             /\ \A i \in 1 .. Len(new) : i # row + 1 => new[i] = IF i <= Len(col) THEN col[i] ELSE None
  <1> USE BoundsAssumption
  <1> DEFINE len == IF Len(col) < row + 1 THEN row + 1 ELSE Len(col)
             ext == extend_to(col, row + 1)
             new == set(ext, row, value)
  <1>1. Len(col) \in 0 .. MaxRows /\ col \in [1 .. Len(col) -> Option] /\ row \in 0 .. MaxRows - 1
    BY BoundedIs DEF Rows
  <1>2. len \in 0 .. MaxRows /\ row + 1 \in 1 .. len /\ Len(col) <= len
    BY <1>1
  <1>3. ext = [i \in 1 .. len |-> IF i <= Len(col) THEN col[i] ELSE None]
    BY DEF extend_to
  <1> HIDE DEF len, ext
  <1>4. ext \in [1 .. len -> Option]
    BY <1>1, <1>2, <1>3 DEF Option
  <1>5. new = [ext EXCEPT ![row + 1] = value]
    BY DEF set
  <1> HIDE DEF new
  <1>6. new \in [1 .. len -> Option]
    BY <1>4, <1>5
  <1>7. new \in BoundedSeq(Option, MaxRows) /\ Len(new) = len
    BY <1>2, <1>6, BoundedIs
  <1>8. new[row + 1] = value /\ \A i \in 1 .. len : i # row + 1 => new[i] = ext[i]
    BY <1>2, <1>4, <1>5
  <1>9. \A i \in 1 .. len : ext[i] = IF i <= Len(col) THEN col[i] ELSE None
    BY <1>3
  <1>10. /\ new \in BoundedSeq(Option, MaxRows)
         /\ Len(new) = IF Len(col) < row + 1 THEN row + 1 ELSE Len(col)
         /\ new[row + 1] = value
         /\ \A i \in 1 .. Len(new) : i # row + 1 => new[i] = IF i <= Len(col) THEN col[i] ELSE None
    BY <1>7, <1>8, <1>9 DEF len
  <1> QED
    BY <1>10 DEF new, ext

\* A change of one cell changes that cell.
LEMMA PutIs ==
  ASSUME NEW cols \in Columns, NEW r \in Record
  PROVE  /\ Put(cols, r) \in Columns
         /\ \A p \in Props : Len(Put(cols, r)[p]) =
               IF p = r.prop /\ Len(cols[p]) < r.row + 1 THEN r.row + 1 ELSE Len(cols[p])
         /\ \A p \in Props, row \in Rows : get_prop(Put(cols, r), p, row) =
               IF p = r.prop /\ row = r.row THEN r.value ELSE get_prop(cols, p, row)
  <1> USE BoundsAssumption
  <1> DEFINE q == r.prop
             new == set(extend_to(cols[q], r.row + 1), r.row, r.value)
  <1>1. q \in Props /\ r.row \in Rows /\ r.value \in Option
    BY DEF Record
  <1>2. Put(cols, r) = [cols EXCEPT ![q] = new]
    BY DEF Put
  <1>3. cols[q] \in BoundedSeq(Option, MaxRows)
    BY <1>1 DEF Columns
  <1>4. /\ new \in BoundedSeq(Option, MaxRows)
        /\ Len(new) = IF Len(cols[q]) < r.row + 1 THEN r.row + 1 ELSE Len(cols[q])
        /\ new[r.row + 1] = r.value
        /\ \A i \in 1 .. Len(new) : i # r.row + 1 => new[i] = IF i <= Len(cols[q]) THEN cols[q][i] ELSE None
    BY <1>1, <1>3, SetIs
  <1> HIDE DEF new, q
  <1>5. Put(cols, r)[q] = new /\ \A p \in Props : p # q => Put(cols, r)[p] = cols[p]
    BY <1>1, <1>2 DEF Columns
  <1>6. Put(cols, r) \in Columns
    BY <1>1, <1>2, <1>4 DEF Columns
  <1>7. ASSUME NEW p \in Props
        PROVE  Len(Put(cols, r)[p]) = IF p = q /\ Len(cols[p]) < r.row + 1 THEN r.row + 1 ELSE Len(cols[p])
    BY <1>4, <1>5
  <1>8. Len(cols[q]) \in 0 .. MaxRows
    BY <1>3, BoundedIs
  <1>9. ASSUME NEW p \in Props, NEW row \in Rows
        PROVE  get_prop(Put(cols, r), p, row) = IF p = q /\ row = r.row THEN r.value ELSE get_prop(cols, p, row)
    <2>1. CASE p # q
      BY <1>5, <2>1 DEF get_prop
    <2>2. CASE p = q /\ row = r.row
      <3>1. row < Len(new)
        BY <1>1, <1>4, <1>8, <2>2 DEF Rows
      <3> QED
        BY <1>4, <1>5, <2>2, <3>1 DEF get_prop
    <2>3. CASE p = q /\ row # r.row
      <3>1. row \in Nat /\ r.row \in Nat
        BY <1>1 DEF Rows
      <3>2. row < Len(new) => row + 1 \in 1 .. Len(new) /\ row + 1 # r.row + 1
        BY <1>1, <1>4, <1>8, <2>3, <3>1
      <3>3. row < Len(cols[q]) => row < Len(new)
        BY <1>4, <1>8, <3>1
      <3>4. row + 1 <= Len(cols[q]) <=> row < Len(cols[q])
        BY <1>8, <3>1
      <3> QED
        BY <1>4, <1>5, <2>3, <3>2, <3>3, <3>4 DEF get_prop
    <2> QED
      BY <2>1, <2>2, <2>3
  <1> QED
    BY <1>6, <1>7, <1>9 DEF q

-----------------------------------------------------------------------------
(* The replay                                                              *)

\* What a record is read as.
LEMMA ReadIs ==
  ASSUME NEW r \in Record
  PROVE  /\ Parses(r) => Cell(r) \in Record
         /\ r.prop \notin LongNames => Parses(r) /\ Cell(r) = r
  BY MisreadAssumption DEF Parses, Cell

\* The empty store, and the store after one more record.
LEMMA CellIs ==
  /\ Empty \in Recovered
  /\ \A s \in Recovered, r \in Record :
        /\ ReplayCell(s, r) \in Recovered
        /\ s.next_row <= ReplayCell(s, r).next_row
        /\ Parses(r) => /\ ReplayCell(s, r).columns = Put(s.columns, Cell(r))
                        /\ Cell(r).row < ReplayCell(s, r).next_row
        /\ ~Parses(r) => ReplayCell(s, r) = s
  <1> USE BoundsAssumption
  <1>1. Empty \in Recovered
    <2>1. <<>> \in [1 .. 0 -> Option] /\ 0 \in 0 .. MaxRows
      OBVIOUS
    <2>2. <<>> \in BoundedSeq(Option, MaxRows) /\ Len(<<>>) = 0
      BY <2>1, BoundedIs
    <2>3. Empty.columns \in Columns /\ \A p \in Props : Empty.columns[p] = <<>>
      BY <2>2 DEF Empty, Columns
    <2>4. Empty \in [columns : Columns, next_row : 0 .. MaxRows] /\ Empty.next_row = 0
      BY <2>3 DEF Empty
    <2> QED
      BY <2>2, <2>3, <2>4 DEF Recovered
  <1>2. ASSUME NEW s \in Recovered, NEW r \in Record, Parses(r)
        PROVE  /\ ReplayCell(s, r) \in Recovered /\ s.next_row <= ReplayCell(s, r).next_row
               /\ ReplayCell(s, r).columns = Put(s.columns, Cell(r)) /\ Cell(r).row < ReplayCell(s, r).next_row
    <2> DEFINE c == Cell(r)
    <2>0. c \in Record
      BY <1>2, ReadIs
    <2> DEFINE n == IF s.next_row < c.row + 1 THEN c.row + 1 ELSE s.next_row
    <2>1. s.columns \in Columns /\ s.next_row \in 0 .. MaxRows /\ \A p \in Props : Len(s.columns[p]) <= s.next_row
      BY DEF Recovered
    <2>2. c.row \in 0 .. MaxRows - 1
      BY <2>0 DEF Record, Rows
    <2>3. n \in 0 .. MaxRows /\ s.next_row <= n /\ c.row + 1 <= n /\ c.row < n
      BY <2>1, <2>2
    <2>4. ReplayCell(s, r) = [columns |-> Put(s.columns, c), next_row |-> n]
      BY <1>2 DEF ReplayCell
    <2> HIDE DEF n, c
    <2>5. /\ Put(s.columns, c) \in Columns
          /\ \A p \in Props : Len(Put(s.columns, c)[p]) =
                IF p = c.prop /\ Len(s.columns[p]) < c.row + 1 THEN c.row + 1 ELSE Len(s.columns[p])
      BY <2>0, <2>1, PutIs
    <2>6. \A p \in Props : Len(s.columns[p]) \in Nat
      BY <2>1, BoundedIs DEF Columns
    <2>7. \A p \in Props : Len(Put(s.columns, c)[p]) <= n
      BY <2>1, <2>2, <2>3, <2>5, <2>6
    <2>8. ReplayCell(s, r).columns = Put(s.columns, c) /\ ReplayCell(s, r).next_row = n
      BY <2>4
    <2>9. ReplayCell(s, r) \in [columns : Columns, next_row : 0 .. MaxRows]
      BY <2>3, <2>4, <2>5
    <2> QED
      BY <2>3, <2>7, <2>8, <2>9 DEF Recovered, c
  <1>3. ASSUME NEW s \in Recovered, NEW r \in Record, ~Parses(r)
        PROVE  ReplayCell(s, r) = s /\ s.next_row <= s.next_row
    BY <1>3 DEF ReplayCell, Recovered
  <1> QED
    BY <1>1, <1>2, <1>3

\* The replay is what its recursion says.
LEMMA ReplayedIs ==
  ASSUME NEW l \in Seq(Record)
  PROVE  /\ Replayed(l) \in [0 .. Len(l) -> Recovered] /\ Replayed(l)[0] = Empty
         /\ \A n \in 1 .. Len(l) : Replayed(l)[n] = ReplayCell(Replayed(l)[n - 1], l[n])
  <1> DEFINE Goes(f, n) == f[0] = Empty /\ \A m \in 1 .. n : f[m] = ReplayCell(f[m - 1], l[m])
             S == {n \in 0 .. Len(l) : \E f \in [0 .. n -> Recovered] : Goes(f, n)}
             Step(f) == [n \in 0 .. Len(l) |-> IF n = 0 THEN Empty ELSE ReplayCell(f[n - 1], l[n])]
  <1>0. Len(l) \in Nat /\ \A n \in 1 .. Len(l) : l[n] \in Record
    OBVIOUS
  <1>1. 0 \in S
    <2> DEFINE f == [m \in 0 .. 0 |-> Empty]
    <2>1. f \in [0 .. 0 -> Recovered] /\ f[0] = Empty
      BY CellIs
    <2>2. 0 \in 0 .. Len(l) /\ \A m \in 1 .. 0 : FALSE
      BY <1>0
    <2> HIDE DEF f
    <2>3. Goes(f, 0)
      BY <2>1, <2>2
    <2> QED
      BY <2>1, <2>2, <2>3
  <1>2. ASSUME NEW n \in 0 .. Len(l) - 1, n \in S PROVE n + 1 \in S
    <2>1. PICK f \in [0 .. n -> Recovered] : Goes(f, n)
      BY <1>2
    <2> DEFINE g == [m \in 0 .. n + 1 |-> IF m <= n THEN f[m] ELSE ReplayCell(f[n], l[n + 1])]
    <2>2. n \in 0 .. n /\ n + 1 \in 1 .. Len(l) /\ n + 1 \in 0 .. Len(l) /\ n \in Nat
      BY <1>0
    <2>3. ReplayCell(f[n], l[n + 1]) \in Recovered
      BY <1>0, <2>1, <2>2, CellIs
    <2>4. g \in [0 .. n + 1 -> Recovered]
      BY <2>1, <2>2, <2>3
    <2>5. \A m \in 0 .. n : m \in 0 .. n + 1 /\ g[m] = f[m]
      BY <2>2
    <2>6. g[n + 1] = ReplayCell(g[n], l[n + 1])
      BY <2>2, <2>5
    <2> HIDE DEF g
    <2>7. ASSUME NEW m \in 1 .. n + 1 PROVE g[m] = ReplayCell(g[m - 1], l[m])
      <3>1. CASE m = n + 1
        BY <2>2, <2>6, <3>1
      <3>2. CASE m # n + 1
        <4>1. m \in 1 .. n /\ m \in 0 .. n /\ m - 1 \in 0 .. n
          BY <2>2, <2>7, <3>2
        <4> QED
          BY <2>1, <2>5, <4>1
      <3> QED
        BY <3>1, <3>2
    <2>8. Goes(g, n + 1)
      BY <2>1, <2>2, <2>5, <2>7
    <2> QED
      BY <2>2, <2>4, <2>8
  <1>3. PICK f \in [0 .. Len(l) -> Recovered] : Goes(f, Len(l))
    <2>1. \A n \in 0 .. Len(l) : n \in S
      <3> HIDE DEF S
      <3> QED
        BY <1>0, <1>1, <1>2, UpTo
    <2>2. Len(l) \in 0 .. Len(l)
      BY <1>0
    <2> QED
      BY <2>1, <2>2
  <1>4. f = Step(f)
    <2>1. \A n \in 0 .. Len(l) : f[n] = IF n = 0 THEN Empty ELSE ReplayCell(f[n - 1], l[n])
      BY <1>0, <1>3
    <2> QED
      BY <2>1
  <1>5. Replayed(l) = CHOOSE h : h = Step(h)
    BY DEF Replayed
  <1>6. Replayed(l) = Step(Replayed(l))
    <2> DEFINE P(h) == h = Step(h)
    <2>1. P(f) /\ Replayed(l) = CHOOSE h : P(h)
      BY <1>4, <1>5
    <2>2. P(CHOOSE h : P(h))
      <3> HIDE DEF P
      <3> QED
        BY <2>1
    <2> QED
      BY <2>1, <2>2
  <1>7. /\ Replayed(l)[0] = Empty
        /\ \A n \in 1 .. Len(l) : Replayed(l)[n] = ReplayCell(Replayed(l)[n - 1], l[n])
    <2> DEFINE h == Replayed(l)
    <2>1. h = Step(h)
      BY <1>6
    <2> HIDE DEF h
    <2>2. h[0] = Empty /\ \A n \in 1 .. Len(l) : h[n] = ReplayCell(h[n - 1], l[n])
      BY <1>0, <2>1
    <2> QED
      BY <2>2 DEF h
  <1>8. \A n \in 0 .. Len(l) : Replayed(l)[n] \in Recovered
    <2> DEFINE G == {n \in 0 .. Len(l) : Replayed(l)[n] \in Recovered}
    <2>1. 0 \in G
      BY <1>0, <1>7, CellIs
    <2>2. ASSUME NEW n \in 0 .. Len(l) - 1, n \in G PROVE n + 1 \in G
      <3>1. n + 1 \in 1 .. Len(l) /\ (n + 1) - 1 = n /\ n + 1 \in 0 .. Len(l)
        BY <1>0
      <3>2. Replayed(l)[n + 1] = ReplayCell(Replayed(l)[n], l[n + 1])
        BY <1>7, <3>1
      <3>3. Replayed(l)[n] \in Recovered /\ l[n + 1] \in Record
        BY <1>0, <2>2, <3>1
      <3> QED
        BY <3>1, <3>2, <3>3, CellIs
    <2>3. \A n \in 0 .. Len(l) : n \in G
      <3> HIDE DEF G
      <3> QED
        BY <1>0, <2>1, <2>2, UpTo
    <2> QED
      BY <2>3
  <1>9. Replayed(l) \in [0 .. Len(l) -> Recovered]
    <2> DEFINE h == Replayed(l)
    <2>1. h = Step(h) /\ \A n \in 0 .. Len(l) : h[n] \in Recovered
      BY <1>6, <1>8
    <2> HIDE DEF h
    <2>2. h = [n \in 0 .. Len(l) |-> h[n]]
      BY <2>1
    <2>3. h \in [0 .. Len(l) -> Recovered]
      BY <2>1, <2>2
    <2> QED
      BY <2>3 DEF h
  <1> QED
    BY <1>7, <1>9

\* The replay of one more record is one more step of the replay.
LEMMA ReplayAppend ==
  ASSUME NEW l \in Seq(Record), NEW r \in Record
  PROVE  Replay(Append(l, r)) = ReplayCell(Replay(l), r)
  <1> DEFINE k == Append(l, r)
             S == {n \in 0 .. Len(l) : Replayed(k)[n] = Replayed(l)[n]}
  <1>0. /\ Len(l) \in Nat /\ k \in Seq(Record) /\ Len(k) = Len(l) + 1 /\ k[Len(l) + 1] = r
        /\ \A n \in 1 .. Len(l) : k[n] = l[n]
    OBVIOUS
  <1> HIDE DEF k
  <1>1. 0 \in S
    BY <1>0, ReplayedIs
  <1>2. ASSUME NEW n \in 0 .. Len(l) - 1, n \in S PROVE n + 1 \in S
    <2>1. n + 1 \in 1 .. Len(l) /\ n + 1 \in 1 .. Len(k) /\ (n + 1) - 1 = n /\ n + 1 \in 0 .. Len(l)
      BY <1>0
    <2>2. Replayed(k)[n + 1] = ReplayCell(Replayed(k)[n], k[n + 1])
      BY <1>0, <2>1, ReplayedIs
    <2>3. Replayed(l)[n + 1] = ReplayCell(Replayed(l)[n], l[n + 1])
      BY <2>1, ReplayedIs
    <2> QED
      BY <1>0, <1>2, <2>1, <2>2, <2>3
  <1>3. Len(l) \in S
    <2> HIDE DEF S
    <2>1. \A n \in 0 .. Len(l) : n \in S
      BY <1>0, <1>1, <1>2, UpTo
    <2>2. Len(l) \in 0 .. Len(l)
      BY <1>0
    <2> QED
      BY <2>1, <2>2
  <1>4. Replayed(k)[Len(k)] = ReplayCell(Replayed(k)[Len(l)], k[Len(l) + 1])
    <2>1. Len(k) \in 1 .. Len(k) /\ Len(k) - 1 = Len(l)
      BY <1>0
    <2>2. Replayed(k)[Len(k)] = ReplayCell(Replayed(k)[Len(k) - 1], k[Len(k)])
      BY <1>0, <2>1, ReplayedIs
    <2> QED
      BY <1>0, <2>1, <2>2
  <1> QED
    BY <1>0, <1>3, <1>4 DEF Replay, k

\* The counter after the replay is beyond every row that was read.
LEMMA ReplayCounts ==
  ASSUME NEW l \in Seq(Record)
  PROVE  /\ Replay(l) \in Recovered
         /\ \A i \in DOMAIN l : Parses(l[i]) => Cell(l[i]).row < Replay(l).next_row
  <1> DEFINE S == {n \in 0 .. Len(l) : \A i \in 1 .. n : Parses(l[i]) => Cell(l[i]).row < Replayed(l)[n].next_row}
  <1>0. Len(l) \in Nat /\ DOMAIN l = 1 .. Len(l) /\ \A n \in 1 .. Len(l) : l[n] \in Record
    OBVIOUS
  <1>1. 0 \in S
    BY <1>0
  <1>2. ASSUME NEW n \in 0 .. Len(l) - 1, n \in S PROVE n + 1 \in S
    <2>1. n + 1 \in 1 .. Len(l) /\ (n + 1) - 1 = n /\ n + 1 \in 0 .. Len(l) /\ n \in 0 .. Len(l)
      BY <1>0
    <2>2. Replayed(l)[n + 1] = ReplayCell(Replayed(l)[n], l[n + 1])
      BY <2>1, ReplayedIs
    <2>3. Replayed(l)[n] \in Recovered /\ l[n + 1] \in Record /\ Replayed(l)[n + 1] \in Recovered
      BY <1>0, <2>1, ReplayedIs
    <2>4. /\ Replayed(l)[n].next_row <= Replayed(l)[n + 1].next_row
          /\ Parses(l[n + 1]) => Cell(l[n + 1]).row < Replayed(l)[n + 1].next_row
      <3>1. /\ Replayed(l)[n].next_row <= ReplayCell(Replayed(l)[n], l[n + 1]).next_row
            /\ Parses(l[n + 1]) => Cell(l[n + 1]).row < ReplayCell(Replayed(l)[n], l[n + 1]).next_row
        BY <2>3, CellIs
      <3> QED
        BY <2>2, <3>1
    <2>5. Replayed(l)[n].next_row \in Nat /\ Replayed(l)[n + 1].next_row \in Nat
      BY <2>3, BoundsAssumption DEF Recovered
    <2>6. ASSUME NEW i \in 1 .. n + 1, Parses(l[i]) PROVE Cell(l[i]).row < Replayed(l)[n + 1].next_row
      <3>1. CASE i = n + 1
        BY <2>4, <2>6, <3>1
      <3>2. CASE i # n + 1
        <4>1. i \in 1 .. n /\ Cell(l[i]).row \in Nat
          BY <1>0, <2>1, <2>6, <3>2, ReadIs, BoundsAssumption DEF Record, Rows
        <4>2. Cell(l[i]).row < Replayed(l)[n].next_row
          BY <1>2, <2>6, <4>1
        <4> QED
          BY <2>4, <2>5, <4>1, <4>2
      <3> QED
        BY <3>1, <3>2
    <2> QED
      BY <2>1, <2>6
  <1>3. Len(l) \in S
    <2> HIDE DEF S
    <2>1. \A n \in 0 .. Len(l) : n \in S
      BY <1>0, <1>1, <1>2, UpTo
    <2>2. Len(l) \in 0 .. Len(l)
      BY <1>0
    <2> QED
      BY <2>1, <2>2
  <1>4. Len(l) \in 0 .. Len(l)
    BY <1>0
  <1> QED
    BY <1>0, <1>3, <1>4, ReplayedIs DEF Replay

-----------------------------------------------------------------------------
(* The calls                                                               *)

\* The lists insert_row works through.
LEMMA PropListIs ==
  ASSUME NEW l \in PropLists
  PROVE  /\ l \in Seq([prop : Props, value : Values])
         /\ l # <<>> => /\ Head(l) \in [prop : Props, value : Values] /\ Tail(l) \in PropLists
                        /\ Len(Tail(l)) = Len(l) - 1 /\ Len(l) >= 1 /\ Head(l) = l[1]
                        /\ \A i \in 1 .. Len(l) - 1 : Tail(l)[i] = l[i + 1]
  <1> DEFINE E == [prop : Props, value : Values]
  <1>0. SeqOf(E, MaxProps) = BoundedSeq(E, MaxProps) /\ MaxProps \in Nat
    BY BoundsAssumption DEF BoundedSeq
  <1>1. l \in Seq(E) /\ Len(l) \in 0 .. MaxProps
    BY <1>0, BoundedIs DEF PropLists
  <1>2. ASSUME l # <<>>
        PROVE  /\ Head(l) \in E /\ Tail(l) \in PropLists
               /\ Len(Tail(l)) = Len(l) - 1 /\ Len(l) >= 1 /\ Head(l) = l[1]
               /\ \A i \in 1 .. Len(l) - 1 : Tail(l)[i] = l[i + 1]
    <2> HIDE DEF E
    <2>1. /\ Head(l) \in E /\ Tail(l) \in Seq(E) /\ Len(Tail(l)) = Len(l) - 1 /\ Len(l) >= 1 /\ Head(l) = l[1]
          /\ \A i \in 1 .. Len(l) - 1 : Tail(l)[i] = l[i + 1]
      BY <1>1, <1>2, HeadTailProperties
    <2>2. Len(l) - 1 \in 0 .. MaxProps /\ Tail(l) \in [1 .. Len(l) - 1 -> E] /\ DOMAIN Tail(l) = 1 .. Len(l) - 1
      <3>1. Len(l) - 1 \in 0 .. MaxProps
        BY <1>0, <1>1, <2>1
      <3>2. Tail(l) \in [1 .. Len(Tail(l)) -> E] /\ DOMAIN Tail(l) = 1 .. Len(Tail(l))
        BY <2>1, LenProperties
      <3> QED
        BY <2>1, <3>1, <3>2
    <2>3. Tail(l) \in BoundedSeq(E, MaxProps)
      BY <1>0, <2>2, BoundedIs
    <2>4. ASSUME NEW i \in DOMAIN Tail(l), NEW j \in DOMAIN Tail(l), i # j PROVE Tail(l)[i].prop # Tail(l)[j].prop
      <3>1. i \in 1 .. Len(l) - 1 /\ j \in 1 .. Len(l) - 1
        BY <2>2, <2>4
      <3>2. i + 1 \in DOMAIN l /\ j + 1 \in DOMAIN l /\ i + 1 # j + 1
        BY <1>1, <2>4, <3>1
      <3>3. l[i + 1].prop # l[j + 1].prop
        BY <3>2 DEF PropLists
      <3> QED
        BY <2>1, <3>1, <3>3
    <2>5. Tail(l) \in PropLists
      BY <1>0, <2>3, <2>4 DEF PropLists, E
    <2> QED
      BY <2>1, <2>5
  <1> QED
    BY <1>1, <1>2

\* What a call may hold.
LEMMA CallIs ==
  /\ <<>> \in PropLists /\ Idle \in Call
  /\ \A r \in Record : <<r>> \in BoundedSeq(Record, 1)
  /\ <<>> \in BoundedSeq(Record, 1)
  <1>1. <<>> \in BoundedSeq(Record, 1) /\ <<>> \in BoundedSeq([prop : Props, value : Values], MaxProps)
    <2>1. <<>> \in [1 .. 0 -> Record] /\ <<>> \in [1 .. 0 -> [prop : Props, value : Values]]
      OBVIOUS
    <2>2. 1 \in Nat /\ 0 \in 0 .. 1 /\ MaxProps \in Nat /\ 0 \in 0 .. MaxProps
      BY BoundsAssumption
    <2>3. <<>> \in BoundedSeq(Record, 1)
      BY <2>1, <2>2, BoundedIs
    <2> QED
      BY <2>1, <2>2, <2>3, BoundedIs
  <1>2. <<>> \in PropLists
    BY <1>1 DEF PropLists, BoundedSeq
  <1>3. ASSUME NEW r \in Record PROVE <<r>> \in BoundedSeq(Record, 1)
    <2>1. <<r>> \in [1 .. 1 -> Record] /\ 1 \in 0 .. 1
      OBVIOUS
    <2> QED
      BY <2>1, BoundedIs
  <1>4. Idle \in Call
    BY <1>1, <1>2, BoundsAssumption DEF Idle, Call, Rows
  <1> QED
    BY <1>1, <1>2, <1>3, <1>4

\* A change of a cell: by insert_row, or by insert_prop or set_prop.
Changing(t, r, rest, new) ==
    /\ up /\ Change(t, r, rest, new) /\ UNCHANGED <<next_row, lists>> /\ call[t].send = <<>>
    /\ \/ /\ new /\ call[t].new /\ call[t].row = r.row /\ call[t].todo # <<>>
          /\ r.prop = call[t].todo[1].prop /\ rest = Tail(call[t].todo)
       \/ ~new /\ call[t] = Idle /\ Given(r.row) /\ rest = <<>>

\* The calls that change a cell are among these.
LEMMA ChangeIs ==
  ASSUME TypeInv, NEW t \in Threads, InsertNext(t) \/ \E r \in Record : insert_prop(t, r) \/ set_prop(t, r)
  PROVE  \E r \in Record, rest \in PropLists, new \in BOOLEAN : Changing(t, r, rest, new)
  <1>0. call[t] \in Call /\ (~call[t].new => call[t].todo = <<>>)
    BY DEF TypeInv, TypeOK
  <1>1. CASE InsertNext(t)
    <2> DEFINE c == call[t]
               r == [prop |-> Head(c.todo).prop, row |-> c.row, value |-> Head(c.todo).value]
    <2>1. /\ up /\ c.todo # <<>> /\ c.send = <<>> /\ Change(t, r, Tail(c.todo), TRUE)
          /\ UNCHANGED <<next_row, lists>>
      BY <1>1 DEF InsertNext
    <2>2. c.todo \in PropLists /\ c.row \in Rows
      BY <1>0 DEF Call
    <2>3. /\ Head(c.todo) \in [prop : Props, value : Values] /\ Tail(c.todo) \in PropLists
          /\ Head(c.todo) = c.todo[1]
      BY <2>1, <2>2, PropListIs
    <2>4. r \in Record /\ r.prop = c.todo[1].prop /\ r.row = c.row
      BY <2>2, <2>3 DEF Record, Option
    <2> HIDE DEF r
    <2>5. Changing(t, r, Tail(c.todo), TRUE)
      BY <1>0, <2>1, <2>4 DEF Changing
    <2> QED
      BY <2>3, <2>4, <2>5
  <1>2. ASSUME NEW r \in Record, insert_prop(t, r) \/ set_prop(t, r)
        PROVE  Changing(t, r, <<>>, FALSE)
    <2>1. up /\ call[t] = Idle /\ Given(r.row) /\ Change(t, r, <<>>, FALSE) /\ UNCHANGED <<next_row, lists>>
      BY <1>2 DEF insert_prop, set_prop, Free
    <2>2. call[t].send = <<>>
      BY <2>1 DEF Idle
    <2> QED
      BY <2>1, <2>2 DEF Changing
  <1> QED
    BY <1>1, <1>2, CallIs

\* A call sends its record.
Sending(t, r) ==
    /\ up /\ call[t].send = <<r>> /\ r.row = call[t].row /\ log' = Append(log, r)
    /\ call' = [call EXCEPT ![t] = IF call[t].todo = <<>> THEN Idle ELSE [call[t] EXCEPT !.send = <<>>]]
    /\ UNCHANGED <<store, synced, up, history>>

\* wal_send_cell is one of these.
LEMMA SendIs ==
  ASSUME TypeInv, NEW t \in Threads, wal_send_cell(t)
  PROVE  \E r \in Record : Sending(t, r)
  <1>1. call[t].send \in BoundedSeq(Record, 1) /\ call[t].send # <<>> /\ log \in Seq(Record)
    BY DEF TypeInv, TypeOK, Call, wal_send_cell
  <1>2. call[t].send \in Seq(Record) /\ Len(call[t].send) \in 0 .. 1
    BY <1>1, BoundedIs
  <1>3. Len(call[t].send) = 1
    BY <1>1, <1>2
  <1>4. PICK r \in Record : call[t].send = <<r>>
    <2> DEFINE s == call[t].send
    <2>1. s \in Seq(Record) /\ Len(s) = 1
      BY <1>2, <1>3
    <2> HIDE DEF s
    <2>2. s[1] \in Record /\ DOMAIN s = 1 .. 1
      BY <2>1
    <2>3. s = <<s[1]>>
      BY <2>1, <2>2
    <2> QED
      BY <2>2, <2>3 DEF s
  <1>5. r.row = call[t].row
    <2>1. 1 \in DOMAIN call[t].send /\ call[t].send[1] = r
      BY <1>4
    <2> QED
      BY <2>1 DEF TypeInv
  <1>6. log \o <<r>> = Append(log, r)
    BY <1>1
  <1>7. Sending(t, r)
    BY <1>4, <1>5, <1>6 DEF wal_send_cell, Sending
  <1> QED
    BY <1>7

\* The steps of the store.
LEMMA StepIs ==
  ASSUME TypeInv, [Next]_vars
  PROVE  \/ UNCHANGED vars \/ open \/ flush \/ Crash
         \/ \E t \in Threads : AllocRow(t)
         \/ \E t \in Threads, props \in PropLists : insert_row(t, props)
         \/ \E t \in Threads, r \in Record, rest \in PropLists, new \in BOOLEAN : Changing(t, r, rest, new)
         \/ \E t \in Threads, r \in Record : Sending(t, r)
  BY ChangeIs, SendIs DEF Next

-----------------------------------------------------------------------------
(* Types                                                                   *)

\* The store starts well typed.
LEMMA InitType == Init => TypeInv
  <1> SUFFICES ASSUME Init PROVE TypeInv
    OBVIOUS
  <1>1. columns \in Columns /\ next_row \in 0 .. MaxRows
    BY CellIs, BoundsAssumption DEF Init, Recovered
  <1>2. call = [t \in Threads |-> Idle] /\ Idle.send = <<>> /\ Idle.todo = <<>>
    BY DEF Init, Idle
  <1>3. call \in [Threads -> Call]
    BY <1>2, CallIs
  <1>4. /\ lists \in [Rows -> Seq(Props)] /\ log \in Seq(Record) /\ synced \in 0 .. Len(log)
        /\ given \in Seq(Rows) /\ old \in 0 .. synced
    BY DEF Init
  <1>5. TypeOK
    BY <1>1, <1>3, <1>4 DEF Init, TypeOK, Columns
  <1> QED
    BY <1>2, <1>5 DEF TypeInv, Init

\* Every step keeps the types.
LEMMA TypeStep == ASSUME TypeInv, [Next]_vars PROVE TypeInv'
  <1> USE BoundsAssumption
  <1>0. /\ columns \in Columns /\ next_row \in 0 .. MaxRows /\ log \in Seq(Record) /\ synced \in 0 .. Len(log)
        /\ up \in BOOLEAN /\ call \in [Threads -> Call] /\ raced \subseteq Props \X Rows
        /\ lists \in [Rows -> Seq(Props)] /\ given \in Seq(Rows) /\ old \in 0 .. synced
    BY DEF TypeInv, TypeOK, Columns
  <1>1. CASE UNCHANGED vars
    BY <1>1 DEF TypeInv, TypeOK, vars, store, disk, history
  <1>2. CASE open
    <2>1. Replay(log) \in Recovered
      BY <1>0, ReplayCounts
    <2>2. columns' \in Columns /\ next_row' \in 0 .. MaxRows
      BY <1>2, <2>1 DEF open, Recovered
    <2>3. ~up /\ up' = TRUE /\ UNCHANGED <<log, synced, call, raced, lists, given, old>>
      BY <1>2 DEF open, disk, history
    <2>4. TypeOK'
      BY <1>0, <2>2, <2>3 DEF TypeOK, Columns
    <2> QED
      BY <2>3, <2>4 DEF TypeInv
  <1>3. CASE flush
    <2>1. synced' = Len(log) /\ UNCHANGED <<columns, next_row, log, up, call, raced, lists, given, old>>
      BY <1>3 DEF flush, store, history
    <2>2. synced' \in 0 .. Len(log') /\ old' \in 0 .. synced'
      BY <1>0, <2>1
    <2> QED
      BY <1>0, <2>1, <2>2 DEF TypeInv, TypeOK, Columns
  <1>4. CASE Crash
    <2>1. PICK n \in synced .. Len(log) : log' = SubSeq(log, 1, n) /\ synced' = n /\ old' = n
      BY <1>4 DEF Crash
    <2>2. n \in 0 .. Len(log) /\ log' \in Seq(Record) /\ Len(log') = n
      <3>1. n \in 0 .. Len(log)
        BY <1>0, <2>1
      <3>2. \A i \in 1 .. n : log[i] \in Record
        BY <1>0, <3>1
      <3> QED
        BY <1>0, <2>1, <3>1, <3>2, SubSeqProperties
    <2>3. synced' \in 0 .. Len(log') /\ old' \in 0 .. synced'
      BY <2>1, <2>2
    <2>4. columns' \in Columns /\ next_row' \in 0 .. MaxRows
      BY <1>4, CellIs DEF Crash, Recovered
    <2>5. /\ call' = [t \in Threads |-> Idle] /\ up' = FALSE /\ raced' = {}
          /\ lists' = [r \in Rows |-> <<>>] /\ given' = <<>>
      BY <1>4 DEF Crash
    <2>6. /\ call' \in [Threads -> Call] /\ Idle.send = <<>> /\ Idle.todo = <<>>
          /\ lists' \in [Rows -> Seq(Props)] /\ given' \in Seq(Rows)
      BY <2>5, CallIs DEF Idle
    <2>7. TypeOK'
      BY <1>0, <2>2, <2>3, <2>4, <2>5, <2>6 DEF TypeOK, Columns
    <2> QED
      BY <2>5, <2>6, <2>7 DEF TypeInv
  <1>5. ASSUME NEW t \in Threads, AllocRow(t) PROVE TypeInv'
    <2>1. /\ up /\ next_row \in Rows /\ next_row' = next_row + 1 /\ given' = Append(given, next_row)
          /\ UNCHANGED <<columns, log, synced, up, call, raced, lists, old>>
      BY <1>5 DEF AllocRow, alloc_row, disk, Free
    <2>2. next_row' \in 0 .. MaxRows
      BY <2>1 DEF Rows
    <2>3. given' \in Seq(Rows)
      BY <1>0, <2>1
    <2> QED
      BY <1>0, <2>1, <2>2, <2>3 DEF TypeInv, TypeOK, Columns
  <1>6. ASSUME NEW t \in Threads, NEW props \in PropLists, insert_row(t, props) PROVE TypeInv'
    <2> DEFINE c == [row |-> next_row, todo |-> props, send |-> <<>>, new |-> TRUE]
               l == [i \in DOMAIN props |-> props[i].prop]
    <2>1. /\ up /\ next_row \in Rows /\ next_row' = next_row + 1
          /\ call' = [call EXCEPT ![t] = IF props = <<>> THEN Idle ELSE c]
          /\ lists' = [lists EXCEPT ![next_row] = l] /\ given' = Append(given, next_row)
          /\ UNCHANGED <<columns, log, synced, up, raced, old>>
      BY <1>6 DEF insert_row, alloc_row, disk, Free
    <2>2. c \in Call /\ c.new = TRUE /\ c.send = <<>> /\ Idle.send = <<>> /\ Idle.todo = <<>>
      BY <2>1, CallIs DEF Call, Idle
    <2>3. l \in Seq(Props)
      <3>1. props \in Seq([prop : Props, value : Values])
        BY PropListIs
      <3>2. Len(props) \in Nat /\ DOMAIN props = 1 .. Len(props) /\ \A i \in 1 .. Len(props) : props[i].prop \in Props
        <4> DEFINE E == [prop : Props, value : Values]
        <4>1. Len(props) \in Nat /\ DOMAIN props = 1 .. Len(props) /\ props \in [1 .. Len(props) -> E]
          <5> HIDE DEF E
          <5>1. props \in Seq(E)
            BY <3>1 DEF E
          <5> QED
            BY <5>1, LenProperties
        <4> QED
          BY <4>1
      <3>3. l \in [1 .. Len(props) -> Props]
        BY <3>2
      <3> HIDE DEF l
      <3> QED
        BY <3>2, <3>3
    <2>4. next_row' \in 0 .. MaxRows
      BY <2>1 DEF Rows
    <2> HIDE DEF c, l
    <2>5. call' \in [Threads -> Call] /\ lists' \in [Rows -> Seq(Props)] /\ given' \in Seq(Rows)
      BY <1>0, <2>1, <2>2, <2>3, CallIs
    <2>6. TypeOK'
      BY <1>0, <2>1, <2>4, <2>5 DEF TypeOK, Columns
    <2>7. \A u \in Threads : call'[u] = call[u] \/ (u = t /\ call'[u] \in {Idle, c})
      BY <1>0, <2>1
    <2> QED
      BY <2>1, <2>2, <2>6, <2>7 DEF TypeInv
  <1>7. ASSUME NEW t \in Threads, NEW r \in Record, NEW rest \in PropLists, NEW new \in BOOLEAN,
               Changing(t, r, rest, new)
        PROVE  TypeInv'
    <2> DEFINE c == [row |-> r.row, todo |-> rest, send |-> <<r>>, new |-> new]
    <2>1. /\ up /\ columns' = Put(columns, r) /\ call' = [call EXCEPT ![t] = c]
          /\ UNCHANGED <<next_row, log, synced, up, lists, given, old>>
      BY <1>7 DEF Changing, Change, disk
    <2>2. raced' \subseteq Props \X Rows
      BY <1>0, <1>7 DEF Changing, Change, Race, Record
    <2>3. columns' \in Columns
      BY <1>0, <2>1, PutIs
    <2>4. c \in Call /\ c.row = r.row /\ c.send = <<r>> /\ c.todo = rest /\ c.new = new
      BY CallIs DEF Call, Record
    <2>5. ~new => rest = <<>>
      BY <1>7 DEF Changing
    <2> HIDE DEF c
    <2>6. TypeOK'
      BY <1>0, <2>1, <2>2, <2>3, <2>4 DEF TypeOK, Columns
    <2>7. call'[t] = c /\ \A u \in Threads : u # t => call'[u] = call[u]
      BY <1>0, <2>1
    <2>8. \A i \in DOMAIN c.send : c.send[i].row = c.row
      BY <2>4
    <2> QED
      BY <2>1, <2>4, <2>5, <2>6, <2>7, <2>8 DEF TypeInv
  <1>8. ASSUME NEW t \in Threads, NEW r \in Record, Sending(t, r) PROVE TypeInv'
    <2> DEFINE c == IF call[t].todo = <<>> THEN Idle ELSE [call[t] EXCEPT !.send = <<>>]
    <2>1. /\ up /\ log' = Append(log, r) /\ call' = [call EXCEPT ![t] = c]
          /\ UNCHANGED <<columns, next_row, synced, up, raced, lists, given, old>>
      BY <1>8 DEF Sending, store, history
    <2>2. c \in Call /\ c.send = <<>> /\ (~c.new => c.todo = <<>>)
      <3>1. call[t] \in Call /\ (~call[t].new => call[t].todo = <<>>)
        BY <1>0 DEF TypeInv
      <3>2. CASE call[t].todo = <<>>
        BY <3>2, CallIs DEF Idle
      <3>3. CASE call[t].todo # <<>>
        BY <3>1, <3>3, CallIs DEF Call
      <3> QED
        BY <3>2, <3>3
    <2> HIDE DEF c
    <2>3. log' \in Seq(Record) /\ synced' \in 0 .. Len(log')
      BY <1>0, <2>1
    <2>4. TypeOK'
      BY <1>0, <2>1, <2>2, <2>3 DEF TypeOK, Columns
    <2>5. call'[t] = c /\ \A u \in Threads : u # t => call'[u] = call[u]
      BY <1>0, <2>1
    <2> QED
      BY <2>1, <2>2, <2>4, <2>5 DEF TypeInv
  <1> QED
    BY <1>1, <1>2, <1>3, <1>4, <1>5, <1>6, <1>7, <1>8, StepIs

\* The types hold, through crashes and replays.
LEMMA AlwaysTypeInv == Spec => []TypeInv
  BY InitType, TypeStep, PTL DEF Spec

-----------------------------------------------------------------------------
(* Rows                                                                    *)

\* A closed store has no calls of insert_row and nothing to send.
LEMMA ClosedIsIdle ==
  ASSUME TypeInv, ~up
  PROVE  \A t \in Threads : call[t] = Idle /\ ~call[t].new /\ call[t].send = <<>> /\ call[t].todo = <<>>
  BY DEF TypeInv, Idle

\* A step of one thread that changes a cell, seen from the calls.
LEMMA ChangeFrame ==
  ASSUME TypeInv, NEW t \in Threads, NEW r \in Record, NEW rest \in PropLists, NEW new \in BOOLEAN,
         Changing(t, r, rest, new)
  PROVE  /\ call'[t].row = r.row /\ call'[t].todo = rest /\ call'[t].send = <<r>> /\ call'[t].new = new
         /\ \A u \in Threads : u # t => call'[u] = call[u]
         /\ columns' = Put(columns, r) /\ up /\ UNCHANGED <<next_row, log, synced, up, lists, given, old>>
  <1>1. call \in [Threads -> Call]
    BY DEF TypeInv, TypeOK
  <1>2. call' = [call EXCEPT ![t] = [row |-> r.row, todo |-> rest, send |-> <<r>>, new |-> new]]
    BY DEF Changing, Change
  <1>3. call'[t] = [row |-> r.row, todo |-> rest, send |-> <<r>>, new |-> new]
    BY <1>1, <1>2
  <1>4. \A u \in Threads : u # t => call'[u] = call[u]
    BY <1>1, <1>2
  <1>5. columns' = Put(columns, r) /\ up /\ UNCHANGED <<next_row, log, synced, up, lists, given, old>>
    BY DEF Changing, Change, disk
  <1> QED
    BY <1>3, <1>4, <1>5

\* A step of one thread that sends its record, seen from the calls.
LEMMA SendFrame ==
  ASSUME TypeInv, NEW t \in Threads, NEW r \in Record, Sending(t, r)
  PROVE  /\ \/ call[t].todo = <<>> /\ call'[t] = Idle
            \/ /\ call[t].todo # <<>> /\ call'[t].row = call[t].row /\ call'[t].todo = call[t].todo
               /\ call'[t].new /\ call[t].new
         /\ call'[t].send = <<>> /\ (call'[t].new => call[t].new /\ call'[t].row = call[t].row)
         /\ \A u \in Threads : u # t => call'[u] = call[u]
         /\ up /\ UNCHANGED <<columns, next_row, synced, up, raced, lists, given, old>>
  <1>1. call \in [Threads -> Call] /\ (~call[t].new => call[t].todo = <<>>)
    BY DEF TypeInv, TypeOK
  <1>2. call' = [call EXCEPT ![t] = IF call[t].todo = <<>> THEN Idle ELSE [call[t] EXCEPT !.send = <<>>]]
    BY DEF Sending
  <1>3. call'[t] = (IF call[t].todo = <<>> THEN Idle ELSE [call[t] EXCEPT !.send = <<>>])
        /\ \A u \in Threads : u # t => call'[u] = call[u]
    BY <1>1, <1>2
  <1>4. call[t] \in Call
    BY <1>1
  <1>5. up /\ UNCHANGED <<columns, next_row, synced, up, raced, lists, given, old>>
    BY DEF Sending, store, history
  <1>6. CASE call[t].todo = <<>>
    <2>1. call'[t] = Idle
      BY <1>3, <1>6
    <2>2. Idle.send = <<>> /\ Idle.new = FALSE
      BY DEF Idle
    <2> QED
      BY <1>3, <1>5, <1>6, <2>1, <2>2
  <1>7. CASE call[t].todo # <<>>
    <2>1. call'[t] = [call[t] EXCEPT !.send = <<>>]
      BY <1>3, <1>7
    <2>2. call'[t].row = call[t].row /\ call'[t].todo = call[t].todo /\ call'[t].send = <<>>
      BY <1>4, <2>1 DEF Call
    <2>3. call'[t].new = call[t].new
      BY <1>4, <2>1 DEF Call
    <2>4. call[t].new
      BY <1>1, <1>7
    <2>5. call'[t].new
      BY <2>3, <2>4
    <2> QED
      BY <1>3, <1>5, <1>7, <2>2, <2>4, <2>5
  <1> QED
    BY <1>6, <1>7

\* A step of insert_row, seen from the calls.
LEMMA InsertFrame ==
  ASSUME TypeInv, NEW t \in Threads, NEW props \in PropLists, insert_row(t, props)
  PROVE  /\ up /\ next_row \in Rows /\ next_row' = next_row + 1 /\ call[t] = Idle
         /\ \/ props = <<>> /\ call'[t] = Idle
            \/ /\ props # <<>> /\ call'[t].row = next_row /\ call'[t].todo = props
               /\ call'[t].send = <<>> /\ call'[t].new = TRUE
         /\ \A u \in Threads : u # t => call'[u] = call[u]
         /\ lists'[next_row] = [i \in DOMAIN props |-> props[i].prop]
         /\ \A row \in Rows : row # next_row => lists'[row] = lists[row]
         /\ given' = Append(given, next_row) /\ UNCHANGED <<columns, log, synced, up, raced, old>>
  <1>1. call \in [Threads -> Call] /\ lists \in [Rows -> Seq(Props)]
    BY DEF TypeInv, TypeOK
  <1>2. /\ up /\ call[t] = Idle /\ next_row \in Rows /\ next_row' = next_row + 1
        /\ call' = [call EXCEPT ![t] = IF props = <<>> THEN Idle
                                       ELSE [row |-> next_row, todo |-> props, send |-> <<>>, new |-> TRUE]]
        /\ lists' = [lists EXCEPT ![next_row] = [i \in DOMAIN props |-> props[i].prop]]
        /\ given' = Append(given, next_row) /\ UNCHANGED <<columns, log, synced, up, raced, old>>
    BY DEF insert_row, alloc_row, Free, disk
  <1>3. /\ call'[t] = (IF props = <<>> THEN Idle ELSE [row |-> next_row, todo |-> props, send |-> <<>>, new |-> TRUE])
        /\ \A u \in Threads : u # t => call'[u] = call[u]
    BY <1>1, <1>2
  <1>4. /\ lists'[next_row] = [i \in DOMAIN props |-> props[i].prop]
        /\ \A row \in Rows : row # next_row => lists'[row] = lists[row]
    BY <1>1, <1>2
  <1>5. CASE props = <<>>
    BY <1>2, <1>3, <1>4, <1>5
  <1>6. CASE props # <<>>
    <2>1. call'[t] = [row |-> next_row, todo |-> props, send |-> <<>>, new |-> TRUE]
      BY <1>3, <1>6
    <2> QED
      BY <1>2, <1>3, <1>4, <1>6, <2>1
  <1> QED
    BY <1>5, <1>6

\* Every step keeps the rows of insert_row apart and the columns counted.
LEMMA RowStep ==
  ASSUME TypeInv, TypeInv', RowsAreDistinct, RowsAreCounted, [Next]_vars
  PROVE  RowsAreDistinct' /\ RowsAreCounted'
  <1> USE BoundsAssumption
  <1>0. /\ columns \in Columns /\ next_row \in 0 .. MaxRows /\ \A t \in Threads : call[t].row \in Nat
        /\ \A p \in Props : Len(columns[p]) \in Nat
    <2>1. columns \in Columns /\ next_row \in 0 .. MaxRows /\ call \in [Threads -> Call]
      BY DEF TypeInv, TypeOK, Columns
    <2>2. \A p \in Props : Len(columns[p]) \in Nat
      BY <2>1, BoundedIs DEF Columns
    <2> QED
      BY <2>1, <2>2 DEF Call, Rows
  <1>1. CASE UNCHANGED vars
    BY <1>1 DEF RowsAreDistinct, RowsAreCounted, vars, store
  <1>2. CASE open
    <2>1. ~up /\ call' = call /\ columns' = Replay(log).columns /\ next_row' = Replay(log).next_row
      BY <1>2 DEF open
    <2>2. Replay(log) \in Recovered
      BY ReplayCounts DEF TypeInv, TypeOK
    <2>3. \A p \in Props : Len(columns'[p]) <= next_row'
      BY <2>1, <2>2 DEF Recovered
    <2>4. \A t \in Threads : ~call[t].new /\ call[t].send = <<>>
      BY <2>1, ClosedIsIdle
    <2> QED
      BY <2>1, <2>3, <2>4 DEF RowsAreDistinct, RowsAreCounted
  <1>3. CASE flush
    BY <1>3 DEF flush, RowsAreDistinct, RowsAreCounted, store
  <1>4. CASE Crash
    <2>1. up' = FALSE /\ call' = [t \in Threads |-> Idle]
      BY <1>4 DEF Crash
    <2> QED
      BY <2>1 DEF RowsAreDistinct, RowsAreCounted, Idle
  <1>5. ASSUME NEW t \in Threads, AllocRow(t) PROVE RowsAreDistinct' /\ RowsAreCounted'
    <2>1. next_row' = next_row + 1 /\ UNCHANGED <<columns, up, call>>
      BY <1>5 DEF AllocRow, alloc_row
    <2> QED
      BY <1>0, <2>1 DEF RowsAreDistinct, RowsAreCounted
  <1>6. ASSUME NEW t \in Threads, NEW props \in PropLists, insert_row(t, props)
        PROVE  RowsAreDistinct' /\ RowsAreCounted'
    <2>1. /\ up /\ next_row' = next_row + 1
          /\ \/ call'[t] = Idle
             \/ call'[t].row = next_row /\ call'[t].send = <<>> /\ call'[t].new = TRUE
          /\ \A u \in Threads : u # t => call'[u] = call[u]
          /\ UNCHANGED <<columns, up>>
      BY <1>6, InsertFrame
    <2>2. call'[t].send = <<>> /\ (call'[t].new => call'[t].row = next_row)
      BY <2>1 DEF Idle
    <2>3. RowsAreCounted'
      BY <1>0, <2>1, <2>2 DEF RowsAreCounted
    <2>4. \A u \in Threads : u # t /\ call[u].new => call[u].row < next_row /\ call[u].row # next_row
      BY <1>0 DEF RowsAreDistinct
    <2>5. \A u \in Threads : call'[u].new => call'[u].row < next_row'
      BY <1>0, <2>1, <2>2, <2>4
    <2>6. \A u, v \in Threads : u # v /\ call'[u].new /\ call'[v].new => call'[u].row # call'[v].row
      BY <2>1, <2>2, <2>4 DEF RowsAreDistinct
    <2> QED
      BY <2>3, <2>5, <2>6 DEF RowsAreDistinct
  <1>7. ASSUME NEW t \in Threads, NEW r \in Record, NEW rest \in PropLists, NEW new \in BOOLEAN,
               Changing(t, r, rest, new)
        PROVE  RowsAreDistinct' /\ RowsAreCounted'
    <2>1. /\ call'[t].row = r.row /\ call'[t].send = <<r>> /\ call'[t].new = new
          /\ \A u \in Threads : u # t => call'[u] = call[u]
          /\ columns' = Put(columns, r) /\ up /\ UNCHANGED <<next_row, up>>
      BY <1>7, ChangeFrame
    <2>2. new => call[t].new /\ call[t].row = r.row
      BY <1>7 DEF Changing
    <2>3. RowsAreDistinct'
      BY <2>1, <2>2 DEF RowsAreDistinct
    <2>4. ~DirectRows => r.row < next_row
      BY <1>7, <2>2 DEF Changing, Given, RowsAreDistinct
    <2>5. \A p \in Props : Len(columns'[p]) = IF p = r.prop /\ Len(columns[p]) < r.row + 1 THEN r.row + 1 ELSE Len(columns[p])
      BY <1>0, <2>1, PutIs
    <2>6. r.row \in Nat
      BY DEF Record, Rows
    <2>7. ~DirectRows => \A p \in Props : Len(columns'[p]) <= next_row
      BY <1>0, <2>1, <2>4, <2>5, <2>6 DEF RowsAreCounted
    <2> QED
      BY <2>1, <2>3, <2>4, <2>7 DEF RowsAreCounted
  <1>8. ASSUME NEW t \in Threads, NEW r \in Record, Sending(t, r) PROVE RowsAreDistinct' /\ RowsAreCounted'
    <2>1. /\ call'[t].send = <<>> /\ (call'[t].new => call[t].new /\ call'[t].row = call[t].row)
          /\ \A u \in Threads : u # t => call'[u] = call[u]
          /\ UNCHANGED <<columns, next_row, up>>
      BY <1>8, SendFrame
    <2> QED
      BY <2>1 DEF RowsAreDistinct, RowsAreCounted
  <1> QED
    BY <1>1, <1>2, <1>3, <1>4, <1>5, <1>6, <1>7, <1>8, StepIs

\* A row that is handed out leaves the rows beyond it.
LEMMA GivenAppend ==
  ASSUME TypeInv, TypeInv', RowsAreGivenOnce, GivenRowsAreCounted, up,
         next_row \in Rows, next_row' = next_row + 1, given' = Append(given, next_row),
         UNCHANGED <<log, up, old>>
  PROVE  RowsAreGivenOnce' /\ GivenRowsAreCounted'
  <1>1. /\ next_row \in Nat /\ given \in Seq(Rows) /\ Len(given) \in Nat /\ DOMAIN given = 1 .. Len(given)
        /\ \A i \in DOMAIN given : given[i] \in Nat /\ given[i] < next_row
    <2>1. next_row \in Nat /\ given \in Seq(Rows) /\ Rows \subseteq Nat
      BY DEF TypeInv, TypeOK, Rows
    <2>2. Len(given) \in Nat /\ DOMAIN given = 1 .. Len(given) /\ \A i \in DOMAIN given : given[i] \in Rows
      BY <2>1
    <2> QED
      BY <2>1, <2>2 DEF GivenRowsAreCounted
  <1>2. /\ DOMAIN given' = DOMAIN given \cup {Len(given) + 1} /\ given'[Len(given) + 1] = next_row
        /\ \A i \in DOMAIN given : given'[i] = given[i]
    BY <1>1
  <1>3. \A i \in DOMAIN given : i # Len(given) + 1 /\ given'[i] # next_row /\ given'[i] < next_row'
    BY <1>1, <1>2
  <1>4. ASSUME NEW k \in 1 .. old', Parses(log'[k])
        PROVE  Cell(log'[k]).row < next_row' /\ Cell(log'[k]).row # next_row
    <2>1. k \in 1 .. Len(log) /\ log \in Seq(Record) /\ k \in 1 .. old /\ log'[k] = log[k]
      BY <1>4 DEF TypeInv, TypeOK
    <2>2. log[k] \in Record
      BY <2>1
    <2>3. Cell(log[k]).row \in Nat
      BY <1>4, <2>1, <2>2, ReadIs DEF Record, Rows
    <2>4. Cell(log[k]).row < next_row
      BY <1>4, <2>1 DEF GivenRowsAreCounted
    <2> QED
      BY <1>1, <2>1, <2>3, <2>4
  <1>5. RowsAreGivenOnce'
    <2>1. \A i, j \in DOMAIN given' : i # j => given'[i] # given'[j]
      BY <1>2, <1>3 DEF RowsAreGivenOnce
    <2>2. \A i \in DOMAIN given', k \in 1 .. old' : Parses(log'[k]) => Cell(log'[k]).row # given'[i]
      BY <1>2, <1>4 DEF RowsAreGivenOnce
    <2> QED
      BY <2>1, <2>2 DEF RowsAreGivenOnce
  <1>6. GivenRowsAreCounted'
    <2>1. next_row < next_row'
      BY <1>1
    <2> QED
      BY <1>2, <1>3, <1>4, <2>1 DEF GivenRowsAreCounted
  <1> QED
    BY <1>5, <1>6

\* Every step hands out new rows only.
LEMMA GivenStep ==
  ASSUME TypeInv, TypeInv', RowsAreGivenOnce, GivenRowsAreCounted, [Next]_vars
  PROVE  RowsAreGivenOnce' /\ GivenRowsAreCounted'
  <1>1. CASE UNCHANGED vars
    BY <1>1 DEF RowsAreGivenOnce, GivenRowsAreCounted, vars, store, disk, history
  <1>2. CASE open
    <2>1. ~up /\ given = <<>> /\ next_row' = Replay(log).next_row /\ UNCHANGED <<log, given, old>>
      BY <1>2 DEF open, disk, history, TypeInv
    <2>2. \A k \in DOMAIN log : Parses(log[k]) => Cell(log[k]).row < next_row'
      BY <2>1, ReplayCounts DEF TypeInv, TypeOK
    <2>3. 1 .. old \subseteq DOMAIN log
      BY DEF TypeInv, TypeOK
    <2>4. DOMAIN given = {}
      BY <2>1
    <2> QED
      BY <2>1, <2>2, <2>3, <2>4 DEF RowsAreGivenOnce, GivenRowsAreCounted
  <1>3. CASE flush
    BY <1>3 DEF flush, RowsAreGivenOnce, GivenRowsAreCounted, store, history
  <1>4. CASE Crash
    <2>1. ~up' /\ given' = <<>> /\ DOMAIN given' = {}
      BY <1>4 DEF Crash
    <2> QED
      BY <2>1 DEF RowsAreGivenOnce, GivenRowsAreCounted
  <1>5. ASSUME NEW t \in Threads, AllocRow(t) PROVE RowsAreGivenOnce' /\ GivenRowsAreCounted'
    <2>1. /\ up /\ next_row \in Rows /\ next_row' = next_row + 1 /\ given' = Append(given, next_row)
          /\ UNCHANGED <<log, up, old>>
      BY <1>5 DEF AllocRow, alloc_row, Free, disk
    <2> QED
      BY <2>1, GivenAppend
  <1>6. ASSUME NEW t \in Threads, NEW props \in PropLists, insert_row(t, props)
        PROVE  RowsAreGivenOnce' /\ GivenRowsAreCounted'
    <2>1. /\ up /\ next_row \in Rows /\ next_row' = next_row + 1 /\ given' = Append(given, next_row)
          /\ UNCHANGED <<log, up, old>>
      BY <1>6, InsertFrame
    <2> QED
      BY <2>1, GivenAppend
  <1>7. ASSUME NEW t \in Threads, NEW r \in Record, NEW rest \in PropLists, NEW new \in BOOLEAN,
               Changing(t, r, rest, new)
        PROVE  RowsAreGivenOnce' /\ GivenRowsAreCounted'
    <2>1. UNCHANGED <<next_row, log, up, given, old>>
      BY <1>7, ChangeFrame
    <2> QED
      BY <2>1 DEF RowsAreGivenOnce, GivenRowsAreCounted
  <1>8. ASSUME NEW t \in Threads, NEW r \in Record, Sending(t, r)
        PROVE  RowsAreGivenOnce' /\ GivenRowsAreCounted'
    <2>1. log' = Append(log, r) /\ UNCHANGED <<next_row, up, given, old>>
      BY <1>8, SendFrame DEF Sending
    <2>2. log \in Seq(Record) /\ old \in 0 .. Len(log)
      BY DEF TypeInv, TypeOK
    <2>3. \A k \in 1 .. old : log'[k] = log[k]
      BY <2>1, <2>2
    <2> QED
      BY <2>1, <2>3 DEF RowsAreGivenOnce, GivenRowsAreCounted
  <1> QED
    BY <1>1, <1>2, <1>3, <1>4, <1>5, <1>6, <1>7, <1>8, StepIs

\* While the store is open a row is handed out once and empty, and none of
\* which the replay read a cell: for any number of threads, any interleaving
\* of their calls, and whatever the records of long names are taken for.
THEOREM RowsStayFresh == Spec => []RowsAreFresh
  <1> DEFINE RowInv == RowsAreDistinct /\ RowsAreCounted /\ RowsAreGivenOnce /\ GivenRowsAreCounted
  <1>1. Init => RowInv
    <2> SUFFICES ASSUME Init PROVE RowInv
      OBVIOUS
    <2>1. \A t \in Threads : ~call[t].new /\ call[t].send = <<>>
      BY DEF Init, Idle
    <2>2. \A p \in Props : Len(columns[p]) <= next_row
      BY DEF Init, Empty
    <2>3. DOMAIN given = {} /\ 1 .. old = {}
      BY DEF Init
    <2> QED
      BY <2>1, <2>2, <2>3 DEF RowsAreDistinct, RowsAreCounted, RowsAreGivenOnce, GivenRowsAreCounted
  <1>2. TypeInv /\ RowInv /\ [Next]_vars => RowInv'
    BY RowStep, GivenStep, TypeStep
  <1>3. TypeInv /\ RowInv => RowsAreFresh
    <2> SUFFICES ASSUME TypeInv, RowInv, up, ~DirectRows,
                        NEW p \in Props, NEW row \in Rows, row >= next_row
                 PROVE  get_prop(columns, p, row) = None
      BY DEF RowsAreFresh, FreshRowsAreEmpty, TypeInv
    <2>1. columns \in Columns /\ next_row \in 0 .. MaxRows
      BY DEF TypeInv, TypeOK, Columns
    <2>2. Len(columns[p]) \in Nat
      BY <2>1, BoundedIs, BoundsAssumption DEF Columns
    <2>3. ~(row < Len(columns[p]))
      BY <2>1, <2>2, BoundsAssumption DEF RowsAreCounted, Rows
    <2> QED
      BY <2>3 DEF get_prop
  <1> HIDE DEF RowInv
  <1> QED
    BY <1>1, <1>2, <1>3, AlwaysTypeInv, PTL DEF Spec

-----------------------------------------------------------------------------
(* Cells                                                                   *)

\* A step that touches no cell, no record and nothing to be sent.
LEMMA CellsStay ==
  ASSUME SendsAreCurrent, CellsSurvive, up, UNCHANGED <<columns, log, up, raced, old>>,
         \A t \in Threads : call'[t].send = call[t].send
  PROVE  SendsAreCurrent' /\ CellsSurvive'
  <1>1. SendsAreCurrent'
    BY DEF SendsAreCurrent
  <1>2. \A p, row : Quiet(p, row)' => Quiet(p, row)
    BY DEF Quiet
  <1>3. \A p, row : Displaced(p, row)' <=> Displaced(p, row)
    BY DEF Displaced
  <1>4. CellsSurvive'
    BY <1>2, <1>3 DEF CellsSurvive
  <1> QED
    BY <1>1, <1>4

\* Every step keeps what is to be sent current and the cells recoverable.
LEMMA CellStep ==
  ASSUME TypeInv, TypeInv', SendsAreCurrent, CellsSurvive, [Next]_vars
  PROVE  SendsAreCurrent' /\ CellsSurvive'
  <1> USE BoundsAssumption
  <1>0. columns \in Columns /\ log \in Seq(Record) /\ call \in [Threads -> Call]
    BY DEF TypeInv, TypeOK, Columns
  <1>1. CASE UNCHANGED vars
    <2>1. UNCHANGED <<columns, log, up, raced, call, old>>
      BY <1>1 DEF vars, store, disk, history
    <2> QED
      BY <2>1 DEF SendsAreCurrent, CellsSurvive, Quiet, Displaced
  <1>2. CASE open
    <2>1. ~up /\ call' = call /\ columns' = Replay(log).columns /\ log' = log
      BY <1>2 DEF open, disk
    <2>2. \A t \in Threads : call'[t].send = <<>>
      BY <2>1, ClosedIsIdle
    <2> QED
      BY <2>1, <2>2 DEF SendsAreCurrent, CellsSurvive
  <1>3. CASE flush
    BY <1>3, CellsStay DEF flush, store, history
  <1>4. CASE Crash
    <2>1. up' = FALSE /\ call' = [t \in Threads |-> Idle]
      BY <1>4 DEF Crash
    <2>2. \A t \in Threads : call'[t].send = <<>>
      BY <2>1 DEF Idle
    <2> QED
      BY <2>1, <2>2 DEF SendsAreCurrent, CellsSurvive
  <1>5. ASSUME NEW t \in Threads, AllocRow(t) PROVE SendsAreCurrent' /\ CellsSurvive'
    BY <1>5, CellsStay DEF AllocRow, Free, disk, history
  <1>6. ASSUME NEW t \in Threads, NEW props \in PropLists, insert_row(t, props)
        PROVE  SendsAreCurrent' /\ CellsSurvive'
    <2>1. /\ up /\ call[t] = Idle /\ (call'[t] = Idle \/ call'[t].send = <<>>)
          /\ \A u \in Threads : u # t => call'[u] = call[u]
          /\ UNCHANGED <<columns, log, up, raced, old>>
      BY <1>6, InsertFrame
    <2>2. \A u \in Threads : call'[u].send = call[u].send
      BY <2>1 DEF Idle
    <2> QED
      BY <2>1, <2>2, CellsStay
  <1>7. ASSUME NEW t \in Threads, NEW r \in Record, NEW rest \in PropLists, NEW new \in BOOLEAN,
               Changing(t, r, rest, new)
        PROVE  SendsAreCurrent' /\ CellsSurvive'
    <2>1. /\ call'[t].send = <<r>> /\ call[t].send = <<>>
          /\ \A u \in Threads : u # t => call'[u] = call[u]
          /\ columns' = Put(columns, r) /\ up /\ UNCHANGED <<log, up, old>>
      <3>1. call[t].send = <<>>
        BY <1>7 DEF Changing
      <3> QED
        BY <1>7, <3>1, ChangeFrame
    <2>2. /\ raced \subseteq raced'
          /\ <<r.prop, r.row>> \notin raced' =>
                \A u \in Threads \ {t} : \A i \in DOMAIN call[u].send :
                   ~(call[u].send[i].prop = r.prop /\ call[u].send[i].row = r.row)
      BY <1>7 DEF Changing, Change, Race
    <2>3. \A p \in Props, row \in Rows : get_prop(columns', p, row) =
             IF p = r.prop /\ row = r.row THEN r.value ELSE get_prop(columns, p, row)
      BY <1>0, <2>1, PutIs
    <2>4. r.prop \in Props /\ r.row \in Rows
      BY DEF Record
    <2>5. DOMAIN call'[t].send = {1} /\ call'[t].send[1] = r
      BY <2>1
    <2>6. ASSUME NEW u \in Threads, NEW i \in DOMAIN call[u].send
          PROVE  call[u].send[i] \in Record
      <3>1. call[u].send \in BoundedSeq(Record, 1)
        BY <1>0 DEF Call
      <3>2. call[u].send \in [1 .. Len(call[u].send) -> Record]
        BY <3>1, BoundedIs
      <3> QED
        BY <2>6, <3>2
    <2>7. ASSUME NEW u \in Threads, NEW i \in DOMAIN call'[u].send, NEW s, s = call'[u].send[i],
                 <<s.prop, s.row>> \notin raced'
          PROVE  /\ get_prop(columns', s.prop, s.row) = s.value
                 /\ \A v \in Threads \ {u} : \A j \in DOMAIN call'[v].send :
                       ~(call'[v].send[j].prop = s.prop /\ call'[v].send[j].row = s.row)
      <3>1. CASE u = t
        <4>1. s = r
          BY <2>5, <2>7, <3>1
        <4>2. get_prop(columns', r.prop, r.row) = r.value
          BY <2>3, <2>4
        <4> QED
          BY <2>1, <2>2, <2>7, <3>1, <4>1, <4>2
      <3>2. CASE u # t
        <4>1. i \in DOMAIN call[u].send /\ s = call[u].send[i] /\ s \in Record
          BY <2>1, <2>6, <2>7, <3>2
        <4>2. ~(s.prop = r.prop /\ s.row = r.row)
          BY <2>2, <2>7, <3>2, <4>1
        <4>3. /\ get_prop(columns, s.prop, s.row) = s.value
              /\ \A v \in Threads \ {u} : \A j \in DOMAIN call[v].send :
                       ~(call[v].send[j].prop = s.prop /\ call[v].send[j].row = s.row)
          BY <2>2, <2>7, <4>1 DEF SendsAreCurrent
        <4>4. get_prop(columns', s.prop, s.row) = s.value
          BY <2>3, <4>1, <4>2, <4>3 DEF Record
        <4>5. ASSUME NEW v \in Threads \ {u}, NEW j \in DOMAIN call'[v].send
              PROVE  ~(call'[v].send[j].prop = s.prop /\ call'[v].send[j].row = s.row)
          BY <2>1, <2>5, <4>2, <4>3, <4>5
        <4> QED
          BY <4>4, <4>5
      <3> QED
        BY <3>1, <3>2
    <2>8. ASSUME NEW p \in Props \ LongNames, NEW row \in Rows,
                 Quiet(p, row)', <<p, row>> \notin raced', ~Displaced(p, row)'
          PROVE  get_prop(Replay(log').columns, p, row) = get_prop(columns', p, row)
      <3>1. ~(p = r.prop /\ row = r.row)
        BY <2>5, <2>8 DEF Quiet
      <3>2. Quiet(p, row) /\ <<p, row>> \notin raced /\ ~Displaced(p, row)
        BY <2>1, <2>2, <2>8 DEF Quiet, Displaced
      <3>3. get_prop(Replay(log).columns, p, row) = get_prop(columns, p, row)
        BY <2>1, <3>2 DEF CellsSurvive
      <3> QED
        BY <2>1, <2>3, <3>1, <3>3
    <2> QED
      BY <2>7, <2>8 DEF SendsAreCurrent, CellsSurvive
  <1>8. ASSUME NEW t \in Threads, NEW r \in Record, Sending(t, r) PROVE SendsAreCurrent' /\ CellsSurvive'
    <2>1. /\ call'[t].send = <<>> /\ \A u \in Threads : u # t => call'[u] = call[u]
          /\ up /\ UNCHANGED <<columns, up, raced, old>>
      BY <1>8, SendFrame
    <2>2. call[t].send = <<r>> /\ log' = Append(log, r)
      BY <1>8 DEF Sending
    <2>3. 1 \in DOMAIN call[t].send /\ call[t].send[1] = r /\ DOMAIN call[t].send = {1}
      BY <2>2
    <2>4. SendsAreCurrent'
      BY <2>1 DEF SendsAreCurrent
    <2>5. Replay(log') = ReplayCell(Replay(log), r) /\ Replay(log) \in Recovered
      BY <1>0, <2>2, ReplayAppend, ReplayCounts
    <2>6. ASSUME NEW p \in Props \ LongNames, NEW row \in Rows,
                 Quiet(p, row)', <<p, row>> \notin raced', ~Displaced(p, row)'
          PROVE  get_prop(Replay(log').columns, p, row) = get_prop(columns', p, row)
      <3>0. /\ ~Displaced(p, row)
            /\ r.prop \in LongNames /\ Parses(r) => ~(Cell(r).prop = p /\ Cell(r).row = row)
        <4>1. /\ Len(log) \in Nat /\ Len(log') = Len(log) + 1 /\ log'[Len(log) + 1] = r
              /\ \A i \in 1 .. Len(log) : log'[i] = log[i]
          BY <1>0, <2>2
        <4>2. old \in Nat /\ old <= Len(log) /\ old' = old
          BY <2>1, <4>1 DEF TypeInv, TypeOK
        <4>3. Len(log) + 1 \in old' + 1 .. Len(log') /\ \A i \in old + 1 .. Len(log) : i \in 1 .. Len(log) /\ i \in old' + 1 .. Len(log')
          BY <4>1, <4>2
        <4> QED
          BY <2>6, <4>1, <4>3 DEF Displaced
      <3>1. ~(p = r.prop /\ row = r.row) => get_prop(Replay(log).columns, p, row) = get_prop(columns, p, row)
        <4>1. ~(p = r.prop /\ row = r.row) => Quiet(p, row)
          BY <2>1, <2>3, <2>6 DEF Quiet
        <4> QED
          BY <2>1, <2>6, <3>0, <4>1 DEF CellsSurvive
      <3>2. CASE Parses(r)
        <4> DEFINE c == Cell(r)
        <4>0. c \in Record /\ (r.prop \notin LongNames => c = r)
          BY <3>2, ReadIs
        <4>1. Replay(log').columns = Put(Replay(log).columns, c)
          <5>1. ReplayCell(Replay(log), r).columns = Put(Replay(log).columns, c)
            BY <2>5, <3>2, CellIs
          <5> QED
            BY <2>5, <5>1
        <4> HIDE DEF c
        <4>2. Replay(log).columns \in Columns
          BY <2>5 DEF Recovered
        <4>3. get_prop(Put(Replay(log).columns, c), p, row) =
                IF p = c.prop /\ row = c.row THEN c.value ELSE get_prop(Replay(log).columns, p, row)
          BY <4>0, <4>2, PutIs
        <4>4. CASE p = r.prop /\ row = r.row
          <5>1. get_prop(columns, p, row) = r.value
            BY <2>1, <2>3, <2>6, <4>4 DEF SendsAreCurrent
          <5>2. c = r
            BY <4>0, <4>4
          <5> QED
            BY <2>1, <4>1, <4>3, <4>4, <5>1, <5>2
        <4>5. CASE ~(p = r.prop /\ row = r.row)
          <5>1. ~(p = c.prop /\ row = c.row)
            BY <3>0, <3>2, <4>0, <4>5 DEF c
          <5> QED
            BY <2>1, <3>1, <4>1, <4>3, <4>5, <5>1
        <4> QED
          BY <4>4, <4>5
      <3>3. CASE ~Parses(r)
        <4>1. p # r.prop /\ ReplayCell(Replay(log), r) = Replay(log)
          BY <2>5, <3>3, CellIs DEF Parses
        <4> QED
          BY <2>1, <2>5, <3>1, <4>1
      <3> QED
        BY <3>2, <3>3
    <2> QED
      BY <2>4, <2>6 DEF CellsSurvive
  <1> QED
    BY <1>1, <1>2, <1>3, <1>4, <1>5, <1>6, <1>7, <1>8, StepIs

\* A cell whose sends have caught up would be recovered as it is, unless its
\* name is too long, two threads changed it at once, or a long name's record
\* was logged that is taken for it.
THEOREM CellsAreRecovered == Spec => []CellsSurvive
  <1>1. Init => SendsAreCurrent /\ CellsSurvive
    <2> SUFFICES ASSUME Init PROVE SendsAreCurrent /\ CellsSurvive
      OBVIOUS
    <2>1. \A t \in Threads : call[t].send = <<>>
      BY DEF Init, Idle
    <2>2. Replay(log) = Empty
      <3>1. log \in Seq(Record) /\ Len(log) = 0
        BY DEF Init
      <3> QED
        BY <3>1, ReplayedIs DEF Replay
    <2> QED
      BY <2>1, <2>2 DEF Init, SendsAreCurrent, CellsSurvive
  <1>2. TypeInv /\ SendsAreCurrent /\ CellsSurvive /\ [Next]_vars => SendsAreCurrent' /\ CellsSurvive'
    BY CellStep, TypeStep
  <1> QED
    BY <1>1, <1>2, AlwaysTypeInv, PTL DEF Spec
-----------------------------------------------------------------------------
(* Order                                                                   *)

\* What one more record adds to the log.
LEMMA LoggedAppend ==
  ASSUME NEW l \in Seq(Record), NEW r \in Record
  PROVE  /\ Len(Append(l, r)) = Len(l) + 1
         /\ \A n \in 0 .. Len(l) : \A p, row : LoggedIn(Append(l, r), n, p, row) <=> LoggedIn(l, n, p, row)
         /\ \A p, row : LoggedIn(Append(l, r), Len(l) + 1, p, row) <=>
               \/ LoggedIn(l, Len(l), p, row)
               \/ p \notin LongNames /\ r.prop = p /\ r.row = row
  <1>1. /\ Len(l) \in Nat /\ Len(Append(l, r)) = Len(l) + 1 /\ Append(l, r)[Len(l) + 1] = r
        /\ \A i \in 1 .. Len(l) : Append(l, r)[i] = l[i]
    OBVIOUS
  <1> DEFINE l2 == Append(l, r)
  <1> HIDE DEF l2
  <1>2. \A n \in 0 .. Len(l) : \A p, row : LoggedIn(l2, n, p, row) <=> LoggedIn(l, n, p, row)
    BY <1>1 DEF LoggedIn, l2
  <1>3. ASSUME NEW p, NEW row
        PROVE  LoggedIn(l2, Len(l) + 1, p, row) <=>
                  (LoggedIn(l, Len(l), p, row) \/ (p \notin LongNames /\ r.prop = p /\ r.row = row))
    <2>1. 1 .. Len(l) + 1 = (1 .. Len(l)) \cup {Len(l) + 1}
      BY <1>1
    <2>2. l2[Len(l) + 1] = r /\ \A i \in 1 .. Len(l) : l2[i] = l[i]
      BY <1>1 DEF l2
    <2> QED
      BY <2>1, <2>2 DEF LoggedIn
  <1> QED
    BY <1>1, <1>2, <1>3 DEF l2

\* A list of properties, as the row remembers it.
LEMMA ListIs ==
  ASSUME NEW props \in PropLists
  PROVE  LET l == [i \in DOMAIN props |-> props[i].prop]
         IN  /\ DOMAIN props = 1 .. Len(props) /\ Len(props) \in Nat /\ Len(l) = Len(props)
             /\ DOMAIN l = DOMAIN props /\ \A i \in DOMAIN props : l[i] = props[i].prop
             /\ \A i, j \in DOMAIN l : i # j => l[i] # l[j]
  <1> DEFINE l == [i \in DOMAIN props |-> props[i].prop]
  <1>1. props \in Seq([prop : Props, value : Values])
    BY PropListIs
  <1>2. DOMAIN props = 1 .. Len(props) /\ Len(props) \in Nat
    BY <1>1, LenProperties
  <1>3. l \in [1 .. Len(props) -> {props[i].prop : i \in DOMAIN props}]
    BY <1>2
  <1>4. Len(l) = Len(props)
    BY <1>2, <1>3
  <1>5. \A i, j \in DOMAIN l : i # j => l[i] # l[j]
    BY DEF PropLists
  <1> QED
    BY <1>2, <1>4, <1>5

\* A step that leaves the calls, the lists, the log and the counter alone.
LEMMA OrderStays ==
  ASSUME OrderInv, UNCHANGED <<next_row, log, up, call, lists>>
  PROVE  OrderInv'
  <1>1. \A t \in Threads : Done(t)' = Done(t)
    BY DEF Done
  <1>2. Progress'
    BY <1>1 DEF Progress, OrderInv
  <1>3. FreshRowsAreUnknown' /\ GivenRowsAreDone' /\ DoneRowsAreLogged' /\ ListsAreDistinct' /\ OrderInLog'
    BY DEF FreshRowsAreUnknown, GivenRowsAreDone, DoneRowsAreLogged, ListsAreDistinct, OrderInLog, OrderInv
  <1> QED
    BY <1>2, <1>3 DEF OrderInv

\* Every step keeps the order.
LEMMA OrderStep ==
  ASSUME TypeInv, TypeInv', RowsAreDistinct, RowsAreCounted, RowsAreDistinct', OrderInv, [Next]_vars
  PROVE  OrderInv'
  <1> USE BoundsAssumption
  <1>0. /\ next_row \in 0 .. MaxRows /\ log \in Seq(Record) /\ Len(log) \in Nat
        /\ \A t \in Threads : /\ call[t] \in Call /\ call[t].row \in Rows
                              /\ call[t].todo \in PropLists /\ Len(call[t].todo) \in Nat
                              /\ DOMAIN call[t].todo = 1 .. Len(call[t].todo)
        /\ \A row \in Rows : /\ lists[row] \in Seq(Props) /\ Len(lists[row]) \in Nat
                             /\ DOMAIN lists[row] = 1 .. Len(lists[row])
        /\ Rows \subseteq Nat
    <2>1. /\ next_row \in 0 .. MaxRows /\ log \in Seq(Record) /\ call \in [Threads -> Call]
          /\ lists \in [Rows -> Seq(Props)]
      BY DEF TypeInv, TypeOK
    <2>2. \A t \in Threads : call[t] \in Call /\ call[t].row \in Rows /\ call[t].todo \in PropLists
      BY <2>1 DEF Call
    <2>3. \A t \in Threads : Len(call[t].todo) \in Nat /\ DOMAIN call[t].todo = 1 .. Len(call[t].todo)
      BY <2>2, ListIs
    <2>4. \A row \in Rows : lists[row] \in Seq(Props) /\ Len(lists[row]) \in Nat /\ DOMAIN lists[row] = 1 .. Len(lists[row])
      BY <2>1
    <2> QED
      BY <2>1, <2>2, <2>3, <2>4 DEF Rows
  <1>1. CASE UNCHANGED vars
    BY <1>1, OrderStays DEF vars, store, disk, history
  <1>2. CASE open
    <2>1. /\ ~up /\ call' = call /\ log' = log /\ next_row' = Replay(log).next_row
          /\ lists' = [r \in Rows |-> <<>>]
      BY <1>2 DEF open, disk, history, TypeInv
    <2>2. \A t \in Threads : ~call[t].new
      BY <2>1, ClosedIsIdle
    <2>3. ASSUME NEW i \in DOMAIN log', log'[i].prop \notin LongNames PROVE log'[i].row < next_row'
      <3>1. log[i] \in Record /\ log'[i] = log[i]
        BY <1>0, <2>1
      <3> QED
        BY <1>0, <2>1, <2>3, <3>1, ReadIs, ReplayCounts
    <2>4. \A row \in Rows : lists'[row] = <<>> /\ DOMAIN lists'[row] = {}
      BY <2>1
    <2>5. FreshRowsAreUnknown'
      BY <2>3, <2>4 DEF FreshRowsAreUnknown
    <2>6. GivenRowsAreDone' /\ Progress'
      BY <2>1, <2>2 DEF GivenRowsAreDone, Progress
    <2>7. DoneRowsAreLogged' /\ OrderInLog' /\ ListsAreDistinct'
      BY <2>4 DEF DoneRowsAreLogged, OrderInLog, ListsAreDistinct
    <2> QED
      BY <2>5, <2>6, <2>7 DEF OrderInv
  <1>3. CASE flush
    BY <1>3, OrderStays DEF flush, store, history
  <1>4. CASE Crash
    <2>1. ~up' /\ call' = [t \in Threads |-> Idle] /\ lists' = [r \in Rows |-> <<>>]
      BY <1>4 DEF Crash
    <2>2. \A t \in Threads : ~call'[t].new
      BY <2>1 DEF Idle
    <2>3. GivenRowsAreDone' /\ ListsAreDistinct'
      BY <2>1, <2>2 DEF GivenRowsAreDone, ListsAreDistinct
    <2> QED
      BY <2>1, <2>3 DEF OrderInv, FreshRowsAreUnknown, Progress, DoneRowsAreLogged, OrderInLog
  <1>5. ASSUME NEW t \in Threads, AllocRow(t) PROVE OrderInv'
    <2>1. next_row' = next_row + 1 /\ UNCHANGED <<log, up, call, lists>> /\ up
      BY <1>5 DEF AllocRow, alloc_row, Free, disk, history
    <2>2. FreshRowsAreUnknown'
      <3>0. \A i \in DOMAIN log : log[i] \in Record
        BY <1>0
      <3>1. \A i \in DOMAIN log : log[i].row \in Nat
        BY <1>0, <3>0 DEF Record
      <3> QED
        BY <1>0, <2>1, <3>1 DEF FreshRowsAreUnknown, OrderInv
    <2>3. GivenRowsAreDone' /\ Progress' /\ DoneRowsAreLogged' /\ ListsAreDistinct' /\ OrderInLog'
      BY <2>1 DEF GivenRowsAreDone, Progress, DoneRowsAreLogged, ListsAreDistinct, OrderInLog, Done, OrderInv
    <2> QED
      BY <2>2, <2>3 DEF OrderInv
  <1>6. ASSUME NEW t \in Threads, NEW props \in PropLists, insert_row(t, props) PROVE OrderInv'
    <2> DEFINE l == [i \in DOMAIN props |-> props[i].prop]
    <2>1. /\ up /\ next_row \in Rows /\ next_row' = next_row + 1 /\ call[t] = Idle
          /\ \/ props = <<>> /\ call'[t] = Idle
             \/ /\ props # <<>> /\ call'[t].row = next_row /\ call'[t].todo = props
                /\ call'[t].send = <<>> /\ call'[t].new = TRUE
          /\ \A u \in Threads : u # t => call'[u] = call[u]
          /\ lists'[next_row] = l
          /\ \A row \in Rows : row # next_row => lists'[row] = lists[row]
          /\ UNCHANGED <<log, up>>
      BY <1>6, InsertFrame
    <2>2. /\ DOMAIN props = 1 .. Len(props) /\ Len(props) \in Nat /\ Len(l) = Len(props)
          /\ DOMAIN l = DOMAIN props /\ \A i \in DOMAIN props : l[i] = props[i].prop
          /\ \A i, j \in DOMAIN l : i # j => l[i] # l[j]
      BY ListIs
    <2> HIDE DEF l
    <2>3. Idle.new = FALSE /\ Idle.send = <<>>
      BY DEF Idle
    <2>4. ~call[t].new /\ call'[t].send = <<>> /\ (call'[t].new => call'[t].row = next_row)
      BY <2>1, <2>3
    <2>5. \A u \in Threads : u # t /\ call[u].new => call[u].row # next_row
      BY <1>0 DEF RowsAreDistinct
    <2>6. ListsAreDistinct'
      BY <2>1, <2>2 DEF ListsAreDistinct, OrderInv
    <2>7. GivenRowsAreDone'
      <3>1. ~DirectRows => \A u \in Threads : call[u].send # <<>> => call[u].row # next_row
        BY <1>0, <2>1 DEF RowsAreCounted
      <3> QED
        BY <2>1, <2>4, <3>1 DEF GivenRowsAreDone, OrderInv
    <2>8. FreshRowsAreUnknown'
      <3>0. \A i \in DOMAIN log : log[i] \in Record
        BY <1>0
      <3>1. \A i \in DOMAIN log : log[i].row \in Nat
        BY <1>0, <3>0 DEF Record
      <3>2. \A row \in Rows : row >= next_row + 1 => row >= next_row /\ row # next_row
        BY <1>0
      <3> QED
        BY <1>0, <2>1, <3>1, <3>2 DEF FreshRowsAreUnknown, OrderInv
    <2>9. Progress'
      <3> SUFFICES ASSUME ~DirectRows, NEW u \in Threads, call'[u].new
                   PROVE  /\ Done(u)' >= 0
                          /\ \A m \in DOMAIN call'[u].todo : call'[u].todo[m].prop = lists'[call'[u].row][Done(u)' + m]
                          /\ call'[u].send # <<>> => Done(u)' >= 1 /\ call'[u].send[1].prop = lists'[call'[u].row][Done(u)']
                          /\ \A m \in 1 .. Done(u)' :
                                lists'[call'[u].row][m] \notin LongNames /\ (m < Done(u)' \/ call'[u].send = <<>>)
                                    => LoggedIn(log', Len(log'), lists'[call'[u].row][m], call'[u].row)
        BY DEF Progress
      <3>1. CASE u = t
        <4>1. call'[u].row = next_row /\ call'[u].todo = props /\ call'[u].send = <<>> /\ lists'[next_row] = l
          BY <2>1, <2>3, <3>1
        <4>2. Done(u)' = 0
          BY <2>2, <4>1 DEF Done
        <4> QED
          BY <2>2, <4>1, <4>2
      <3>2. CASE u # t
        <4>1. call'[u] = call[u] /\ lists'[call[u].row] = lists[call[u].row] /\ log' = log /\ call[u].new /\ up
          BY <1>0, <2>1, <2>5, <3>2
        <4>2. Done(u)' = Done(u)
          BY <4>1 DEF Done
        <4> QED
          BY <4>1, <4>2 DEF Progress, OrderInv
      <3> QED
        BY <3>1, <3>2
    <2>10. DoneRowsAreLogged'
      <3> SUFFICES ASSUME ~DirectRows, NEW row \in Rows, \A u \in Threads : ~(call'[u].new /\ call'[u].row = row),
                          NEW m \in DOMAIN lists'[row], lists'[row][m] \notin LongNames
                   PROVE  LoggedIn(log', Len(log'), lists'[row][m], row)
        BY DEF DoneRowsAreLogged
      <3>1. CASE row = next_row
        <4>1. props = <<>>
          BY <2>1, <3>1
        <4> QED
          BY <2>1, <2>2, <3>1, <4>1
      <3>2. CASE row # next_row
        <4>1. \A u \in Threads : ~(call[u].new /\ call[u].row = row)
          BY <2>1, <2>4
        <4>2. lists'[row] = lists[row] /\ log' = log
          BY <2>1, <3>2
        <4> QED
          BY <2>1, <4>1, <4>2 DEF DoneRowsAreLogged, OrderInv
      <3> QED
        BY <3>1, <3>2
    <2>11. OrderInLog'
      <3> SUFFICES ASSUME ~DirectRows, NEW n \in 0 .. Len(log'), NEW row \in Rows,
                          NEW i \in DOMAIN lists'[row], NEW j \in DOMAIN lists'[row],
                          i < j, lists'[row][i] \notin LongNames, LoggedIn(log', n, lists'[row][j], row)
                   PROVE  LoggedIn(log', n, lists'[row][i], row)
        BY DEF OrderInLog
      <3>1. CASE row = next_row
        <4>1. PICK k \in 1 .. n : log[k].prop \notin LongNames /\ log[k].row = row
          BY <2>1 DEF LoggedIn
        <4>2. k \in DOMAIN log /\ log[k].row < next_row
          BY <1>0, <2>1, <4>1 DEF FreshRowsAreUnknown, OrderInv
        <4> QED
          BY <1>0, <3>1, <4>1, <4>2
      <3>2. CASE row # next_row
        <4>1. lists'[row] = lists[row] /\ log' = log
          BY <2>1, <3>2
        <4> QED
          BY <2>1, <4>1 DEF OrderInLog, OrderInv
      <3> QED
        BY <3>1, <3>2
    <2> QED
      BY <2>6, <2>7, <2>8, <2>9, <2>10, <2>11 DEF OrderInv
  <1>7. ASSUME NEW t \in Threads, NEW r \in Record, NEW rest \in PropLists, NEW new \in BOOLEAN,
               Changing(t, r, rest, new)
        PROVE  OrderInv'
    <2>1. /\ call'[t].row = r.row /\ call'[t].todo = rest /\ call'[t].send = <<r>> /\ call'[t].new = new
          /\ \A u \in Threads : u # t => call'[u] = call[u]
          /\ up /\ UNCHANGED <<next_row, log, up, lists>>
      BY <1>7, ChangeFrame
    <2>2. CASE new
      <3>1. /\ call[t].new /\ call[t].row = r.row /\ call[t].todo # <<>> /\ call[t].send = <<>>
            /\ r.prop = call[t].todo[1].prop /\ rest = Tail(call[t].todo) /\ call'[t].new
        BY <1>7, <2>1, <2>2 DEF Changing
      <3>2. /\ Len(rest) = Len(call[t].todo) - 1 /\ Len(call[t].todo) >= 1
            /\ \A i \in 1 .. Len(call[t].todo) - 1 : rest[i] = call[t].todo[i + 1]
        BY <1>0, <3>1, PropListIs
      <3>3. \A u \in Threads : call'[u].new <=> call[u].new
        BY <2>1, <3>1
      <3>4. \A u \in Threads : call'[u].row = call[u].row
        BY <2>1, <3>1
      <3>5. Progress'
        <4> SUFFICES ASSUME ~DirectRows, NEW u \in Threads, call'[u].new
                     PROVE  /\ Done(u)' >= 0
                            /\ \A m \in DOMAIN call'[u].todo : call'[u].todo[m].prop = lists'[call'[u].row][Done(u)' + m]
                            /\ call'[u].send # <<>> => Done(u)' >= 1 /\ call'[u].send[1].prop = lists'[call'[u].row][Done(u)']
                            /\ \A m \in 1 .. Done(u)' :
                                  lists'[call'[u].row][m] \notin LongNames /\ (m < Done(u)' \/ call'[u].send = <<>>)
                                      => LoggedIn(log', Len(log'), lists'[call'[u].row][m], call'[u].row)
          BY DEF Progress
        <4>1. CASE u = t
          <5> DEFINE L == lists[call[t].row]
                     k == Done(t)
                     todo == call[t].todo
          <5>1. /\ k >= 0 /\ \A m \in DOMAIN todo : todo[m].prop = L[k + m]
                /\ \A m \in 1 .. k : L[m] \notin LongNames => LoggedIn(log, Len(log), L[m], call[t].row)
            BY <2>1, <3>1 DEF Progress, OrderInv
          <5>2. k \in Int /\ Done(u)' = k + 1
            <6>1. Done(u)' = Len(L) - Len(rest) /\ k = Len(L) - Len(todo)
              BY <2>1, <3>1, <4>1 DEF Done
            <6>2. Len(L) \in Nat /\ Len(todo) \in Nat /\ Len(rest) = Len(todo) - 1
              BY <1>0, <3>2
            <6> QED
              BY <6>1, <6>2
          <5>3. L[k + 1] = r.prop
            <6>1. 1 \in DOMAIN todo
              BY <1>0, <3>2
            <6> QED
              BY <3>1, <5>1, <6>1
          <5>4. ASSUME NEW m \in DOMAIN rest PROVE rest[m].prop = L[(k + 1) + m]
            <6>1. DOMAIN rest = 1 .. Len(rest)
              BY ListIs
            <6>2. m \in 1 .. Len(todo) - 1 /\ m + 1 \in DOMAIN todo
              BY <1>0, <3>2, <5>4, <6>1
            <6>3. rest[m] = todo[m + 1] /\ todo[m + 1].prop = L[k + (m + 1)]
              BY <3>2, <5>1, <6>2
            <6>4. k + (m + 1) = (k + 1) + m
              BY <5>2, <6>2
            <6> QED
              BY <6>3, <6>4
          <5>5. \A m \in 1 .. k + 1 : m < k + 1 => m \in 1 .. k
            BY <5>2
          <5>6. <<r>> # <<>> /\ <<r>>[1] = r
            OBVIOUS
          <5>7. call'[u].row = call[t].row /\ call'[u].todo = rest /\ call'[u].send = <<r>> /\ lists' = lists /\ log' = log
            BY <2>1, <3>1, <4>1
          <5>8. k + 1 >= 0 /\ k + 1 >= 1
            BY <5>1, <5>2
          <5> HIDE DEF k, L, todo
          <5>9. \A m \in 1 .. k + 1 : L[m] \notin LongNames /\ (m < k + 1 \/ <<r>> = <<>>) => LoggedIn(log, Len(log), L[m], call[t].row)
            BY <5>1, <5>5, <5>6
          <5>10. lists'[call'[u].row] = L
            BY <5>7 DEF L
          <5> QED
            BY <5>2, <5>3, <5>4, <5>6, <5>7, <5>8, <5>9, <5>10
        <4>2. CASE u # t
          <5>1. call'[u] = call[u] /\ lists' = lists /\ log' = log /\ call[u].new /\ up
            BY <2>1, <4>2
          <5>2. Done(u)' = Done(u)
            BY <5>1 DEF Done
          <5> QED
            BY <5>1, <5>2 DEF Progress, OrderInv
        <4> QED
          BY <4>1, <4>2
      <3>6. GivenRowsAreDone'
        BY <2>1, <3>1, <3>3, <3>4 DEF GivenRowsAreDone, OrderInv
      <3>7. FreshRowsAreUnknown' /\ DoneRowsAreLogged' /\ ListsAreDistinct' /\ OrderInLog'
        BY <2>1, <3>3, <3>4 DEF FreshRowsAreUnknown, DoneRowsAreLogged, ListsAreDistinct, OrderInLog, OrderInv
      <3> QED
        BY <3>5, <3>6, <3>7 DEF OrderInv
    <2>3. CASE ~new
      <3>1. call[t] = Idle /\ Given(r.row) /\ Idle.new = FALSE
        BY <1>7, <2>3 DEF Changing, Idle
      <3>2. ~call[t].new /\ ~call'[t].new
        BY <2>1, <2>3, <3>1
      <3>3. ~DirectRows => \A u \in Threads : call[u].new => call[u].row # r.row
        BY <3>1 DEF Given
      <3>4. \A u \in Threads : call'[u].new => u # t /\ call[u].new /\ call'[u] = call[u]
        BY <2>1, <3>2
      <3>5. GivenRowsAreDone'
        BY <2>1, <3>2, <3>3, <3>4 DEF GivenRowsAreDone, OrderInv
      <3>6. Progress'
        <4>1. \A u \in Threads : call'[u].new => Done(u)' = Done(u)
          BY <2>1, <3>4 DEF Done
        <4> QED
          BY <2>1, <3>4, <4>1 DEF Progress, OrderInv
      <3>7. DoneRowsAreLogged'
        BY <2>1, <3>2 DEF DoneRowsAreLogged, OrderInv
      <3>8. FreshRowsAreUnknown' /\ ListsAreDistinct' /\ OrderInLog'
        BY <2>1 DEF FreshRowsAreUnknown, ListsAreDistinct, OrderInLog, OrderInv
      <3> QED
        BY <3>5, <3>6, <3>7, <3>8 DEF OrderInv
    <2> QED
      BY <2>2, <2>3
  <1>8. ASSUME NEW t \in Threads, NEW r \in Record, Sending(t, r) PROVE OrderInv'
    <2>1. /\ \/ call[t].todo = <<>> /\ call'[t] = Idle
             \/ /\ call[t].todo # <<>> /\ call'[t].row = call[t].row /\ call'[t].todo = call[t].todo
                /\ call'[t].new /\ call[t].new
          /\ call'[t].send = <<>> /\ (call'[t].new => call[t].new /\ call'[t].row = call[t].row)
          /\ \A u \in Threads : u # t => call'[u] = call[u]
          /\ up /\ UNCHANGED <<next_row, up, lists>>
      BY <1>8, SendFrame
    <2>2. call[t].send = <<r>> /\ r.row = call[t].row /\ log' = Append(log, r) /\ <<r>> # <<>> /\ <<r>>[1] = r
      BY <1>8 DEF Sending
    <2>3. /\ Len(log') = Len(log) + 1
          /\ \A n \in 0 .. Len(log) : \A p, row : LoggedIn(log', n, p, row) <=> LoggedIn(log, n, p, row)
          /\ \A p, row : LoggedIn(log', Len(log) + 1, p, row) <=>
               \/ LoggedIn(log, Len(log), p, row)
               \/ p \notin LongNames /\ r.prop = p /\ r.row = row
      BY <1>0, <2>2, LoggedAppend
    <2>4. Idle.new = FALSE
      BY DEF Idle
    <2>5. \A p, row : LoggedIn(log, Len(log), p, row) => LoggedIn(log', Len(log'), p, row)
      BY <2>3
    <2>6. r.prop \notin LongNames => LoggedIn(log', Len(log'), r.prop, call[t].row)
      BY <2>2, <2>3 DEF Parses
    <2>7. ~DirectRows => r.row < next_row
      BY <2>1, <2>2 DEF RowsAreCounted
    <2>8. FreshRowsAreUnknown'
      <3>1. DOMAIN log' = (DOMAIN log) \cup {Len(log) + 1} /\ log'[Len(log) + 1] = r /\ \A i \in DOMAIN log : log'[i] = log[i]
        BY <1>0, <2>2
      <3> QED
        BY <2>1, <2>7, <3>1 DEF FreshRowsAreUnknown, OrderInv
    <2>9. GivenRowsAreDone'
      BY <2>1 DEF GivenRowsAreDone, OrderInv
    <2>10. ListsAreDistinct'
      BY <2>1 DEF ListsAreDistinct, OrderInv
    <2> DEFINE L == lists[call[t].row]
               k == Done(t)
    <2>11. ~DirectRows /\ call[t].new =>
             /\ k \in Int /\ k >= 1 /\ L[k] = r.prop
             /\ \A m \in DOMAIN call[t].todo : call[t].todo[m].prop = L[k + m]
             /\ \A m \in 1 .. k : L[m] \notin LongNames => LoggedIn(log', Len(log'), L[m], call[t].row)
             /\ \A m \in 1 .. k - 1 : L[m] \notin LongNames => LoggedIn(log, Len(log), L[m], call[t].row)
             /\ k = Len(L) - Len(call[t].todo)
      <3> SUFFICES ASSUME ~DirectRows, call[t].new
                   PROVE  /\ k \in Int /\ k >= 1 /\ L[k] = r.prop
                          /\ \A m \in DOMAIN call[t].todo : call[t].todo[m].prop = L[k + m]
                          /\ \A m \in 1 .. k : L[m] \notin LongNames => LoggedIn(log', Len(log'), L[m], call[t].row)
                          /\ \A m \in 1 .. k - 1 : L[m] \notin LongNames => LoggedIn(log, Len(log), L[m], call[t].row)
                          /\ k = Len(L) - Len(call[t].todo)
        OBVIOUS
      <3>1. k = Len(L) - Len(call[t].todo) /\ k \in Int
        BY <1>0 DEF Done
      <3>2. /\ k >= 1 /\ L[k] = r.prop
            /\ \A m \in DOMAIN call[t].todo : call[t].todo[m].prop = L[k + m]
            /\ \A m \in 1 .. k : L[m] \notin LongNames /\ m < k => LoggedIn(log, Len(log), L[m], call[t].row)
        BY <2>1, <2>2 DEF Progress, OrderInv
      <3> HIDE DEF k, L
      <3>3. \A m \in 1 .. k : m < k \/ m = k
        BY <3>1
      <3>4. \A m \in 1 .. k - 1 : m \in 1 .. k /\ m < k
        BY <3>1
      <3> QED
        BY <2>5, <2>6, <3>1, <3>2, <3>3, <3>4
    <2>12. Progress'
      <3> SUFFICES ASSUME ~DirectRows, NEW u \in Threads, call'[u].new
                   PROVE  /\ Done(u)' >= 0
                          /\ \A m \in DOMAIN call'[u].todo : call'[u].todo[m].prop = lists'[call'[u].row][Done(u)' + m]
                          /\ call'[u].send # <<>> => Done(u)' >= 1 /\ call'[u].send[1].prop = lists'[call'[u].row][Done(u)']
                          /\ \A m \in 1 .. Done(u)' :
                                lists'[call'[u].row][m] \notin LongNames /\ (m < Done(u)' \/ call'[u].send = <<>>)
                                    => LoggedIn(log', Len(log'), lists'[call'[u].row][m], call'[u].row)
        BY DEF Progress
      <3>1. CASE u = t
        <4>1. /\ call'[u].row = call[t].row /\ call'[u].todo = call[t].todo /\ call[t].new
              /\ call'[u].send = <<>> /\ lists' = lists
          BY <2>1, <2>4, <3>1
        <4>2. Done(u)' = k
          BY <4>1 DEF Done
        <4> HIDE DEF k
        <4>3. lists'[call'[u].row] = L /\ k >= 0
          BY <2>11, <4>1
        <4> HIDE DEF L
        <4> QED
          BY <2>11, <4>1, <4>2, <4>3
      <3>2. CASE u # t
        <4>1. call'[u] = call[u] /\ lists' = lists /\ call[u].new /\ up
          BY <2>1, <3>2
        <4>2. Done(u)' = Done(u)
          BY <4>1 DEF Done
        <4> HIDE DEF k, L
        <4> QED
          BY <2>5, <4>1, <4>2 DEF Progress, OrderInv
      <3> QED
        BY <3>1, <3>2
    <2>13. DoneRowsAreLogged'
      <3> SUFFICES ASSUME ~DirectRows, NEW row \in Rows, \A u \in Threads : ~(call'[u].new /\ call'[u].row = row),
                          NEW m \in DOMAIN lists[row], lists[row][m] \notin LongNames
                   PROVE  LoggedIn(log', Len(log'), lists[row][m], row)
        BY <2>1 DEF DoneRowsAreLogged
      <3>1. CASE call[t].new /\ call[t].row = row
        <4>1. call[t].todo = <<>> /\ Len(call[t].todo) = 0
          BY <2>1, <3>1
        <4>2. k = Len(L) /\ m \in 1 .. k
          BY <1>0, <2>11, <3>1, <4>1
        <4> HIDE DEF k
        <4> QED
          BY <2>11, <3>1, <4>2
      <3>2. CASE ~(call[t].new /\ call[t].row = row)
        <4>1. \A u \in Threads : ~(call[u].new /\ call[u].row = row)
          BY <2>1, <3>2
        <4> QED
          BY <2>1, <2>5, <4>1 DEF DoneRowsAreLogged, OrderInv
      <3> QED
        BY <3>1, <3>2
    <2>14. OrderInLog'
      <3> SUFFICES ASSUME ~DirectRows, NEW n \in 0 .. Len(log'), NEW row \in Rows,
                          NEW i \in DOMAIN lists[row], NEW j \in DOMAIN lists[row],
                          i < j, lists[row][i] \notin LongNames, LoggedIn(log', n, lists[row][j], row)
                   PROVE  LoggedIn(log', n, lists[row][i], row)
        BY <2>1 DEF OrderInLog
      <3>0. n \in 0 .. Len(log) \/ n = Len(log) + 1
        BY <1>0, <2>3
      <3>1. CASE n \in 0 .. Len(log)
        BY <2>1, <2>3, <3>1 DEF OrderInLog, OrderInv
      <3>2. CASE n = Len(log) + 1 /\ LoggedIn(log, Len(log), lists[row][j], row)
        <4>1. Len(log) \in 0 .. Len(log)
          BY <1>0
        <4>2. LoggedIn(log, Len(log), lists[row][i], row)
          BY <2>1, <3>2, <4>1 DEF OrderInLog, OrderInv
        <4> QED
          BY <2>3, <3>2, <4>2
      <3>3. CASE n = Len(log) + 1 /\ r.prop = lists[row][j] /\ r.row = row
        <4>1. CASE call[t].new
          <5>1. k \in DOMAIN L /\ L = lists[row] /\ row = call[t].row
            BY <1>0, <2>2, <2>11, <3>3, <4>1
          <5>2. k = j
            <6>1. lists[row][k] = lists[row][j]
              BY <2>11, <3>3, <4>1, <5>1
            <6>2. k \in DOMAIN lists[row] /\ j \in DOMAIN lists[row]
              BY <5>1
            <6> HIDE DEF k, L
            <6> QED
              BY <6>1, <6>2 DEF ListsAreDistinct, OrderInv
          <5>3. i \in 1 .. k - 1
            BY <1>0, <5>1, <5>2
          <5> HIDE DEF k, L
          <5>4. LoggedIn(log, Len(log), L[i], call[t].row)
            BY <2>11, <4>1, <5>1, <5>3
          <5> QED
            BY <2>3, <3>3, <5>1, <5>4
        <4>2. CASE ~call[t].new
          <5>1. \A u \in Threads : ~(call[u].new /\ call[u].row = row)
            BY <2>2, <3>3, <4>2 DEF GivenRowsAreDone, OrderInv
          <5>2. LoggedIn(log, Len(log), lists[row][i], row)
            BY <2>1, <5>1 DEF DoneRowsAreLogged, OrderInv
          <5> QED
            BY <2>3, <3>3, <5>2
        <4> QED
          BY <4>1, <4>2
      <3> QED
        BY <2>3, <3>0, <3>1, <3>2, <3>3
    <2> QED
      BY <2>8, <2>9, <2>10, <2>12, <2>13, <2>14 DEF OrderInv
  <1> QED
    BY <1>1, <1>2, <1>3, <1>4, <1>5, <1>6, <1>7, <1>8, StepIs

\* Wherever a crash cuts the log, of a row that is being inserted the first
\* properties are left and never a later one alone: for any number of threads
\* and any interleaving of their sends.
THEOREM RowsComeBackInOrder == Spec => []RowsRecoverInOrder
  <1>1. Init => RowsAreDistinct /\ RowsAreCounted /\ OrderInv
    <2> SUFFICES ASSUME Init PROVE RowsAreDistinct /\ RowsAreCounted /\ OrderInv
      OBVIOUS
    <2>1. \A t \in Threads : ~call[t].new /\ call[t].send = <<>>
      BY DEF Init, Idle
    <2>2. \A p \in Props : Len(columns[p]) <= next_row
      BY DEF Init, Empty
    <2>3. log = <<>> /\ \A row \in Rows : lists[row] = <<>> /\ DOMAIN lists[row] = {}
      BY DEF Init
    <2>4. FreshRowsAreUnknown /\ GivenRowsAreDone /\ Progress
      BY <2>1, <2>3 DEF FreshRowsAreUnknown, GivenRowsAreDone, Progress
    <2>5. DoneRowsAreLogged /\ ListsAreDistinct /\ OrderInLog
      BY <2>3 DEF DoneRowsAreLogged, ListsAreDistinct, OrderInLog
    <2> QED
      BY <2>1, <2>2, <2>4, <2>5 DEF RowsAreDistinct, RowsAreCounted, OrderInv
  <1>2. TypeInv /\ RowsAreDistinct /\ RowsAreCounted /\ OrderInv /\ [Next]_vars
            => RowsAreDistinct' /\ RowsAreCounted' /\ OrderInv'
    BY RowStep, TypeStep, OrderStep
  <1>3. TypeInv /\ OrderInv => RowsRecoverInOrder
    <2> SUFFICES ASSUME TypeInv, OrderInv, up, ~DirectRows, NEW n \in synced .. Len(log), NEW row \in Rows,
                        NEW i \in DOMAIN lists[row], NEW j \in DOMAIN lists[row],
                        i < j, lists[row][i] \notin LongNames, Logged(n, lists[row][j], row)
                 PROVE  Logged(n, lists[row][i], row)
      BY DEF RowsRecoverInOrder
    <2>1. n \in 0 .. Len(log)
      BY DEF TypeInv, TypeOK
    <2>2. LoggedIn(log, n, lists[row][j], row)
      BY DEF Logged, LoggedIn
    <2>3. LoggedIn(log, n, lists[row][i], row)
      BY <2>1, <2>2 DEF OrderInLog, OrderInv
    <2> QED
      BY <2>3 DEF Logged, LoggedIn
  <1> QED
    BY <1>1, <1>2, <1>3, AlwaysTypeInv, PTL DEF Spec

=============================================================================
