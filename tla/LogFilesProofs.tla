--------------------------- MODULE LogFilesProofs ---------------------------
(***************************************************************************)
(* The log file under each of the three loggers: what a sync has vouched   *)
(* for is delivered by every later replay, in the order of the writes, and *)
(* only a crash or a disk error leaves a file that replay does not         *)
(* understand.                                                             *)
(*                                                                         *)
(* The argument is about bytes.  A stretch of bytes is laid out in frames: *)
(* numbers at[1], at[2], ... of the bytes at which the records rs[1],      *)
(* rs[2], ... begin.  A file that the loggers have written is the          *)
(* beginning of a header followed by such frames (Covers); replay delivers *)
(* exactly the frames that are complete, and a crash or a failed write     *)
(* only takes bytes from the end.                                          *)
(***************************************************************************)
EXTENDS LogFiles, SequenceTheorems, WellFoundedInduction, TLAPS

Byte == 0 .. 255

-----------------------------------------------------------------------------
(* Induction and sequences                                                 *)

\* Every nonempty set of naturals has a least element.
LEMMA LeastNatural == ASSUME NEW T \in SUBSET Nat, T # {} PROVE \E x \in T : \A y \in T : x <= y
  <1> DEFINE R == {ss \in Nat \X Nat : ss[1] < ss[2]}
  <1>1. IsWellFoundedOn(R, Nat)
    BY NatLessThanWellFounded, Zenon DEF OpToRel
  <1>2. PICK x \in T : \A y \in T : ~(<<y, x>> \in R)
    <2> HIDE DEF R
    <2> QED
      BY <1>1, WFMin
  <1>3. \A y \in T : ~(y < x)
    BY <1>2
  <1> QED
    BY <1>3

\* A set with 0 that is closed under successors up to N has all up to N.
LEMMA UpTo ==
  ASSUME NEW N \in Nat, NEW S, 0 \in S, \A n \in 0 .. N - 1 : n \in S => n + 1 \in S
  PROVE  \A n \in 0 .. N : n \in S
  <1> SUFFICES ASSUME NEW m \in 0 .. N, m \notin S PROVE FALSE
    OBVIOUS
  <1> DEFINE T == {n \in 0 .. N : n \notin S}
  <1>1. T \in SUBSET Nat /\ T # {}
    OBVIOUS
  <1>2. PICK x \in T : \A y \in T : x <= y
    <2> HIDE DEF T
    <2> QED
      BY <1>1, LeastNatural
  <1>3. x \in 1 .. N /\ x - 1 \in 0 .. N - 1 /\ (x - 1) + 1 = x
    BY <1>2
  <1>4. x - 1 \in S
    BY <1>2, <1>3
  <1> QED
    BY <1>2, <1>3, <1>4

\* A concatenation, byte by byte.
LEMMA Joined ==
  ASSUME NEW s \in Seq(Byte), NEW t \in Seq(Byte)
  PROVE  /\ s \o t \in Seq(Byte) /\ Len(s \o t) = Len(s) + Len(t) /\ Len(s) \in Nat /\ Len(t) \in Nat
         /\ \A i \in 1 .. Len(s) : (s \o t)[i] = s[i]
         /\ \A i \in 1 .. Len(t) : (s \o t)[Len(s) + i] = t[i]
         /\ \A i \in 1 .. Len(s) + Len(t) :
               i \in 1 .. Len(s) \/ (i - Len(s) \in 1 .. Len(t) /\ i = Len(s) + (i - Len(s)))
  <1>1. /\ s \o t \in Seq(Byte) /\ Len(s \o t) = Len(s) + Len(t) /\ Len(s) \in Nat /\ Len(t) \in Nat
        /\ \A i \in 1 .. Len(s) + Len(t) : (s \o t)[i] = IF i <= Len(s) THEN s[i] ELSE t[i - Len(s)]
    BY ConcatProperties, LenProperties
  <1>2. \A i \in 1 .. Len(s) : i \in 1 .. Len(s) + Len(t) /\ i <= Len(s)
    BY <1>1
  <1>3. \A i \in 1 .. Len(t) :
           Len(s) + i \in 1 .. Len(s) + Len(t) /\ ~(Len(s) + i <= Len(s)) /\ (Len(s) + i) - Len(s) = i
    BY <1>1
  <1>4. \A i \in 1 .. Len(s) : (s \o t)[i] = s[i]
    BY <1>1, <1>2
  <1>5. \A i \in 1 .. Len(t) : (s \o t)[Len(s) + i] = t[i]
    BY <1>1, <1>3
  <1>6. \A i \in 1 .. Len(s) + Len(t) :
           i \in 1 .. Len(s) \/ (i - Len(s) \in 1 .. Len(t) /\ i = Len(s) + (i - Len(s)))
    BY <1>1
  <1> QED
    BY <1>1, <1>4, <1>5, <1>6

-----------------------------------------------------------------------------
(* One frame                                                               *)

\* The bytes of a frame: length, opcode, the id of wal_thread, payload.
Size(kd, r) == 4 + (IF kd = "wal_thread" THEN 9 ELSE 1) + (IF r.op = 1 THEN 2 ELSE 1)

\* The four bytes of a small number.
LEMMA SmallNumber ==
  ASSUME NEW n \in Byte
  PROVE  /\ le32(n) \in Seq(Byte) /\ Len(le32(n)) = 4 /\ le32(n)[1] = n
         /\ le32(n)[2] = 0 /\ le32(n)[3] = 0 /\ le32(n)[4] = 0
  <1>1. n % 256 = n /\ (n \div 256) % 256 = 0 /\ (n \div 65536) % 256 = 0 /\ n \div 16777216 = 0
    BY DEF Byte
  <1>2. le32(n) = <<n, 0, 0, 0>>
    BY <1>1 DEF le32
  <1> QED
    BY <1>2 DEF Byte

\* The body of a frame.
LEMMA BodyIs ==
  ASSUME NEW kd \in Kinds, NEW r \in Record
  PROVE  /\ Body(kd, r) \in Seq(Byte) /\ Len(Body(kd, r)) = Size(kd, r) - 4
         /\ Body(kd, r)[1] = r.op /\ Body(kd, r)[2] = r.w
         /\ kd = "wal_thread" =>
               Body(kd, r)[3] = 0 /\ Body(kd, r)[4] = 0 /\ Body(kd, r)[5] = 0
  <1>1. r.op \in Ops /\ r.w \in Byte /\ r.op \in Byte
    BY DEF Record, Ops, Byte
  <1>2. /\ Payload(r) \in Seq(Byte) /\ Payload(r)[1] = r.w
        /\ Len(Payload(r)) = (IF r.op = 1 THEN 2 ELSE 1)
    BY <1>1 DEF Payload
  <1>3. <<r.op>> \in Seq(Byte) /\ Len(<<r.op>>) = 1 /\ <<r.op>>[1] = r.op
    BY <1>1
  <1> DEFINE o == <<r.op>>
             y == Payload(r)
             e == le64(r.w)
  <1>4. /\ e \in Seq(Byte) /\ Len(e) = 8 /\ e[1] = r.w /\ e[2] = 0 /\ e[3] = 0 /\ e[4] = 0
    <2> DEFINE z == <<0, 0, 0, 0>>
               l == le32(r.w)
    <2>1. z \in Seq(Byte) /\ Len(z) = 4
      BY DEF Byte
    <2>2. l \in Seq(Byte) /\ Len(l) = 4 /\ l[1] = r.w /\ l[2] = 0 /\ l[3] = 0 /\ l[4] = 0
      BY <1>1, SmallNumber
    <2>3. e = l \o z
      BY DEF le64
    <2> HIDE DEF z, l, e
    <2>4. e \in Seq(Byte) /\ Len(e) = Len(l) + Len(z) /\ \A i \in 1 .. Len(l) : e[i] = l[i]
      BY <2>1, <2>2, <2>3, Joined
    <2> QED
      BY <2>1, <2>2, <2>4
  <1>5. /\ o \in Seq(Byte) /\ Len(o) = 1 /\ o[1] = r.op /\ y \in Seq(Byte) /\ y[1] = r.w
        /\ Len(y) = (IF r.op = 1 THEN 2 ELSE 1)
    BY <1>2, <1>3
  <1>6. /\ kd = "wal_thread" => Body(kd, r) = (o \o e) \o y
        /\ kd # "wal_thread" => Body(kd, r) = o \o y
    BY DEF Body, Kinds
  <1> HIDE DEF o, y, e
  <1>7. CASE kd = "wal_thread"
    <2> DEFINE oe == o \o e
    <2>1. /\ oe \in Seq(Byte) /\ Len(oe) = 9 /\ \A i \in 1 .. 1 : oe[i] = o[i]
          /\ \A i \in 1 .. 8 : oe[1 + i] = e[i]
      <3>1. /\ oe \in Seq(Byte) /\ Len(oe) = Len(o) + Len(e) /\ \A i \in 1 .. Len(o) : oe[i] = o[i]
            /\ \A i \in 1 .. Len(e) : oe[Len(o) + i] = e[i]
        BY <1>4, <1>5, Joined
      <3> QED
        BY <3>1, <1>4, <1>5, SMTT(30)
    <2> HIDE DEF oe
    <2>2. /\ oe[1] = r.op /\ oe[2] = r.w /\ oe[3] = 0 /\ oe[4] = 0 /\ oe[5] = 0
      <3>1. oe[1] = o[1] /\ oe[1 + 1] = e[1] /\ oe[1 + 2] = e[2] /\ oe[1 + 3] = e[3] /\ oe[1 + 4] = e[4]
        BY <2>1
      <3> QED
        BY <3>1, <1>4, <1>5
    <2> DEFINE w == oe \o y
    <2>3. w \in Seq(Byte) /\ Len(w) = Len(oe) + Len(y) /\ \A i \in 1 .. Len(oe) : w[i] = oe[i]
      BY <1>5, <2>1, Joined
    <2>4. Body(kd, r) = w
      BY <1>6, <1>7 DEF oe
    <2> HIDE DEF w
    <2>5. w[1] = r.op /\ w[2] = r.w /\ w[3] = 0 /\ w[4] = 0 /\ w[5] = 0
      BY <2>1, <2>2, <2>3
    <2>6. Len(w) = Size(kd, r) - 4
      BY <1>1, <1>5, <1>7, <2>1, <2>3 DEF Size, Ops
    <2> QED
      BY <2>3, <2>4, <2>5, <2>6
  <1>8. CASE kd # "wal_thread"
    <2> DEFINE w == o \o y
    <2>1. /\ w \in Seq(Byte) /\ Len(w) = Len(o) + Len(y) /\ \A i \in 1 .. Len(o) : w[i] = o[i]
          /\ \A i \in 1 .. Len(y) : w[Len(o) + i] = y[i]
      BY <1>5, Joined
    <2>2. Body(kd, r) = w
      BY <1>6, <1>8
    <2> HIDE DEF w
    <2>3. w[1] = o[1] /\ w[1 + 1] = y[1]
      <3>1. Len(o) = 1 /\ Len(y) \in {1, 2}
        BY <1>5
      <3> QED
        BY <2>1, <3>1
    <2>4. Len(w) = Size(kd, r) - 4
      BY <1>1, <1>5, <1>8, <2>1 DEF Size, Ops
    <2> QED
      BY <1>5, <1>8, <2>1, <2>2, <2>3, <2>4
  <1> QED
    BY <1>7, <1>8

\* A frame: its length, what its length field says, and what is behind it.
LEMMA EncodeIs ==
  ASSUME NEW kd \in Kinds, NEW r \in Record
  PROVE  LET e == encode(kd, r) IN
         /\ e \in Seq(Byte) /\ Len(e) = Size(kd, r)
         /\ e[1] = Size(kd, r) - 4 - Uncounted(kd) /\ e[2] = 0 /\ e[3] = 0 /\ e[4] = 0
         /\ e[5] = r.op /\ e[6] = r.w
         /\ kd = "wal_thread" => e[7] = 0 /\ e[8] = 0 /\ e[9] = 0
  <1> DEFINE n == Len(Body(kd, r)) - Uncounted(kd)
             l == le32(n)
             b == Body(kd, r)
             e == encode(kd, r)
  <1>1. /\ b \in Seq(Byte) /\ Len(b) = Size(kd, r) - 4 /\ b[1] = r.op /\ b[2] = r.w
        /\ kd = "wal_thread" => b[3] = 0 /\ b[4] = 0 /\ b[5] = 0
    BY BodyIs
  <1>2. Size(kd, r) \in {6, 7, 14, 15} /\ (kd = "wal_thread" => Size(kd, r) \in {14, 15}) /\ Uncounted(kd) \in {0, 1}
    BY DEF Size, Uncounted
  <1>3. n \in Byte /\ n = Size(kd, r) - 4 - Uncounted(kd)
    <2>1. n = Size(kd, r) - 4 - Uncounted(kd)
      BY <1>1
    <2> DEFINE z == Size(kd, r)
               u == Uncounted(kd)
    <2>2. z \in {6, 7, 14, 15} /\ u \in {0, 1}
      BY <1>2
    <2> HIDE DEF z, u
    <2>3. z - 4 - u \in 0 .. 255
      BY <2>2
    <2> QED
      BY <2>1, <2>3 DEF Byte, z, u
  <1>4. l \in Seq(Byte) /\ Len(l) = 4 /\ l[1] = n /\ l[2] = 0 /\ l[3] = 0 /\ l[4] = 0
    <2> HIDE DEF n
    <2> QED
      BY <1>3, SmallNumber
  <1>5. e = l \o b
    BY DEF encode
  <1> HIDE DEF n, l, b, e
  <1>6. /\ e \in Seq(Byte) /\ Len(e) = Len(l) + Len(b) /\ \A i \in 1 .. Len(l) : e[i] = l[i]
        /\ \A i \in 1 .. Len(b) : e[Len(l) + i] = b[i]
    BY <1>1, <1>4, <1>5, Joined
  <1>7. e[1] = l[1] /\ e[2] = l[2] /\ e[3] = l[3] /\ e[4] = l[4]
    BY <1>4, <1>6
  <1>8. e[4 + 1] = b[1] /\ e[4 + 2] = b[2]
    BY <1>1, <1>2, <1>4, <1>6
  <1>9. kd = "wal_thread" => e[4 + 3] = b[3] /\ e[4 + 4] = b[4] /\ e[4 + 5] = b[5]
    BY <1>1, <1>2, <1>4, <1>6
  <1>10. Len(e) = Size(kd, r)
    BY <1>1, <1>2, <1>4, <1>6
  <1> QED
    BY <1>1, <1>3, <1>4, <1>6, <1>7, <1>8, <1>9, <1>10, SMTT(30) DEF e

-----------------------------------------------------------------------------
(* The loop of replay                                                      *)

\* A part of a sequence of bytes.
LEMMA PartOf ==
  ASSUME NEW b \in Seq(Byte), NEW p \in 1 .. Len(b) + 1, NEW q \in 0 .. Len(b), p <= q + 1
  PROVE  /\ SubSeq(b, p, q) \in Seq(Byte) /\ Len(SubSeq(b, p, q)) = q + 1 - p
         /\ \A i \in 1 .. q + 1 - p : SubSeq(b, p, q)[i] = b[p + i - 1]
  <1>1. Len(b) \in Nat
    OBVIOUS
  <1>2. CASE p <= q
    <2>1. \A i \in p .. q : i \in 1 .. Len(b) /\ b[i] \in Byte
      BY <1>1
    <2>2. SubSeq(b, p, q) = [i \in 1 .. q - p + 1 |-> b[i + p - 1]]
      BY DEF SubSeq
    <2>3. q - p + 1 \in Nat /\ q - p + 1 = q + 1 - p
      BY <1>1, <1>2
    <2>4. \A i \in 1 .. q - p + 1 : i + p - 1 \in p .. q /\ i + p - 1 = p + i - 1
      BY <1>1
    <2>5. SubSeq(b, p, q) \in [1 .. q - p + 1 -> Byte]
      BY <2>1, <2>2, <2>4
    <2>6. SubSeq(b, p, q) \in Seq(Byte) /\ Len(SubSeq(b, p, q)) = q - p + 1
      BY <2>3, <2>5, LenProperties, SeqDef
    <2> QED
      BY <2>2, <2>3, <2>4, <2>6
  <1>3. CASE p = q + 1
    <2>1. SubSeq(b, p, q) = <<>>
      BY <1>1, <1>3
    <2> QED
      BY <1>1, <1>3, <2>1
  <1> QED
    BY <1>1, <1>2, <1>3

\* A round that reads a length looks further on in the file.
LEMMA NextIsAhead ==
  ASSUME NEW kd \in Kinds, NEW b \in Seq(Byte), NEW p \in 1 .. Len(b) + 1, Len(b) + 1 - p >= 4
  PROVE  /\ LenAt(b, p) = b[p] + 256 * b[p + 1] + 65536 * b[p + 2] + 16777216 * b[p + 3]
         /\ LenAt(b, p) \in Nat /\ NextAt(kd, b, p) \in Nat /\ NextAt(kd, b, p) > p
  <1>1. Len(b) \in Nat /\ p + 3 \in 0 .. Len(b) /\ p <= (p + 3) + 1 /\ (p + 3) + 1 - p = 4
    OBVIOUS
  <1>2. \A i \in 1 .. 4 : SubSeq(b, p, p + 3)[i] = b[p + i - 1]
    BY <1>1, PartOf
  <1>3. SubSeq(b, p, p + 3)[1] = b[p + 1 - 1] /\ SubSeq(b, p, p + 3)[2] = b[p + 2 - 1]
        /\ SubSeq(b, p, p + 3)[3] = b[p + 3 - 1] /\ SubSeq(b, p, p + 3)[4] = b[p + 4 - 1]
    BY <1>2
  <1>4. p + 1 - 1 = p /\ p + 2 - 1 = p + 1 /\ p + 3 - 1 = p + 2 /\ p + 4 - 1 = p + 3
    BY <1>1
  <1>5. LenAt(b, p) = b[p] + 256 * b[p + 1] + 65536 * b[p + 2] + 16777216 * b[p + 3]
    BY <1>3, <1>4 DEF LenAt, from_le
  <1>6. b[p] \in Nat /\ b[p + 1] \in Nat /\ b[p + 2] \in Nat /\ b[p + 3] \in Nat
    <2>1. p \in 1 .. Len(b) /\ p + 1 \in 1 .. Len(b) /\ p + 2 \in 1 .. Len(b) /\ p + 3 \in 1 .. Len(b)
      BY <1>1
    <2>2. \A i \in 1 .. Len(b) : b[i] \in Byte
      OBVIOUS
    <2>3. \A x \in Byte : x \in Nat
      BY DEF Byte
    <2> QED
      BY <2>1, <2>2, <2>3
  <1>7. LenAt(b, p) \in Nat
    <2> DEFINE c == b[p]
               d == b[p + 1]
               e == b[p + 2]
               g == b[p + 3]
    <2>1. c \in Nat /\ d \in Nat /\ e \in Nat /\ g \in Nat
      BY <1>6
    <2>2. LenAt(b, p) = c + 256 * d + 65536 * e + 16777216 * g
      BY <1>5
    <2> HIDE DEF c, d, e, g
    <2> QED
      BY <2>1, <2>2
  <1>8. Uncounted(kd) \in Nat
    BY DEF Uncounted
  <1> QED
    BY <1>1, <1>5, <1>7, <1>8 DEF NextAt

\* The loop is what its recursion says.
LEMMA LoopIs ==
  ASSUME NEW kd \in Kinds, NEW b \in Seq(Byte)
  PROVE  \A p \in 1 .. Len(b) + 1 :
            ReplayLoop(kd, b)[p] = Round(kd, b, p, ReplayLoop(kd, b)[NextAt(kd, b, p)])
  <1> DEFINE L == Len(b) + 1
             Nx(p) == NextAt(kd, b, p)
             Ends(p) == L - p < 4
             Bad(p) == Fails(kd, b, p)
             Rd(p, r) == Round(kd, b, p, r)
             E(f, p) == Rd(p, f[Nx(p)])
             Step(f) == [p \in 1 .. L |-> E(f, p)]
             Goes(f, k) == \A p \in L - k .. L : f[p] = E(f, p)
             S == {k \in 0 .. L - 1 : \E f : Goes(f, k)}
  <1>1. L \in Nat /\ L >= 1 /\ L - 1 \in Nat
    OBVIOUS
  <1>2. \A p \in 1 .. L : ~Ends(p) /\ ~Bad(p) => Nx(p) \in p + 1 .. L
    <2> SUFFICES ASSUME NEW p \in 1 .. L, ~Ends(p), ~Bad(p) PROVE Nx(p) \in p + 1 .. L
      OBVIOUS
    <2>1. Len(b) + 1 - p >= 4 /\ p \in 1 .. Len(b) + 1
      BY <1>1
    <2>2. Nx(p) \in Nat /\ Nx(p) > p
      BY <2>1, NextIsAhead
    <2>3. ~(Nx(p) > Len(b) + 1)
      BY DEF Fails
    <2> QED
      BY <1>1, <2>2, <2>3
  <1>3. \A p \in 1 .. L : Ends(p) \/ Bad(p) => \A r, s : Rd(p, r) = Rd(p, s)
    <2> SUFFICES ASSUME NEW p \in 1 .. L, NEW r, NEW s, Ends(p) \/ Bad(p) PROVE Rd(p, r) = Rd(p, s)
      OBVIOUS
    <2>1. CASE Ends(p)
      BY <2>1 DEF Round, Result
    <2>2. CASE Bad(p)
      BY <2>2 DEF Round, Result
    <2> QED
      BY <2>1, <2>2
  <1>4. ReplayLoop(kd, b) = CHOOSE h : h = Step(h)
    BY DEF ReplayLoop
  <1> HIDE DEF L, Nx, Ends, Bad, Rd
  <1>5. 0 \in S
    <2> DEFINE f == [p \in {L} |-> Rd(p, p)]
    <2>1. f[L] = E(f, L)
      <3>1. Ends(L) \/ Bad(L)
        BY <1>1, <1>2
      <3>2. f[L] = Rd(L, L)
        OBVIOUS
      <3> QED
        BY <1>1, <1>3, <3>1, <3>2
    <2> HIDE DEF f
    <2>2. Goes(f, 0)
      <3>1. \A p \in L - 0 .. L : p = L
        BY <1>1
      <3> QED
        BY <2>1, <3>1
    <2>3. 0 \in 0 .. L - 1
      BY <1>1
    <2> QED
      BY <2>2, <2>3
  <1>6. ASSUME NEW k \in 0 .. (L - 1) - 1, k \in S PROVE k + 1 \in S
    <2>1. PICK f : Goes(f, k)
      BY <1>6
    <2> DEFINE x == L - (k + 1)
               g == [p \in 1 .. L |-> IF p = x THEN E(f, x) ELSE f[p]]
    <2>2. x \in 1 .. L /\ k + 1 \in 0 .. L - 1 /\ x + 1 = L - k
      BY <1>1
    <2>3. g[x] = E(f, x) /\ \A p \in x + 1 .. L : g[p] = f[p]
      <3>1. \A p \in x + 1 .. L : p \in 1 .. L /\ p # x
        BY <1>1, <2>2
      <3> QED
        BY <2>2, <3>1
    <2> HIDE DEF g
    <2>4. ASSUME NEW p \in x .. L PROVE E(g, p) = E(f, p)
      <3>1. p \in 1 .. L /\ \A q \in p + 1 .. L : q \in x + 1 .. L
        BY <1>1, <2>2
      <3>2. ~Ends(p) /\ ~Bad(p) => g[Nx(p)] = f[Nx(p)]
        BY <1>2, <2>3, <3>1
      <3> QED
        BY <1>3, <3>1, <3>2
    <2>5. ASSUME NEW p \in x .. L PROVE g[p] = E(g, p)
      <3>1. CASE p = x
        <4>1. g[p] = E(f, p)
          BY <2>3, <3>1
        <4> QED
          BY <2>4, <2>5, <4>1
      <3>2. CASE p # x
        <4>1. p \in x + 1 .. L /\ p \in L - k .. L
          BY <1>1, <2>2, <2>5, <3>2
        <4>2. g[p] = f[p] /\ f[p] = E(f, p)
          BY <2>1, <2>3, <4>1
        <4> QED
          BY <2>4, <2>5, <4>2
      <3> QED
        BY <3>1, <3>2
    <2>6. Goes(g, k + 1)
      BY <2>5
    <2> QED
      BY <2>2, <2>6
  <1>7. PICK f : Goes(f, L - 1)
    <2>1. \A k \in 0 .. L - 1 : k \in S
      <3> HIDE DEF S
      <3> QED
        BY <1>1, <1>5, <1>6, UpTo
    <2>2. L - 1 \in 0 .. L - 1
      BY <1>1
    <2> QED
      BY <2>1, <2>2
  <1> DEFINE g == [p \in 1 .. L |-> f[p]]
  <1>8. g = Step(g)
    <2>1. \A p \in 1 .. L : p \in L - (L - 1) .. L /\ g[p] = f[p]
      BY <1>1
    <2> HIDE DEF g
    <2>2. \A p \in 1 .. L : E(g, p) = E(f, p)
      <3> SUFFICES ASSUME NEW p \in 1 .. L PROVE E(g, p) = E(f, p)
        OBVIOUS
      <3>1. ~Ends(p) /\ ~Bad(p) => Nx(p) \in 1 .. L
        BY <1>1, <1>2
      <3>2. ~Ends(p) /\ ~Bad(p) => g[Nx(p)] = f[Nx(p)]
        BY <2>1, <3>1
      <3> QED
        BY <1>3, <3>2
    <2>3. \A p \in 1 .. L : g[p] = E(g, p)
      BY <1>7, <2>1, <2>2
    <2>4. g = [p \in 1 .. L |-> g[p]]
      BY DEF g
    <2> QED
      BY <2>3, <2>4
  <1>9. ReplayLoop(kd, b) = Step(ReplayLoop(kd, b))
    <2> DEFINE P(h) == h = Step(h)
    <2>1. P(g) /\ ReplayLoop(kd, b) = CHOOSE h : P(h)
      BY <1>4, <1>8
    <2>2. P(CHOOSE h : P(h))
      <3> HIDE DEF P
      <3> QED
        BY <2>1
    <2> QED
      BY <2>1, <2>2
  <1>10. \A p \in 1 .. L : ReplayLoop(kd, b)[p] = E(ReplayLoop(kd, b), p)
    <2> DEFINE h == ReplayLoop(kd, b)
    <2>1. h = Step(h)
      BY <1>9
    <2> HIDE DEF h
    <2>2. \A p \in 1 .. L : h[p] = E(h, p)
      BY <2>1
    <2> QED
      BY <2>2 DEF h
  <1> QED
    BY <1>10 DEF L, Nx, Rd

-----------------------------------------------------------------------------
(* Frames in a row                                                         *)

\* As far as b goes, the bytes from p on are those of r's frame.
Starts(kd, b, p, r) ==
    \A q \in 1 .. Size(kd, r) : p + q - 1 <= Len(b) => b[p + q - 1] = encode(kd, r)[q]

\* A round of the loop at a frame: it finds the length, and the record when
\* the frame is complete.
LEMMA FrameRead ==
  ASSUME NEW kd \in Kinds, NEW b \in Seq(Byte), NEW r \in Record,
         NEW p \in 1 .. Len(b) + 1, Len(b) + 1 - p >= 4, Starts(kd, b, p, r)
  PROVE  /\ NextAt(kd, b, p) = p + Size(kd, r)
         /\ p + Size(kd, r) <= Len(b) + 1 =>
               ~Fails(kd, b, p) /\ Decoded(kd, BodyAt(kd, b, p)) = <<r>>
  <1> DEFINE e == encode(kd, r)
             z == Size(kd, r)
             u == Uncounted(kd)
  <1>1. /\ e[1] = z - 4 - u /\ e[2] = 0 /\ e[3] = 0 /\ e[4] = 0 /\ e[5] = r.op /\ e[6] = r.w
        /\ kd = "wal_thread" => e[7] = 0 /\ e[8] = 0 /\ e[9] = 0
    BY EncodeIs
  <1>2. /\ z \in {6, 7, 14, 15} /\ u \in {0, 1}
        /\ kd = "wal_thread" => z \in {14, 15} /\ u = 0
    BY DEF Size, Uncounted
  <1>3. \A q \in 1 .. z : p + q - 1 <= Len(b) => b[p + q - 1] = e[q]
    BY DEF Starts
  <1>4. Len(b) \in Nat /\ p \in Nat
    OBVIOUS
  <1>5. LenAt(b, p) = b[p] + 256 * b[p + 1] + 65536 * b[p + 2] + 16777216 * b[p + 3]
    BY NextIsAhead
  <1>6. /\ NextAt(kd, b, p) = p + 4 + LenAt(b, p) + u
        /\ BodyAt(kd, b, p) = SubSeq(b, p + 4, NextAt(kd, b, p) - 1)
    BY DEF NextAt, BodyAt
  <1>7. r.op \in Ops /\ r.op # 0 /\ r.w \in Nat /\ r = [op |-> r.op, w |-> r.w]
    <2>1. r.op \in Ops /\ r.w \in 1 .. 255 /\ r = [op |-> r.op, w |-> r.w]
      BY DEF Record
    <2>2. \A o \in Ops : o # 0
      BY DEF Ops
    <2>3. \A o \in 1 .. 255 : o \in Nat
      OBVIOUS
    <2> QED
      BY <2>1, <2>2, <2>3
  <1> HIDE DEF e, z, u
  <1>8. b[p] = z - 4 - u /\ b[p + 1] = 0 /\ b[p + 2] = 0 /\ b[p + 3] = 0
    <2>1. /\ b[p + 1 - 1] = e[1] /\ b[p + 2 - 1] = e[2] /\ b[p + 3 - 1] = e[3] /\ b[p + 4 - 1] = e[4]
      BY <1>2, <1>3, <1>4
    <2>2. p + 1 - 1 = p /\ p + 2 - 1 = p + 1 /\ p + 3 - 1 = p + 2 /\ p + 4 - 1 = p + 3
      BY <1>4
    <2> QED
      BY <1>1, <2>1, <2>2
  <1>9. LenAt(b, p) = z - 4 - u
    <2> DEFINE a == b[p]
               c == b[p + 1]
               d == b[p + 2]
               g == b[p + 3]
    <2>1. LenAt(b, p) = a + 256 * c + 65536 * d + 16777216 * g
      BY <1>5
    <2>2. a = z - 4 - u /\ c = 0 /\ d = 0 /\ g = 0
      BY <1>8
    <2> HIDE DEF a, c, d, g
    <2> QED
      BY <1>2, <2>1, <2>2
  <1>10. NextAt(kd, b, p) = p + z
    BY <1>2, <1>4, <1>6, <1>9
  <1>11. ASSUME p + z <= Len(b) + 1
         PROVE  ~Fails(kd, b, p) /\ Decoded(kd, BodyAt(kd, b, p)) = <<r>>
    <2> DEFINE y == BodyAt(kd, b, p)
    <2>1. y = SubSeq(b, p + 4, (p + z) - 1)
      BY <1>6, <1>10
    <2>2. /\ y \in Seq(Byte) /\ Len(y) = z - 4
          /\ \A i \in 1 .. z - 4 : y[i] = b[p + 4 + i - 1]
      <3> DEFINE f == p + 4
                 t == (p + z) - 1
      <3>1. f \in 1 .. Len(b) + 1 /\ t \in 0 .. Len(b) /\ f <= t + 1 /\ t + 1 - f = z - 4
        BY <1>2, <1>4, <1>11
      <3>2. y = SubSeq(b, f, t)
        BY <2>1
      <3>3. /\ SubSeq(b, f, t) \in Seq(Byte) /\ Len(SubSeq(b, f, t)) = t + 1 - f
            /\ \A i \in 1 .. t + 1 - f : SubSeq(b, f, t)[i] = b[f + i - 1]
        <4> HIDE DEF f, t
        <4> QED
          BY <3>1, PartOf
      <3> QED
        BY <3>1, <3>2, <3>3
    <2> HIDE DEF y
    <2>3. \A i \in 1 .. z - 4 : y[i] = e[4 + i]
      <3> SUFFICES ASSUME NEW i \in 1 .. z - 4 PROVE y[i] = e[4 + i]
        OBVIOUS
      <3>1. p + 4 + i - 1 = p + (4 + i) - 1 /\ 4 + i \in 1 .. z /\ p + (4 + i) - 1 <= Len(b)
        BY <1>2, <1>4, <1>11
      <3> QED
        BY <1>3, <2>2, <3>1
    <2>4. y[1] = r.op /\ y[2] = r.w
      <3>1. y[1] = e[4 + 1] /\ y[2] = e[4 + 2]
        BY <1>2, <2>3
      <3> QED
        BY <1>1, <3>1
    <2>5. kd = "wal_thread" => from_le(SubSeq(y, 2, 5)) = r.w
      <3> SUFFICES ASSUME kd = "wal_thread" PROVE from_le(SubSeq(y, 2, 5)) = r.w
        OBVIOUS
      <3>1. y[2] = e[4 + 2] /\ y[3] = e[4 + 3] /\ y[4] = e[4 + 4] /\ y[5] = e[4 + 5]
        BY <1>2, <2>3
      <3>2. y[2] = r.w /\ y[3] = 0 /\ y[4] = 0 /\ y[5] = 0
        BY <1>1, <3>1
      <3> DEFINE x == SubSeq(y, 2, 5)
      <3>3. \A i \in 1 .. 4 : x[i] = y[2 + i - 1]
        <4>1. 2 \in 1 .. Len(y) + 1 /\ 5 \in 0 .. Len(y) /\ 2 <= 5 + 1 /\ 5 + 1 - 2 = 4
          BY <1>2, <2>2
        <4> QED
          BY <2>2, <4>1, PartOf
      <3> HIDE DEF x
      <3>4. x[1] = y[2] /\ x[2] = y[3] /\ x[3] = y[4] /\ x[4] = y[5]
        <4>1. x[1] = y[2 + 1 - 1] /\ x[2] = y[2 + 2 - 1] /\ x[3] = y[2 + 3 - 1] /\ x[4] = y[2 + 4 - 1]
          BY <3>3
        <4> QED
          BY <4>1
      <3>5. from_le(x) = x[1] + 256 * x[2] + 65536 * x[3] + 16777216 * x[4]
        BY DEF from_le
      <3>6. x[1] = r.w /\ x[2] = 0 /\ x[3] = 0 /\ x[4] = 0
        BY <3>2, <3>4
      <3> DEFINE a == x[1]
                 c == x[2]
                 d == x[3]
                 g == x[4]
                 w == r.w
      <3>7. from_le(x) = a + 256 * c + 65536 * d + 16777216 * g
        BY <3>5
      <3>8. a = w /\ c = 0 /\ d = 0 /\ g = 0 /\ w \in Nat
        BY <1>7, <3>6
      <3> HIDE DEF a, c, d, g, w
      <3>9. from_le(x) = w
        BY <3>7, <3>8
      <3> QED
        BY <3>9 DEF x, w
    <2>6. Decoded(kd, y) = <<r>>
      <3>1. ~(kd = "store_log" /\ y[1] = 0)
        BY <1>7, <2>4
      <3>2. (IF kd = "wal_thread" THEN from_le(SubSeq(y, 2, 5)) ELSE y[2]) = r.w
        BY <2>4, <2>5
      <3>3. Decoded(kd, y) = <<[op |-> r.op, w |-> r.w]>>
        BY <2>4, <3>1, <3>2 DEF Decoded
      <3> QED
        BY <1>7, <3>3
    <2>7. ~TooShort(kd, LenAt(b, p))
      <3>1. kd = "wal_thread" => ~(LenAt(b, p) < 9)
        BY <1>2, <1>9
      <3> QED
        BY <3>1 DEF TooShort
    <2>8. ~(NextAt(kd, b, p) > Len(b) + 1)
      BY <1>2, <1>4, <1>10, <1>11
    <2>9. Deserializes(y)
      BY <1>2, <1>7, <2>2, <2>4, SMTT(30) DEF Deserializes
    <2>10. ~Fails(kd, b, p)
      BY <2>7, <2>8, <2>9 DEF Fails, y
    <2> QED
      BY <2>6, <2>10 DEF y
  <1> QED
    BY <1>10, <1>11 DEF z

\* at[1 .. n + 1] are the places of the records rs[1 .. n], from p on.
Lays(kd, p, n, at, rs) ==
    /\ n \in Nat /\ at[1] = p
    /\ \A i \in 1 .. n + 1 : at[i] \in Nat \ {0}
    /\ \A i \in 1 .. n : rs[i] \in Record /\ at[i + 1] = at[i] + Size(kd, rs[i])

\* At each place is, as far as b goes, the frame.
Holds(kd, b, n, at, rs) == \A i \in 1 .. n : Starts(kd, b, at[i], rs[i])

\* b begins the header and n frames.
Covers(kd, b, n, at, rs) ==
    /\ Lays(kd, Len(Header(kd)) + 1, n, at, rs)
    /\ Holds(kd, b, n, at, rs)
    /\ Len(b) + 1 <= at[n + 1]
    /\ \A q \in 1 .. Len(Header(kd)) : q <= Len(b) => b[q] = Header(kd)[q]

\* b is n frames, without a header.
Piece(kd, b, n, at, rs) ==
    /\ Lays(kd, 1, n, at, rs)
    /\ Holds(kd, b, n, at, rs)
    /\ at[n + 1] = Len(b) + 1

\* The places follow one another.
LEMMA Rising ==
  ASSUME NEW kd, NEW p, NEW n, NEW at, NEW rs, Lays(kd, p, n, at, rs)
  PROVE  \A i, j \in 1 .. n + 1 : i < j => at[i] < at[j]
  <1> DEFINE S == {d \in 0 .. n : \A i \in 1 .. n + 1 : i + d <= n + 1 => at[i] + d <= at[i + d]}
  <1>1. /\ n \in Nat
        /\ \A i \in 1 .. n + 1 : at[i] \in Nat
        /\ \A i \in 1 .. n : at[i] + 1 <= at[i + 1]
    <2>1. \A i \in 1 .. n : rs[i] \in Record /\ at[i + 1] = at[i] + Size(kd, rs[i]) /\ at[i] \in Nat
      BY DEF Lays
    <2>2. \A i \in 1 .. n : Size(kd, rs[i]) \in {6, 7, 14, 15}
      BY DEF Size
    <2>3. \A i \in 1 .. n : at[i] + 1 <= at[i + 1]
      BY <2>1, <2>2
    <2> QED
      BY <2>3 DEF Lays
  <1>2. 0 \in S
    <2>1. \A i \in 1 .. n + 1 : i + 0 = i /\ at[i] + 0 = at[i] /\ at[i] <= at[i]
      BY <1>1
    <2> QED
      BY <1>1, <2>1
  <1>3. ASSUME NEW d \in 0 .. n - 1, d \in S PROVE d + 1 \in S
    <2>1. ASSUME NEW i \in 1 .. n + 1, i + (d + 1) <= n + 1
          PROVE  at[i] + (d + 1) <= at[i + (d + 1)]
      <3>1. i + d \in 1 .. n /\ i + d <= n + 1 /\ (i + d) + 1 = i + (d + 1)
        BY <1>1, <2>1
      <3>2. at[i] + d <= at[i + d]
        BY <1>3, <3>1
      <3>3. at[i + d] + 1 <= at[i + (d + 1)]
        BY <1>1, <3>1
      <3>4. at[i] \in Nat /\ at[i + d] \in Nat /\ at[i + (d + 1)] \in Nat
        <4>1. i + d \in 1 .. n + 1 /\ i + (d + 1) \in 1 .. n + 1
          BY <1>1, <2>1
        <4> QED
          BY <1>1, <4>1
      <3> QED
        BY <3>2, <3>3, <3>4
    <2>2. d + 1 \in 0 .. n
      BY <1>1
    <2> QED
      BY <2>1, <2>2
  <1>4. \A d \in 0 .. n : d \in S
    <2> HIDE DEF S
    <2> QED
      BY <1>1, <1>2, <1>3, UpTo
  <1> SUFFICES ASSUME NEW i \in 1 .. n + 1, NEW j \in 1 .. n + 1, i < j PROVE at[i] < at[j]
    OBVIOUS
  <1>5. j - i \in 0 .. n /\ j - i >= 1 /\ i + (j - i) = j /\ at[i] \in Nat /\ at[j] \in Nat
    BY <1>1
  <1>6. at[i] + (j - i) <= at[j]
    BY <1>4, <1>5
  <1> QED
    BY <1>5, <1>6

\* The header has four bytes or none.
LEMMA HeaderIs ==
  ASSUME NEW kd \in Kinds
  PROVE  /\ Header(kd) \in Seq(Byte) /\ Len(Header(kd)) \in {0, 4}
         /\ Len(Header(kd)) = 0 <=> Header(kd) = <<>>
         /\ kd # "wal_writer" => Len(Header(kd)) = 4
  <1>1. MAGIC \in Seq(Byte) /\ Len(MAGIC) = 4
    BY DEF MAGIC, Byte
  <1>2. CASE kd = "wal_writer"
    <2>1. Header(kd) = <<>>
      BY <1>2 DEF Header
    <2>2. <<>> \in Seq(Byte) /\ Len(<<>>) = 0
      OBVIOUS
    <2>3. Header(kd) \in Seq(Byte) /\ Len(Header(kd)) = 0
      BY <2>1, <2>2
    <2> QED
      BY <1>2, <2>1, <2>3
  <1>3. CASE kd # "wal_writer"
    <2>1. Header(kd) = MAGIC
      BY <1>3 DEF Header
    <2>2. MAGIC # <<>>
      BY <1>1
    <2> QED
      BY <1>1, <1>3, <2>1, <2>2
  <1> QED
    BY <1>2, <1>3

\* Of the frames that b begins, m are complete.
Complete(b, n, at, m) ==
    /\ m \in 0 .. n /\ at[m + 1] <= Len(b) + 1
    /\ m = n \/ at[m + 2] > Len(b) + 1

\* When the header is complete there is such a number.
LEMMA SomeComplete ==
  ASSUME NEW kd \in Kinds, NEW b \in Seq(Byte), NEW n, NEW at, NEW rs,
         Covers(kd, b, n, at, rs), Len(Header(kd)) <= Len(b)
  PROVE  \E m : Complete(b, n, at, m)
  <1> SUFFICES ASSUME \A m : ~Complete(b, n, at, m) PROVE FALSE
    OBVIOUS
  <1> DEFINE S == {m \in 0 .. n : at[m + 1] <= Len(b) + 1}
  <1>1. /\ n \in Nat /\ at[1] = Len(Header(kd)) + 1 /\ Len(Header(kd)) \in Nat
        /\ \A i \in 1 .. n + 1 : at[i] \in Nat
    BY HeaderIs DEF Covers, Lays
  <1>2. Len(b) \in Nat
    OBVIOUS
  <1>3. 0 \in S
    BY <1>1, <1>2
  <1>4. ASSUME NEW m \in 0 .. n - 1, m \in S PROVE m + 1 \in S
    <2>1. ~(at[m + 2] > Len(b) + 1)
      BY <1>4, <1>1 DEF Complete
    <2>2. m + 2 \in 1 .. n + 1 /\ m + 1 \in 0 .. n /\ (m + 1) + 1 = m + 2
      BY <1>1
    <2> QED
      BY <1>1, <1>2, <2>1, <2>2
  <1>5. \A m \in 0 .. n : m \in S
    <2> HIDE DEF S
    <2> QED
      BY <1>1, <1>3, <1>4, UpTo
  <1>6. n \in 0 .. n
    BY <1>1
  <1> QED
    BY <1>5, <1>6 DEF Complete

\* The loop, begun at the last but k of m frames, delivers those k.
LoopGives(kd, b, at, rs, m, k) ==
    LET R == ReplayLoop(kd, b)[at[m + 1 - k]] IN
    /\ R.ok \in BOOLEAN /\ R.tail = (Len(b) + 1) - at[m + 1] /\ (R.tail = 0 => R.ok)
    /\ R.recs \in Seq(Record) /\ Len(R.recs) = k
    /\ \A j \in 1 .. k : R.recs[j] = rs[(m - k) + j]

\* What the loop returns at the place of a frame: the complete ones from
\* there on.
LEMMA LoopAtFrame ==
  ASSUME NEW kd \in Kinds, NEW b \in Seq(Byte), NEW n, NEW at, NEW rs, NEW m,
         Covers(kd, b, n, at, rs), Complete(b, n, at, m)
  PROVE  \A k \in 0 .. m : LoopGives(kd, b, at, rs, m, k)
  <1> DEFINE F == ReplayLoop(kd, b)
             L == Len(b) + 1
             Good(R, k) ==
                 /\ R.ok \in BOOLEAN /\ R.tail = L - at[m + 1] /\ (R.tail = 0 => R.ok)
                 /\ R.recs \in Seq(Record) /\ Len(R.recs) = k
                 /\ \A j \in 1 .. k : R.recs[j] = rs[(m - k) + j]
             S == {k \in 0 .. m : Good(F[at[m + 1 - k]], k)}
  <1>1. /\ n \in Nat /\ m \in 0 .. n /\ m \in Nat /\ L \in Nat
        /\ at[m + 1] <= L /\ (m = n \/ at[m + 2] > L) /\ L <= at[n + 1]
        /\ \A i \in 1 .. n + 1 : at[i] \in Nat \ {0}
        /\ \A i \in 1 .. n : rs[i] \in Record /\ at[i + 1] = at[i] + Size(kd, rs[i])
        /\ \A i \in 1 .. n : Starts(kd, b, at[i], rs[i])
    BY DEF Covers, Complete, Lays, Holds
  <1>2. \A i, j \in 1 .. n + 1 : i < j => at[i] < at[j]
    BY Rising DEF Covers
  <1>3. \A p \in 1 .. L : F[p] = Round(kd, b, p, F[NextAt(kd, b, p)])
    BY LoopIs
  <1>4. \A i \in 1 .. m + 1 : at[i] \in 1 .. L /\ i \in 1 .. n + 1
    <2> SUFFICES ASSUME NEW i \in 1 .. m + 1 PROVE at[i] \in 1 .. L /\ i \in 1 .. n + 1
      OBVIOUS
    <2>1. i \in 1 .. n + 1 /\ m + 1 \in 1 .. n + 1 /\ (i < m + 1 \/ i = m + 1)
      BY <1>1
    <2>2. at[i] <= at[m + 1] /\ at[i] \in Nat \ {0} /\ at[m + 1] \in Nat
      BY <1>1, <1>2, <2>1
    <2> QED
      BY <1>1, <2>1, <2>2
  <1> HIDE DEF F
  <1>5. 0 \in S
    <2> DEFINE p == at[m + 1]
               R == F[p]
    <2>1. p \in 1 .. L /\ m + 1 - 0 = m + 1
      BY <1>1, <1>4
    <2>2. R = Round(kd, b, p, F[NextAt(kd, b, p)])
      BY <1>3, <2>1
    <2>3. R = Result(R.ok, <<>>, L - p) /\ R.ok \in BOOLEAN /\ (L - p = 0 => R.ok)
      <3>1. CASE L - p < 4
        <4>1. R = Result(TRUE, <<>>, L - p)
          <5>1. Len(b) + 1 - p = L - p /\ Len(b) + 1 - p < 4
            <6>1. p \in Nat /\ L = Len(b) + 1 /\ Len(b) \in Nat
              BY <2>1
            <6> HIDE DEF p, L
            <6> QED
              BY <6>1, <3>1
          <5> HIDE DEF p, R, L
          <5> QED
            BY <2>2, <5>1 DEF Round, Result
        <4> QED
          BY <4>1 DEF Result
      <3>2. CASE ~(L - p < 4)
        <4>1. m # n
          BY <1>1, <2>1, <3>2
        <4>2. m + 1 \in 1 .. n /\ (m + 1) + 1 = m + 2
          BY <1>1, <4>1
        <4>3. rs[m + 1] \in Record /\ Starts(kd, b, p, rs[m + 1]) /\ p + Size(kd, rs[m + 1]) = at[m + 2]
          BY <1>1, <4>2
        <4>4. NextAt(kd, b, p) = at[m + 2]
          <5>1. p \in 1 .. Len(b) + 1 /\ Len(b) + 1 - p >= 4
            BY <2>1, <3>2
          <5> HIDE DEF p
          <5> QED
            BY <4>3, <5>1, FrameRead
        <4>5. Fails(kd, b, p)
          BY <1>1, <4>1, <4>4 DEF Fails
        <4>6. R = Result(FALSE, <<>>, L - p)
          <5>1. Len(b) + 1 - p = L - p /\ ~(Len(b) + 1 - p < 4)
            <6>1. p \in Nat /\ L = Len(b) + 1 /\ Len(b) \in Nat
              BY <2>1
            <6> HIDE DEF p, L
            <6> QED
              BY <6>1, <3>2
          <5> HIDE DEF p, R, L
          <5> QED
            BY <2>2, <4>5, <5>1 DEF Round, Result
        <4>7. L - p # 0
          BY <3>2
        <4> QED
          BY <4>6, <4>7 DEF Result
      <3> QED
        BY <3>1, <3>2
    <2> HIDE DEF R, p
    <2>4. R.tail = L - p /\ R.recs = <<>>
      BY <2>3 DEF Result
    <2>5. R.recs \in Seq(Record) /\ Len(R.recs) = 0
      BY <2>4
    <2>6. Good(R, 0)
      BY <2>3, <2>4, <2>5 DEF p
    <2>7. F[at[m + 1 - 0]] = R /\ 0 \in 0 .. m
      BY <1>1, <2>1 DEF R, p
    <2> QED
      BY <2>6, <2>7
  <1>6. ASSUME NEW k \in 0 .. m - 1, k \in S PROVE k + 1 \in S
    <2> DEFINE i == m - k
               p == at[i]
               R == F[p]
               Q == F[at[i + 1]]
    <2>1. /\ i \in 1 .. n /\ i \in 1 .. m + 1 /\ i + 1 \in 1 .. m + 1 /\ k + 1 \in 0 .. m /\ k \in Nat
          /\ m + 1 - k = i + 1 /\ m + 1 - (k + 1) = i /\ m - (k + 1) = i - 1
      BY <1>1
    <2>2. /\ p \in 1 .. L /\ at[i + 1] \in 1 .. L /\ at[i + 1] = p + Size(kd, rs[i])
          /\ rs[i] \in Record /\ Starts(kd, b, p, rs[i])
      BY <1>1, <1>4, <2>1
    <2>3. Good(Q, k)
      BY <1>6, <2>1
    <2>4. Size(kd, rs[i]) \in {6, 7, 14, 15}
      BY DEF Size
    <2>5. Len(b) + 1 - p >= 4 /\ p + Size(kd, rs[i]) <= Len(b) + 1
      <3> DEFINE z == Size(kd, rs[i])
                 y == at[i + 1]
      <3>1. p \in 1 .. L /\ y \in 1 .. L /\ y = p + z /\ z \in {6, 7, 14, 15} /\ L = Len(b) + 1 /\ Len(b) \in Nat
        BY <2>2, <2>4
      <3> HIDE DEF z, y, p, i, L
      <3>2. Len(b) + 1 - p >= 4 /\ p + z <= Len(b) + 1
        BY <3>1
      <3> QED
        BY <3>2 DEF z
    <2>6. /\ NextAt(kd, b, p) = at[i + 1] /\ ~Fails(kd, b, p)
          /\ Decoded(kd, BodyAt(kd, b, p)) = <<rs[i]>>
      <3> HIDE DEF p, i
      <3> QED
        BY <2>2, <2>5, FrameRead
    <2>7. R = Round(kd, b, p, Q)
      BY <1>3, <2>2, <2>6
    <2>8. R = Result(Q.ok, <<rs[i]>> \o Q.recs, Q.tail)
      <3> HIDE DEF p, i, R, Q
      <3>1. ~(Len(b) + 1 - p < 4)
        BY <1>1, <2>2, <2>5
      <3> QED
        BY <2>6, <2>7, <3>1 DEF Round
    <2> DEFINE t == Q.recs
               s == <<rs[i]>> \o t
    <2> HIDE DEF p, R, Q
    <2>9. t \in Seq(Record) /\ Len(t) = k /\ \A j \in 1 .. k : t[j] = rs[(m - k) + j]
      BY <2>3
    <2> HIDE DEF t
    <2>10. <<rs[i]>> \in Seq(Record) /\ Len(<<rs[i]>>) = 1 /\ <<rs[i]>>[1] = rs[i]
      BY <2>2
    <2>11. /\ s \in Seq(Record) /\ Len(s) = k + 1
           /\ \A j \in 1 .. k + 1 : s[j] = IF j <= 1 THEN rs[i] ELSE t[j - 1]
      <3> DEFINE o == <<rs[i]>>
      <3>1. o \in Seq(Record) /\ Len(o) = 1 /\ o[1] = rs[i] /\ s = o \o t
        BY <2>10
      <3> HIDE DEF o, s
      <3>2. /\ s \in Seq(Record) /\ Len(s) = Len(o) + Len(t)
            /\ \A j \in 1 .. Len(o) + Len(t) : s[j] = IF j <= Len(o) THEN o[j] ELSE t[j - Len(o)]
        BY <2>9, <3>1, ConcatProperties
      <3>3. Len(o) + Len(t) = k + 1
        BY <2>1, <2>9, <3>1
      <3>4. ASSUME NEW j \in 1 .. k + 1 PROVE s[j] = IF j <= 1 THEN rs[i] ELSE t[j - 1]
        <4>1. CASE j <= 1
          <5>1. j = 1
            BY <2>1, <4>1
          <5> QED
            BY <3>1, <3>2, <3>3, <4>1, <5>1
        <4>2. CASE ~(j <= 1)
          BY <3>1, <3>2, <3>3, <4>2
        <4> QED
          BY <4>1, <4>2
      <3> QED
        BY <3>2, <3>3, <3>4
    <2>12. \A j \in 1 .. k + 1 : s[j] = rs[(m - (k + 1)) + j]
      <3> SUFFICES ASSUME NEW j \in 1 .. k + 1 PROVE s[j] = rs[(m - (k + 1)) + j]
        OBVIOUS
      <3> HIDE DEF s
      <3>1. CASE j = 1
        <4>1. (m - (k + 1)) + j = i
          BY <1>1, <2>1, <3>1
        <4> QED
          BY <2>11, <3>1, <4>1
      <3>2. CASE j # 1
        <4>1. ~(j <= 1) /\ j - 1 \in 1 .. k /\ (m - k) + (j - 1) = (m - (k + 1)) + j
          BY <1>1, <2>1, <3>2
        <4> QED
          BY <2>9, <2>11, <4>1
      <3> QED
        BY <3>1, <3>2
    <2> HIDE DEF s
    <2>13. R.ok = Q.ok /\ R.recs = s /\ R.tail = Q.tail
      BY <2>8 DEF Result, s, t
    <2>14. Good(R, k + 1)
      BY <2>3, <2>11, <2>12, <2>13
    <2>15. F[at[m + 1 - (k + 1)]] = R
      BY <2>1 DEF R, p
    <2> QED
      BY <2>1, <2>14, <2>15
  <1>7. \A k \in 0 .. m : k \in S
    <2> HIDE DEF S
    <2> QED
      BY <1>1, <1>5, <1>6, UpTo
  <1>8. \A k \in 0 .. m : Good(F[at[m + 1 - k]], k)
    BY <1>7
  <1> QED
    BY <1>8, Zenon DEF F, LoopGives

\* replay(b) delivers the m complete frames of those b begins, or says that
\* it failed; it fails only when bytes are left over.
Delivers(kd, b, n, at, rs, m) ==
    LET R == replay(kd, b) IN
    /\ m \in 0 .. n
    /\ R.ok \in BOOLEAN /\ (R.tail = 0 => R.ok)
    /\ R.recs \in Seq(Record) /\ Len(R.recs) <= m /\ (R.ok => Len(R.recs) = m)
    /\ \A j \in 1 .. Len(R.recs) : R.recs[j] = rs[j]
    /\ \A i \in 1 .. n : at[i + 1] <= Len(b) + 1 => i <= m
    /\ R.tail = 0 => b = <<>> \/ at[m + 1] = Len(b) + 1
    /\ b = <<>> \/ at[n + 1] = Len(b) + 1 => R.tail = 0

\* Replay understands what the loggers write: of any header and frames, cut
\* anywhere, each of the three replays hands over exactly the records whose
\* frames are complete, in their order, or reports an error after some of them;
\* it reports none and leaves no byte when the cut is between two frames.
THEOREM ReplayReadsBack ==
  ASSUME NEW kd \in Kinds, NEW b \in Seq(Byte), NEW n, NEW at, NEW rs, Covers(kd, b, n, at, rs)
  PROVE  \E m : Delivers(kd, b, n, at, rs, m)
  <1> DEFINE h == Len(Header(kd))
             L == Len(b) + 1
  <1>1. /\ n \in Nat /\ at[1] = h + 1 /\ h \in {0, 4} /\ Len(b) \in Nat /\ L = Len(b) + 1 /\ L \in Nat
        /\ L <= at[n + 1]
        /\ \A i \in 1 .. n + 1 : at[i] \in Nat \ {0}
        /\ \A q \in 1 .. h : q <= Len(b) => b[q] = Header(kd)[q]
        /\ Header(kd) \in Seq(Byte)
    BY HeaderIs DEF Covers, Lays
  <1>2. \A i, j \in 1 .. n + 1 : i < j => at[i] < at[j]
    BY Rising DEF Covers
  <1>3. b = <<>> <=> Len(b) = 0
    OBVIOUS
  <1>4. CASE Len(b) < h
    <2> DEFINE R == replay(kd, b)
    <2>1. R = Result(TRUE, <<>>, Len(b))
      BY <1>4 DEF replay
    <2> HIDE DEF R
    <2>2. R.ok = TRUE /\ R.recs = <<>> /\ R.tail = Len(b)
      BY <2>1 DEF Result
    <2>3. ASSUME NEW i \in 1 .. n + 1 PROVE at[i] > L
      <3>1. 1 \in 1 .. n + 1 /\ (1 < i \/ i = 1)
        BY <1>1
      <3>2. at[1] <= at[i] /\ at[i] \in Nat
        BY <1>1, <1>2, <3>1
      <3> HIDE DEF h, L
      <3> QED
        BY <1>1, <1>4, <3>2
    <2>4. \A i \in 1 .. n : ~(at[i + 1] <= Len(b) + 1)
      <3> SUFFICES ASSUME NEW i \in 1 .. n PROVE ~(at[i + 1] <= Len(b) + 1)
        OBVIOUS
      <3>1. i + 1 \in 1 .. n + 1
        BY <1>1
      <3>2. at[i + 1] \in Nat /\ at[i + 1] > L
        BY <1>1, <2>3, <3>1
      <3> QED
        BY <1>1, <3>2
    <2>5. ~(at[n + 1] = Len(b) + 1)
      <3>1. n + 1 \in 1 .. n + 1
        BY <1>1
      <3>2. at[n + 1] \in Nat /\ at[n + 1] > L
        BY <1>1, <2>3, <3>1
      <3> QED
        BY <1>1, <3>2
    <2>6. R.recs \in Seq(Record) /\ Len(R.recs) = 0 /\ 0 \in 0 .. n
      BY <1>1, <2>2
    <2>7. /\ R.tail = 0 => b = <<>>
          /\ b = <<>> \/ at[n + 1] = Len(b) + 1 => R.tail = 0
      BY <1>3, <2>2, <2>5
    <2>8. Len(R.recs) <= 0 /\ \A j \in 1 .. Len(R.recs) : R.recs[j] = rs[j]
      BY <2>6
    <2>9. R.ok \in BOOLEAN /\ R.ok
      BY <2>2
    <2>10. Delivers(kd, b, n, at, rs, 0)
      BY <2>4, <2>6, <2>7, <2>8, <2>9 DEF Delivers, R
    <2> QED
      BY <2>10
  <1>5. CASE ~(Len(b) < h)
    <2>1. PICK m : Complete(b, n, at, m)
      <3>1. Len(Header(kd)) <= Len(b)
        BY <1>1, <1>5
      <3> QED
        BY <3>1, SomeComplete
    <2>2. m \in 0 .. n /\ m \in Nat /\ at[m + 1] <= L /\ (m = n \/ at[m + 2] > L)
      BY <1>1, <2>1 DEF Complete
    <2> DEFINE Q == ReplayLoop(kd, b)[h + 1]
               R == replay(kd, b)
    <2>3. /\ Q.ok \in BOOLEAN /\ Q.tail = L - at[m + 1] /\ (Q.tail = 0 => Q.ok)
          /\ Q.recs \in Seq(Record) /\ Len(Q.recs) = m
          /\ \A j \in 1 .. m : Q.recs[j] = rs[j]
      <3>1. m + 1 - m = 1 /\ m \in 0 .. m /\ at[1] = h + 1 /\ \A j \in 1 .. m : (m - m) + j = j
        BY <1>1, <2>2
      <3> DEFINE P == ReplayLoop(kd, b)[at[m + 1 - m]]
      <3>2. /\ P.ok \in BOOLEAN /\ P.tail = (Len(b) + 1) - at[m + 1] /\ (P.tail = 0 => P.ok)
            /\ P.recs \in Seq(Record) /\ Len(P.recs) = m
            /\ \A j \in 1 .. m : P.recs[j] = rs[(m - m) + j]
        <4>1. LoopGives(kd, b, at, rs, m, m)
          BY <2>1, <3>1, LoopAtFrame
        <4> QED
          BY <4>1, Zenon DEF LoopGives
      <3>3. P = Q
        BY <3>1
      <3> HIDE DEF P, Q
      <3> QED
        BY <3>1, <3>2, <3>3
    <2>4. SubSeq(b, 1, h) = Header(kd)
      <3>1. 1 \in 1 .. Len(b) + 1 /\ h \in 0 .. Len(b) /\ 1 <= h + 1 /\ h + 1 - 1 = h
        BY <1>1, <1>5
      <3> DEFINE s == SubSeq(b, 1, h)
      <3>2. s \in Seq(Byte) /\ Len(s) = h /\ \A i \in 1 .. h : s[i] = b[1 + i - 1]
        <4> HIDE DEF h
        <4> QED
          BY <3>1, PartOf
      <3>3. \A i \in 1 .. h : s[i] = Header(kd)[i]
        <4> SUFFICES ASSUME NEW i \in 1 .. h PROVE s[i] = Header(kd)[i]
          OBVIOUS
        <4>1. 1 + i - 1 = i /\ i <= Len(b)
          BY <1>1, <3>1
        <4> HIDE DEF s, h
        <4> QED
          BY <1>1, <3>2, <4>1
      <3> HIDE DEF s
      <3>4. s = Header(kd)
        BY <1>1, <3>2, <3>3, SeqEqual
      <3> QED
        BY <3>4 DEF s
    <2>5. R = IF kd = "wal_writer" /\ ~Q.ok THEN [Q EXCEPT !.recs = <<>>] ELSE Q
      BY <1>5, <2>4 DEF replay
    <2>6. ASSUME at[n + 1] = L PROVE m = n
      <3> SUFFICES ASSUME m # n PROVE FALSE
        OBVIOUS
      <3>1. m + 2 \in 1 .. n + 1 /\ n + 1 \in 1 .. n + 1 /\ (m + 2 < n + 1 \/ m + 2 = n + 1)
        BY <1>1, <2>2
      <3>2. at[m + 2] <= at[n + 1] /\ at[m + 2] \in Nat /\ at[n + 1] \in Nat
        BY <1>1, <1>2, <3>1
      <3> QED
        BY <1>1, <2>2, <2>6, <3>2
    <2>7. ASSUME NEW i \in 1 .. n, at[i + 1] <= L PROVE i <= m
      <3> SUFFICES ASSUME ~(i <= m) PROVE FALSE
        OBVIOUS
      <3>1. m # n /\ m + 2 \in 1 .. n + 1 /\ i + 1 \in 1 .. n + 1 /\ (m + 2 < i + 1 \/ m + 2 = i + 1)
        BY <1>1, <2>2
      <3>2. at[m + 2] <= at[i + 1] /\ at[m + 2] \in Nat /\ at[i + 1] \in Nat
        BY <1>1, <1>2, <3>1, SMTT(30)
      <3> QED
        BY <1>1, <2>2, <2>7, <3>1, <3>2
    <2>8. b = <<>> => at[m + 1] = L
      <3>1. m + 1 \in 1 .. n + 1
        BY <1>1, <2>2
      <3>2. at[m + 1] \in Nat \ {0}
        BY <1>1, <3>1
      <3> QED
        BY <1>1, <1>3, <2>2, <3>2
    <2>9. at[m + 1] \in Nat /\ (L - at[m + 1] = 0 <=> at[m + 1] = L)
      <3>1. m + 1 \in 1 .. n + 1
        BY <1>1, <2>2
      <3>2. at[m + 1] \in Nat
        BY <1>1, <3>1
      <3> HIDE DEF L
      <3> QED
        BY <1>1, <3>2
    <2> HIDE DEF Q, R, h
    <2>10. /\ R.ok = Q.ok /\ R.tail = Q.tail
           /\ R.recs = Q.recs \/ (R.recs = <<>> /\ ~Q.ok)
      <3>1. CASE kd = "wal_writer" /\ ~Q.ok
        <4>1. R = [Q EXCEPT !.recs = <<>>]
          BY <2>5, <3>1
        <4>2. Q = Result(Q.ok, Q.recs, Q.tail)
          <5>1. h + 1 \in 1 .. Len(b) + 1
            BY <1>1, <1>5
          <5>2. Q = Round(kd, b, h + 1, ReplayLoop(kd, b)[NextAt(kd, b, h + 1)])
            BY <5>1, LoopIs DEF Q
          <5> QED
            BY <5>2 DEF Round, Result
        <4> QED
          BY <3>1, <4>1, <4>2 DEF Result
      <3>2. CASE ~(kd = "wal_writer" /\ ~Q.ok)
        BY <2>5, <3>2
      <3> QED
        BY <3>1, <3>2
    <2>11. /\ R.recs \in Seq(Record) /\ Len(R.recs) <= m /\ (R.ok => Len(R.recs) = m)
           /\ \A j \in 1 .. Len(R.recs) : R.recs[j] = rs[j]
      <3>1. CASE R.recs = Q.recs
        <4> DEFINE t == Q.recs
        <4>1. t \in Seq(Record) /\ Len(t) = m /\ \A j \in 1 .. m : t[j] = rs[j]
          BY <2>3
        <4> HIDE DEF t
        <4>2. Len(t) <= m /\ \A j \in 1 .. Len(t) : t[j] = rs[j]
          BY <2>2, <4>1
        <4> QED
          BY <3>1, <4>1, <4>2 DEF t
      <3>2. CASE R.recs = <<>> /\ ~Q.ok
        <4>1. <<>> \in Seq(Record) /\ Len(<<>>) = 0 /\ 0 <= m /\ \A j \in 1 .. 0 : FALSE
          BY <2>2
        <4> QED
          BY <2>10, <3>2, <4>1
      <3> QED
        BY <2>10, <3>1, <3>2
    <2>12. /\ R.ok \in BOOLEAN /\ R.tail = L - at[m + 1] /\ (R.tail = 0 => R.ok)
      BY <2>3, <2>10
    <2>13. /\ R.tail = 0 => at[m + 1] = L
           /\ b = <<>> \/ at[n + 1] = L => R.tail = 0
      BY <2>6, <2>8, <2>9, <2>12
    <2>14. Delivers(kd, b, n, at, rs, m)
      BY <2>2, <2>7, <2>11, <2>12, <2>13 DEF Delivers, R, L
    <2> QED
      BY <2>14
  <1> QED
    BY <1>4, <1>5

\* What is cut from the end does not matter to what is left.
LEMMA CutCovers ==
  ASSUME NEW kd \in Kinds, NEW b \in Seq(Byte), NEW c \in Seq(Byte), NEW n, NEW at, NEW rs,
         Covers(kd, b, n, at, rs), Len(c) <= Len(b), \A i \in 1 .. Len(c) : c[i] = b[i]
  PROVE  Covers(kd, c, n, at, rs)
  <1>1. Len(b) \in Nat /\ Len(c) \in Nat /\ Len(Header(kd)) \in Nat
    BY HeaderIs
  <1>2. /\ n \in Nat /\ \A i \in 1 .. n + 1 : at[i] \in Nat \ {0}
        /\ \A i \in 1 .. n : rs[i] \in Record
        /\ Len(b) + 1 <= at[n + 1]
    BY DEF Covers, Lays
  <1>3. Len(c) + 1 <= at[n + 1]
    BY <1>1, <1>2
  <1>4. ASSUME NEW i \in 1 .. n PROVE Starts(kd, c, at[i], rs[i])
    <2>1. Starts(kd, b, at[i], rs[i])
      BY DEF Covers, Holds
    <2>2. ASSUME NEW q \in 1 .. Size(kd, rs[i]), at[i] + q - 1 <= Len(c)
          PROVE  c[at[i] + q - 1] = encode(kd, rs[i])[q]
      <3>1. Size(kd, rs[i]) \in Nat
        BY DEF Size
      <3>2. at[i] \in Nat \ {0}
        BY <1>2
      <3>3. at[i] + q - 1 \in 1 .. Len(c) /\ at[i] + q - 1 <= Len(b)
        BY <1>1, <2>2, <3>1, <3>2
      <3> QED
        BY <2>1, <3>3 DEF Starts
    <2> QED
      BY <2>2 DEF Starts
  <1>5. ASSUME NEW q \in 1 .. Len(Header(kd)), q <= Len(c) PROVE c[q] = Header(kd)[q]
    <2>1. q \in 1 .. Len(c) /\ q <= Len(b)
      BY <1>1, <1>5
    <2> QED
      BY <2>1 DEF Covers
  <1> QED
    BY <1>3, <1>4, <1>5 DEF Covers, Holds

\* Frames behind the end of b may be left out.
LEMMA DropCovers ==
  ASSUME NEW kd, NEW b, NEW n, NEW at, NEW rs, NEW m \in 0 .. n,
         Covers(kd, b, n, at, rs), Len(b) + 1 <= at[m + 1]
  PROVE  Covers(kd, b, m, at, rs)
  <1>1. n \in Nat /\ m \in Nat /\ \A i \in 1 .. m : i \in 1 .. n
    BY DEF Covers, Lays
  <1>2. \A i \in 1 .. m + 1 : i \in 1 .. n + 1
    BY <1>1
  <1>3. Lays(kd, Len(Header(kd)) + 1, m, at, rs) /\ Holds(kd, b, m, at, rs)
    BY <1>1, <1>2 DEF Covers, Lays, Holds
  <1> QED
    BY <1>3 DEF Covers

\* Frames behind frames: at, rs and then bt, ss, moved.
Extends(n, at, rs, k, ss, xt, xs) ==
    /\ \A i \in 1 .. n + 1 : xt[i] = at[i]
    /\ \A i \in 1 .. n : xs[i] = rs[i]
    /\ \A i \in 1 .. k : xs[n + i] = ss[i]

\* A piece put behind a stretch of complete frames.
LEMMA Glue ==
  ASSUME NEW kd \in Kinds, NEW s \in Seq(Byte), NEW b \in Seq(Byte), NEW p,
         NEW n, NEW at, NEW rs, NEW k, NEW bt, NEW ss,
         Lays(kd, p, n, at, rs), Holds(kd, s, n, at, rs), at[n + 1] = Len(s) + 1,
         Piece(kd, b, k, bt, ss)
  PROVE  \E xt, xs :
            /\ Lays(kd, p, n + k, xt, xs) /\ Holds(kd, s \o b, n + k, xt, xs)
            /\ xt[(n + k) + 1] = Len(s \o b) + 1
            /\ Extends(n, at, rs, k, ss, xt, xs)
  <1> DEFINE l == Len(s)
             c == s \o b
             xt == [i \in 1 .. (n + k) + 1 |-> IF i <= n + 1 THEN at[i] ELSE bt[i - n] + l]
             xs == [i \in 1 .. n + k |-> IF i <= n THEN rs[i] ELSE ss[i - n]]
  <1>1. /\ n \in Nat /\ at[1] = p
        /\ \A i \in 1 .. n + 1 : at[i] \in Nat \ {0}
        /\ \A i \in 1 .. n : rs[i] \in Record /\ at[i + 1] = at[i] + Size(kd, rs[i])
        /\ \A i \in 1 .. n : Starts(kd, s, at[i], rs[i])
    BY DEF Lays, Holds
  <1>2. /\ k \in Nat /\ bt[1] = 1
        /\ \A i \in 1 .. k + 1 : bt[i] \in Nat \ {0}
        /\ \A i \in 1 .. k : ss[i] \in Record /\ bt[i + 1] = bt[i] + Size(kd, ss[i])
        /\ \A i \in 1 .. k : Starts(kd, b, bt[i], ss[i])
        /\ bt[k + 1] = Len(b) + 1
    BY DEF Piece, Lays, Holds
  <1>3. \A i, j \in 1 .. n + 1 : i < j => at[i] < at[j]
    BY Rising
  <1>4. /\ c \in Seq(Byte) /\ Len(c) = l + Len(b) /\ l \in Nat /\ Len(b) \in Nat /\ at[n + 1] = l + 1
        /\ \A i \in 1 .. l : c[i] = s[i]
        /\ \A i \in 1 .. Len(b) : c[l + i] = b[i]
    BY Joined
  <1> HIDE DEF l, c
  <1>5. /\ \A i \in 1 .. n + 1 : xt[i] = at[i]
        /\ \A i \in 1 .. n : xs[i] = rs[i]
    <2>1. \A i \in 1 .. n + 1 : i \in 1 .. (n + k) + 1 /\ i <= n + 1
      BY <1>1, <1>2
    <2>2. \A i \in 1 .. n : i \in 1 .. n + k /\ i <= n
      BY <1>1, <1>2
    <2> QED
      BY <2>1, <2>2
  <1>6. \A i \in 1 .. k : xs[n + i] = ss[i]
    <2>1. \A i \in 1 .. k : n + i \in 1 .. n + k /\ ~(n + i <= n) /\ (n + i) - n = i
      BY <1>1, <1>2
    <2> QED
      BY <2>1
  <1>7. \A i \in 1 .. k + 1 : xt[n + i] = bt[i] + l
    <2> SUFFICES ASSUME NEW i \in 1 .. k + 1 PROVE xt[n + i] = bt[i] + l
      OBVIOUS
    <2>1. n + i \in 1 .. (n + k) + 1 /\ (n + i) - n = i
      BY <1>1, <1>2
    <2>2. CASE i = 1
      <3>1. n + i <= n + 1 /\ n + i = n + 1
        BY <1>1, <2>2
      <3>2. xt[n + i] = at[n + 1]
        BY <2>1, <3>1
      <3> HIDE DEF xt
      <3> QED
        BY <1>2, <1>4, <2>2, <3>2
    <2>3. CASE i # 1
      <3>1. ~(n + i <= n + 1)
        BY <1>1, <1>2, <2>3
      <3> QED
        BY <2>1, <3>1
    <2> QED
      BY <2>2, <2>3
  <1> HIDE DEF xt, xs
  <1>8. \A i \in 1 .. (n + k) + 1 : i \in 1 .. n + 1 \/ (i - n \in 1 .. k + 1 /\ n + (i - n) = i)
    BY <1>1, <1>2
  <1>9. \A i \in 1 .. n + k : i \in 1 .. n \/ (i - n \in 1 .. k /\ n + (i - n) = i)
    BY <1>1, <1>2
  <1>10. \A i \in 1 .. (n + k) + 1 : xt[i] \in Nat \ {0}
    <2>1. \A i \in 1 .. n + 1 : xt[i] \in Nat \ {0}
      BY <1>1, <1>5
    <2>2. ASSUME NEW i \in 1 .. k + 1 PROVE xt[n + i] \in Nat \ {0}
      <3>1. bt[i] \in Nat \ {0} /\ xt[n + i] = bt[i] + l
        BY <1>2, <1>7
      <3> QED
        BY <1>4, <3>1
    <2> QED
      BY <1>8, <2>1, <2>2
  <1>11. \A i \in 1 .. n + k : xs[i] \in Record /\ xt[i + 1] = xt[i] + Size(kd, xs[i])
    <2>1. ASSUME NEW i \in 1 .. n PROVE xs[i] \in Record /\ xt[i + 1] = xt[i] + Size(kd, xs[i])
      <3>1. i \in 1 .. n + 1 /\ i + 1 \in 1 .. n + 1
        BY <1>1
      <3>2. xt[i] = at[i] /\ xt[i + 1] = at[i + 1] /\ xs[i] = rs[i]
        BY <1>5, <3>1
      <3> QED
        BY <1>1, <3>2
    <2>2. ASSUME NEW i \in 1 .. k
          PROVE  xs[n + i] \in Record /\ xt[(n + i) + 1] = xt[n + i] + Size(kd, xs[n + i])
      <3>1. i \in 1 .. k + 1 /\ i + 1 \in 1 .. k + 1 /\ (n + i) + 1 = n + (i + 1)
        BY <1>1, <1>2
      <3>2. xt[n + i] = bt[i] + l /\ xt[(n + i) + 1] = bt[i + 1] + l /\ xs[n + i] = ss[i]
        BY <1>6, <1>7, <3>1
      <3>3. bt[i + 1] = bt[i] + Size(kd, ss[i]) /\ bt[i] \in Nat /\ ss[i] \in Record
        BY <1>2, <3>1
      <3>4. Size(kd, ss[i]) \in Nat
        BY DEF Size
      <3>5. bt[i + 1] + l = (bt[i] + l) + Size(kd, ss[i])
        BY <1>4, <3>3, <3>4
      <3> QED
        BY <3>2, <3>3, <3>5
    <2> QED
      BY <1>9, <2>1, <2>2
  <1>12. \A i \in 1 .. n + k : Starts(kd, c, xt[i], xs[i])
    <2>1. ASSUME NEW i \in 1 .. n PROVE Starts(kd, c, xt[i], xs[i])
      <3>1. i \in 1 .. n + 1 /\ i + 1 \in 1 .. n + 1 /\ n + 1 \in 1 .. n + 1 /\ (i + 1 < n + 1 \/ i + 1 = n + 1)
        BY <1>1
      <3>2. xt[i] = at[i] /\ xs[i] = rs[i] /\ Starts(kd, s, at[i], rs[i])
        BY <1>1, <1>5, <3>1
      <3>3. at[i + 1] <= l + 1 /\ at[i + 1] = at[i] + Size(kd, rs[i]) /\ at[i] \in Nat \ {0}
        BY <1>1, <1>3, <1>4, <3>1
      <3>4. Size(kd, rs[i]) \in Nat
        BY DEF Size
      <3>5. ASSUME NEW q \in 1 .. Size(kd, rs[i])
            PROVE  c[at[i] + q - 1] = encode(kd, rs[i])[q]
        <4> DEFINE x == at[i] + q - 1
        <4>1. x \in 1 .. l
          <5> DEFINE a == at[i]
                     z == Size(kd, rs[i])
          <5>1. a \in Nat \ {0} /\ z \in Nat /\ a + z <= l + 1 /\ q \in 1 .. z /\ l \in Nat
            BY <1>4, <3>3, <3>4
          <5> HIDE DEF a, z
          <5>2. a + q - 1 \in 1 .. l
            BY <5>1
          <5> QED
            BY <5>2 DEF a
        <4>2. x <= Len(s)
          BY <1>4, <4>1 DEF l
        <4>3. s[x] = encode(kd, rs[i])[q]
          BY <3>2, <4>2 DEF Starts
        <4>4. c[x] = s[x]
          <5> HIDE DEF x
          <5> QED
            BY <1>4, <4>1
        <4> QED
          BY <4>3, <4>4
      <3> QED
        BY <3>2, <3>5 DEF Starts
    <2>2. ASSUME NEW i \in 1 .. k PROVE Starts(kd, c, xt[n + i], xs[n + i])
      <3>1. i \in 1 .. k + 1
        BY <1>2
      <3>2. xt[n + i] = bt[i] + l /\ xs[n + i] = ss[i] /\ Starts(kd, b, bt[i], ss[i]) /\ bt[i] \in Nat \ {0}
        BY <1>2, <1>6, <1>7, <3>1
      <3>3. Size(kd, ss[i]) \in Nat
        BY DEF Size
      <3>4. ASSUME NEW q \in 1 .. Size(kd, ss[i]), (bt[i] + l) + q - 1 <= Len(c)
            PROVE  c[(bt[i] + l) + q - 1] = encode(kd, ss[i])[q]
        <4> DEFINE x == bt[i] + q - 1
        <4>1. x \in 1 .. Len(b) /\ l + x = (bt[i] + l) + q - 1
          <5> DEFINE a == bt[i]
                     z == Size(kd, ss[i])
                     o == Len(b)
          <5>1. /\ a \in Nat \ {0} /\ z \in Nat /\ q \in 1 .. z /\ l \in Nat /\ o \in Nat
                /\ (a + l) + q - 1 <= l + o
            BY <1>4, <3>2, <3>3, <3>4
          <5> HIDE DEF a, z, o
          <5>2. a + q - 1 \in 1 .. o /\ l + (a + q - 1) = (a + l) + q - 1
            BY <5>1
          <5> QED
            BY <5>2 DEF a, o
        <4>2. b[x] = encode(kd, ss[i])[q]
          BY <1>4, <3>2, <4>1 DEF Starts
        <4>3. c[l + x] = b[x]
          <5> HIDE DEF x
          <5> QED
            BY <1>4, <4>1
        <4> QED
          BY <4>1, <4>2, <4>3
      <3> QED
        BY <3>2, <3>4 DEF Starts
    <2> QED
      BY <1>9, <2>1, <2>2
  <1>13. xt[(n + k) + 1] = Len(c) + 1
    <2>1. k + 1 \in 1 .. k + 1 /\ (n + k) + 1 = n + (k + 1)
      BY <1>1, <1>2
    <2>2. xt[(n + k) + 1] = bt[k + 1] + l
      BY <1>7, <2>1
    <2> QED
      BY <1>2, <1>4, <2>2
  <1>14. n + k \in Nat /\ xt[1] = p
    <2>1. 1 \in 1 .. n + 1
      BY <1>1
    <2> QED
      BY <1>1, <1>2, <1>5, <2>1
  <1>15. Lays(kd, p, n + k, xt, xs)
    BY <1>10, <1>11, <1>14 DEF Lays
  <1>16. Holds(kd, c, n + k, xt, xs)
    BY <1>12 DEF Holds
  <1>17. Extends(n, at, rs, k, ss, xt, xs)
    BY <1>5, <1>6 DEF Extends
  <1> QED
    BY <1>13, <1>15, <1>16, <1>17 DEF c

\* One frame is a piece, and so is nothing.
LEMMA OneFrame ==
  ASSUME NEW kd \in Kinds, NEW r \in Record
  PROVE  Piece(kd, encode(kd, r), 1, <<1, 1 + Size(kd, r)>>, <<r>>)
  <1> DEFINE at == <<1, 1 + Size(kd, r)>>
             rs == <<r>>
             e == encode(kd, r)
  <1>1. Size(kd, r) \in Nat /\ Len(e) = Size(kd, r)
    BY EncodeIs DEF Size
  <1>2. at[1] = 1 /\ at[2] = 1 + Size(kd, r) /\ rs[1] = r
    OBVIOUS
  <1> HIDE DEF at, rs, e
  <1>3. Starts(kd, e, 1, r)
    <2>1. \A q \in 1 .. Size(kd, r) : 1 + q - 1 = q
      BY <1>1
    <2> QED
      BY <2>1 DEF Starts, e
  <1>4. \A i \in 1 .. 1 : i = 1
    OBVIOUS
  <1>5. \A i \in 1 .. 1 + 1 : i = 1 \/ i = 2
    OBVIOUS
  <1>6. Lays(kd, 1, 1, at, rs)
    <2>1. \A i \in 1 .. 1 + 1 : at[i] \in Nat \ {0}
      BY <1>1, <1>2, <1>5
    <2>2. \A i \in 1 .. 1 : rs[i] \in Record /\ at[i + 1] = at[i] + Size(kd, rs[i])
      BY <1>2, <1>4
    <2> QED
      BY <1>2, <2>1, <2>2 DEF Lays
  <1>7. Holds(kd, e, 1, at, rs)
    BY <1>2, <1>3, <1>4 DEF Holds
  <1>8. at[1 + 1] = Len(e) + 1
    BY <1>1, <1>2
  <1>9. Piece(kd, e, 1, at, rs)
    BY <1>6, <1>7, <1>8 DEF Piece
  <1> QED
    BY <1>9 DEF at, rs, e

\* No frames are laid out anywhere, and are all that an empty sequence holds.
LEMMA NoFrame ==
  ASSUME NEW kd, NEW p \in Nat \ {0}
  PROVE  /\ Lays(kd, p, 0, <<p>>, <<>>) /\ \A b : Holds(kd, b, 0, <<p>>, <<>>)
         /\ <<p>>[0 + 1] = p /\ Piece(kd, <<>>, 0, <<1>>, <<>>)
  <1>1. (\A i \in 1 .. 0 : FALSE) /\ (\A i \in 1 .. 0 + 1 : i = 1) /\ 0 + 1 = 1 /\ 0 \in Nat
    OBVIOUS
  <1>2. <<p>>[1] = p /\ <<1>>[1] = 1 /\ 1 \in Nat \ {0} /\ Len(<<>>) + 1 = 1
    OBVIOUS
  <1>3. Lays(kd, p, 0, <<p>>, <<>>) /\ Lays(kd, 1, 0, <<1>>, <<>>)
    BY <1>1, <1>2 DEF Lays
  <1>4. (\A b : Holds(kd, b, 0, <<p>>, <<>>)) /\ Holds(kd, <<>>, 0, <<1>>, <<>>)
    BY <1>1 DEF Holds
  <1> QED
    BY <1>1, <1>2, <1>3, <1>4 DEF Piece

\* An empty file and a new one.
LEMMA NewFile ==
  ASSUME NEW kd \in Kinds
  PROVE  LET p == Len(Header(kd)) + 1 IN
         /\ Covers(kd, <<>>, 0, <<p>>, <<>>) /\ Covers(kd, Header(kd), 0, <<p>>, <<>>)
         /\ <<p>>[0 + 1] = Len(Header(kd)) + 1
  <1> DEFINE h == Len(Header(kd))
             p == h + 1
  <1>1. h \in Nat /\ p \in Nat \ {0} /\ Len(<<>>) = 0 /\ h <= h /\ 0 + 1 <= p
    BY HeaderIs
  <1>2. Lays(kd, p, 0, <<p>>, <<>>) /\ <<p>>[0 + 1] = p /\ \A b : Holds(kd, b, 0, <<p>>, <<>>)
    <2> HIDE DEF p
    <2> QED
      BY <1>1, NoFrame
  <1>3. \A q \in 1 .. h : ~(q <= Len(<<>>))
    BY <1>1
  <1> HIDE DEF p
  <1>4. Covers(kd, <<>>, 0, <<p>>, <<>>)
    BY <1>1, <1>2, <1>3 DEF Covers, p
  <1>5. Covers(kd, Header(kd), 0, <<p>>, <<>>)
    BY <1>1, <1>2 DEF Covers, p
  <1> QED
    BY <1>2, <1>4, <1>5 DEF p

\* The first j bytes of all and what is kept of the beginning of all behind
\* them: a beginning of all.
LEMMA Leftover ==
  ASSUME NEW all \in Seq(Byte), NEW kept \in Seq(Byte), Len(kept) <= Len(all),
         \A i \in 1 .. Len(kept) : kept[i] = all[i], NEW j \in 0 .. Len(all)
  PROVE  LET u == SubSeq(all, 1, j)
             v == SubSeq(kept, j + 1, Len(kept))
         IN  /\ u \in Seq(Byte) /\ v \in Seq(Byte) /\ u \o v \in Seq(Byte)
             /\ Len(u \o v) = IF j <= Len(kept) THEN Len(kept) ELSE j
             /\ \A i \in 1 .. Len(u \o v) : (u \o v)[i] = all[i]
  <1> DEFINE u == SubSeq(all, 1, j)
             v == SubSeq(kept, j + 1, Len(kept))
  <1>1. Len(all) \in Nat /\ Len(kept) \in Nat /\ j \in Nat
    OBVIOUS
  <1>2. u \in Seq(Byte) /\ Len(u) = j /\ \A i \in 1 .. j : u[i] = all[i]
    <2>1. 1 \in 1 .. Len(all) + 1 /\ 1 <= j + 1 /\ j + 1 - 1 = j /\ \A i \in 1 .. j : 1 + i - 1 = i
      BY <1>1
    <2>2. /\ u \in Seq(Byte) /\ Len(u) = j + 1 - 1
          /\ \A i \in 1 .. j + 1 - 1 : u[i] = all[1 + i - 1]
      BY <2>1, PartOf
    <2> HIDE DEF u
    <2> QED
      BY <2>1, <2>2
  <1>3. CASE j <= Len(kept)
    <2>1. /\ j + 1 \in 1 .. Len(kept) + 1 /\ Len(kept) \in 0 .. Len(kept) /\ j + 1 <= Len(kept) + 1
          /\ Len(kept) + 1 - (j + 1) = Len(kept) - j
          /\ \A i \in 1 .. Len(kept) - j : (j + 1) + i - 1 = j + i
      BY <1>1, <1>3
    <2>2. v \in Seq(Byte) /\ Len(v) = Len(kept) - j /\ \A i \in 1 .. Len(kept) - j : v[i] = kept[j + i]
      <3>1. /\ v \in Seq(Byte) /\ Len(v) = Len(kept) + 1 - (j + 1)
            /\ \A i \in 1 .. Len(kept) + 1 - (j + 1) : v[i] = kept[(j + 1) + i - 1]
        BY <2>1, PartOf
      <3> HIDE DEF v
      <3> QED
        BY <2>1, <3>1
    <2> HIDE DEF u, v
    <2>3. /\ u \o v \in Seq(Byte) /\ Len(u \o v) = j + (Len(kept) - j)
          /\ \A i \in 1 .. j : (u \o v)[i] = u[i]
          /\ \A i \in 1 .. Len(kept) - j : (u \o v)[j + i] = v[i]
      BY <1>2, <2>2, Joined
    <2>4. Len(u \o v) = Len(kept)
      BY <1>1, <2>3
    <2>5. ASSUME NEW i \in 1 .. Len(kept) PROVE (u \o v)[i] = all[i]
      <3>1. CASE i <= j
        <4>1. i \in 1 .. j
          BY <1>1, <3>1
        <4> QED
          BY <1>2, <2>3, <4>1
      <3>2. CASE ~(i <= j)
        <4>1. i - j \in 1 .. Len(kept) - j /\ j + (i - j) = i
          BY <1>1, <3>2
        <4> QED
          BY <2>2, <2>3, <4>1, ZenonT(60)
      <3> QED
        BY <3>1, <3>2
    <2> QED
      BY <1>2, <1>3, <2>2, <2>3, <2>4, <2>5 DEF u, v
  <1>4. CASE ~(j <= Len(kept))
    <2>1. v = <<>>
      <3>1. Len(kept) < j + 1
        BY <1>1, <1>4
      <3> QED
        BY <1>1, <3>1 DEF SubSeq
    <2> HIDE DEF u, v
    <2>2. v \in Seq(Byte) /\ u \o v = u
      BY <1>2, <2>1, ConcatEmptySeq
    <2> QED
      BY <1>2, <1>4, <2>2 DEF u, v
  <1> QED
    BY <1>3, <1>4

-----------------------------------------------------------------------------
(* The inductive invariant                                                 *)

\* What is written, whether or not it has left the BufWriter.
Stream == file \o writer

Numbers(n, rs) == {rs[i].w : i \in 1 .. n}

IsOpen == mode \in {"opening", "up", "write", "sync"}

\* Types, and what is in memory between two openings: nothing.
TypeInv ==
    /\ TypeOK
    /\ sent \in 0 .. MaxWrites /\ base \in 0 .. sent /\ faults \in Nat /\ opens \in Nat
    /\ mode \in {"closed", "refused", "opening"} => buffer = <<>> /\ writer = <<>> /\ inbuf = {}
    /\ kind # "store_log" => clear

\* The buffer is frames, of the writes in it, in their order.
BufferIs(n, at, rs) ==
    /\ Piece(kind, buffer, n, at, rs)
    /\ inbuf = Numbers(n, rs)
    /\ \A i \in 1 .. n : rs[i].w \in base + 1 .. sent /\ \A j \in 1 .. i - 1 : rs[j].w < rs[i].w

BufferInv == \E n, at, rs : BufferIs(n, at, rs)

\* What ReplayIsOrdered says of the records, of the frames in the file.
InOrder(n, rs) ==
    \A i \in 1 .. n :
        /\ rs[i].w \in 1 .. sent
        /\ rs[i].w > base =>
              \A w \in base + 1 .. rs[i].w - 1 : w \in gone \/ \E j \in 1 .. i - 1 : rs[j].w = w
        /\ kind # "store_log" /\ faults = 0 => \A j \in 1 .. i - 1 : rs[j].w # rs[i].w

\* The frame of what a sync vouched for ends before what was synced does.
Vouched(n, at, rs) == \A w \in acked : \E i \in 1 .. n : rs[i].w = w /\ at[i + 1] <= synced + 1

\* An open file ends with a frame; no write of this opening is lost but for
\* a batch given up, and none is both in the file and in a batch to come.
OpenFile(n, at, rs) ==
    IsOpen =>
        /\ at[n + 1] = Len(Stream) + 1
        /\ \A w \in base + 1 .. sent : w \in gone \/ w \in inbuf \/ w \in Numbers(n, rs)
        /\ mode = "sync" => inbuf \subseteq Numbers(n, rs) /\ (inbuf = {} \/ writer = <<>>)
        /\ kind # "store_log" /\ faults = 0 /\ mode # "sync" =>
              \A w \in inbuf : w \notin Numbers(n, rs)

FileIs(n, at, rs) ==
    /\ Covers(kind, Stream, n, at, rs)
    /\ InOrder(n, rs)
    /\ Vouched(n, at, rs)
    /\ OpenFile(n, at, rs)
    /\ mode = "closed" /\ ~crashed => Stream = <<>> \/ at[n + 1] = Len(Stream) + 1

FileInv ==
    /\ ~crashed /\ faults = 0 => clean
    /\ clean => mode # "refused" /\ \E n, at, rs : FileIs(n, at, rs)

Inv == TypeInv /\ BufferInv /\ FileInv

-----------------------------------------------------------------------------
(* Types                                                                   *)

\* The types, in the words of the lemmas.
LEMMA Typed ==
  ASSUME TypeInv
  PROVE  /\ kind \in Kinds /\ file \in Seq(Byte) /\ buffer \in Seq(Byte) /\ writer \in Seq(Byte)
         /\ Stream \in Seq(Byte) /\ Len(Stream) = Len(file) + Len(writer)
         /\ Len(file) \in Nat /\ Len(writer) \in Nat /\ Len(Stream) \in Nat
         /\ synced \in 0 .. Len(file) /\ sent \in Nat /\ base \in Nat /\ base <= sent /\ faults \in Nat
         /\ MaxWrites \in 0 .. 255 /\ sent <= MaxWrites
         /\ \A i \in 1 .. Len(file) : Stream[i] = file[i]
  <1>1. kind \in Kinds /\ file \in Seq(Byte) /\ buffer \in Seq(Byte) /\ writer \in Seq(Byte)
    BY DEF TypeInv, TypeOK, Byte
  <1>2. /\ Stream \in Seq(Byte) /\ Len(Stream) = Len(file) + Len(writer) /\ Len(file) \in Nat
        /\ Len(writer) \in Nat /\ \A i \in 1 .. Len(file) : Stream[i] = file[i]
    BY <1>1, Joined DEF Stream
  <1>3. synced \in 0 .. Len(file) /\ sent \in 0 .. MaxWrites /\ base \in 0 .. sent /\ faults \in Nat
    BY DEF TypeInv, TypeOK
  <1>4. MaxWrites \in 0 .. 255
    BY BoundsAssumption
  <1>5. sent \in Nat /\ sent <= MaxWrites /\ base \in Nat /\ base <= sent
    BY <1>3, <1>4
  <1> QED
    BY <1>1, <1>2, <1>3, <1>4, <1>5

\* Initially there is an empty file.
LEMMA InitInv == Init => Inv
  <1> SUFFICES ASSUME Init PROVE Inv
    OBVIOUS
  <1>1. MaxWrites \in 0 .. 255
    BY BoundsAssumption
  <1>2. TypeInv
    <2>1. <<>> \in Seq(0 .. 255) /\ Len(<<>>) = 0 /\ 0 \in 0 .. 0 /\ 0 \in 0 .. MaxWrites
      BY <1>1
    <2> QED
      BY <2>1 DEF Init, TypeInv, TypeOK
  <1>3. (\A i \in 1 .. 0 : FALSE) /\ Numbers(0, <<>>) = {}
    BY DEF Numbers
  <1>4. BufferIs(0, <<1>>, <<>>)
    <2>1. Piece(kind, <<>>, 0, <<1>>, <<>>)
      BY NoFrame
    <2> QED
      BY <1>3, <2>1 DEF Init, BufferIs
  <1> DEFINE at == <<Len(Header(kind)) + 1>>
  <1>5. FileIs(0, at, <<>>)
    <2>1. kind \in Kinds /\ Stream = <<>>
      BY DEF Init, Stream
    <2>2. Covers(kind, <<>>, 0, at, <<>>)
      BY <2>1, NewFile
    <2> HIDE DEF at
    <2>3. InOrder(0, <<>>) /\ Vouched(0, at, <<>>) /\ OpenFile(0, at, <<>>)
      BY <1>3 DEF Init, InOrder, Vouched, OpenFile, IsOpen
    <2> QED
      BY <2>1, <2>2, <2>3 DEF FileIs
  <1>6. FileInv
    BY <1>5 DEF FileInv, Init
  <1> QED
    BY <1>2, <1>4, <1>6 DEF Inv, BufferInv

\* Every step keeps the types.
LEMMA TypeStep == TypeInv /\ [Next]_vars => TypeInv'
  <1> SUFFICES ASSUME TypeInv, [Next]_vars PROVE TypeInv'
    OBVIOUS
  <1> USE DEF TypeInv, TypeOK
  <1>0. MaxWrites \in 0 .. 255
    BY BoundsAssumption
  <1>1. CASE Open
    <2>1. Header(kind) \in Seq(0 .. 255)
      BY HeaderIs DEF Byte
    <2>2. file' \in Seq(0 .. 255) /\ synced' \in 0 .. Len(file')
      <3>1. CASE file = <<>>
        <4>1. file' = Header(kind) /\ synced' = 0
          BY <1>1, <3>1 DEF Open
        <4> QED
          BY <2>1, <4>1
      <3>2. CASE file # <<>>
        BY <1>1, <3>2 DEF Open
      <3> QED
        BY <3>1, <3>2
    <2>3. mode' \in {"refused", "opening", "up"}
      BY <1>1 DEF Open
    <2>4. base' \in 0 .. sent'
      BY <1>0, <1>1 DEF Open
    <2> QED
      BY <1>1, <2>2, <2>3, <2>4 DEF Open, memory
  <1>2. CASE OpenSync
    BY <1>2 DEF OpenSync, memory, ghosts
  <1>3. ASSUME NEW op \in Ops, write(op) PROVE TypeInv'
    <2> DEFINE r == [op |-> op, w |-> sent + 1]
    <2>1. r \in Record /\ sent + 1 \in Writes /\ sent' = sent + 1 /\ sent + 1 \in 0 .. MaxWrites
      BY <1>0, <1>3 DEF write, Record, Writes
    <2>2. encode(kind, r) \in Seq(0 .. 255)
      <3> HIDE DEF r
      <3> QED
        BY <2>1, EncodeIs DEF Byte
    <2>3. buffer' = buffer \o encode(kind, r) /\ inbuf' = inbuf \cup {sent + 1}
      BY <1>3 DEF write, append
    <2>4. buffer' \in Seq(0 .. 255)
      BY <2>2, <2>3, ConcatProperties
    <2>5. mode' \in {"up", "write"} /\ clear' = TRUE
      BY <1>3 DEF write, maybe_sync
    <2>6. inbuf' \subseteq Writes /\ base' \in 0 .. sent'
      BY <1>0, <1>3, <2>1, <2>3 DEF write, ghosts
    <2>7. UNCHANGED <<kind, disk, writer, ghosts>>
      BY <1>3 DEF write
    <2> QED
      BY <2>1, <2>4, <2>5, <2>6, <2>7 DEF disk, ghosts
  <1>4. CASE sync_now
    BY <1>4 DEF sync_now, disk, ghosts
  <1>5. CASE flush
    BY <1>5 DEF flush, disk, ghosts
  <1>6. CASE WriteOut
    <2>1. file' = (file \o writer) \o buffer
      BY <1>6 DEF WriteOut
    <2>2. /\ file \o writer \in Seq(0 .. 255) /\ Len(file \o writer) = Len(file) + Len(writer)
          /\ Len(file) \in Nat /\ Len(writer) \in Nat /\ Len(buffer) \in Nat
      BY ConcatProperties, LenProperties
    <2>3. file' \in Seq(0 .. 255) /\ Len(file') = (Len(file) + Len(writer)) + Len(buffer)
      BY <2>1, <2>2, ConcatProperties
    <2>4. synced' \in 0 .. Len(file')
      BY <1>6, <2>2, <2>3 DEF WriteOut
    <2> QED
      BY <1>6, <2>3, <2>4 DEF WriteOut, ghosts
  <1>7. CASE WriteFails
    <2> DEFINE all == writer \o buffer
    <2>1. PICK j \in 0 .. Len(all), copied \in BOOLEAN :
             LET kept == IF copied THEN all ELSE writer
             IN  /\ file' = file \o SubSeq(all, 1, j)
                 /\ writer' = SubSeq(kept, j + 1, Len(kept))
                 /\ clean' = (clean /\ ~Torn(file' \o writer'))
                 /\ Fail(IF copied THEN {} ELSE inbuf)
      BY <1>7 DEF WriteFails
    <2> DEFINE kept == IF copied THEN all ELSE writer
    <2>2. all \in Seq(Byte) /\ kept \in Seq(Byte) /\ Len(kept) <= Len(all) /\ file \in Seq(Byte)
          /\ \A i \in 1 .. Len(kept) : kept[i] = all[i]
      <3>1. writer \in Seq(Byte) /\ buffer \in Seq(Byte) /\ file \in Seq(Byte)
        BY DEF Byte
      <3>2. /\ all \in Seq(Byte) /\ Len(all) = Len(writer) + Len(buffer) /\ Len(writer) \in Nat /\ Len(buffer) \in Nat
            /\ \A i \in 1 .. Len(writer) : all[i] = writer[i]
        BY <3>1, Joined
      <3> HIDE DEF all
      <3> QED
        BY <3>1, <3>2
    <2>3. SubSeq(all, 1, j) \in Seq(Byte) /\ SubSeq(kept, j + 1, Len(kept)) \in Seq(Byte)
      <3> HIDE DEF all, kept
      <3> QED
        BY <2>2, Leftover
    <2>4. file' \in Seq(Byte) /\ writer' \in Seq(Byte) /\ Len(file') = Len(file) + Len(SubSeq(all, 1, j))
      <3>1. file' = file \o SubSeq(all, 1, j) /\ writer' = SubSeq(kept, j + 1, Len(kept))
        BY <2>1
      <3> HIDE DEF all, kept
      <3> QED
        BY <2>2, <2>3, <3>1, Joined
    <2>5. synced' \in 0 .. Len(file')
      <3>1. synced' = synced /\ Len(file) \in Nat /\ Len(SubSeq(all, 1, j)) \in Nat
        BY <2>1, <2>3, LenProperties DEF Fail
      <3> QED
        BY <2>4, <3>1
    <2>6. faults' = faults + 1 /\ mode' \in {"sync", "up"} /\ faults' \in Nat /\ faults' > 0
      BY <2>1 DEF Fail
    <2>7. clean' \in BOOLEAN
      BY <2>1
    <2>8. /\ buffer' \in Seq(0 .. 255) /\ inbuf' \subseteq Writes /\ gone' \subseteq Writes
      <3>1. CASE kind = "wal_thread"
        BY <2>1, <3>1 DEF Fail
      <3>2. CASE kind # "wal_thread"
        BY <2>1, <3>2 DEF Fail
      <3> QED
        BY <3>1, <3>2
    <2>9. UNCHANGED <<kind, clear, sent, base, acked, crashed, opens>>
      BY <2>1 DEF Fail
    <2> QED
      BY <2>4, <2>5, <2>6, <2>7, <2>8, <2>9 DEF Byte
  <1>8. CASE SyncAll
    <2>1. CASE clear
      BY <1>8, <2>1 DEF SyncAll
    <2>2. CASE ~clear
      BY <1>8, <2>2 DEF SyncAll
    <2> QED
      BY <2>1, <2>2
  <1>9. CASE SyncFails
    <2>1. faults' = faults + 1 /\ mode' = "up" /\ faults' \in Nat /\ faults' > 0
      BY <1>9 DEF SyncFails, Fail
    <2>2. /\ buffer' \in Seq(0 .. 255) /\ inbuf' \subseteq Writes /\ gone' \subseteq Writes
      <3>1. CASE kind = "wal_thread"
        BY <1>9, <3>1 DEF SyncFails, Fail
      <3>2. CASE kind # "wal_thread"
        BY <1>9, <3>2 DEF SyncFails, Fail
      <3> QED
        BY <3>1, <3>2
    <2>3. UNCHANGED <<kind, synced, clear, sent, base, acked, crashed, opens, file, writer, clean>>
      BY <1>9 DEF SyncFails, Fail
    <2> QED
      BY <2>1, <2>2, <2>3
  <1>10. CASE Close
    <2>1. /\ file \o writer \in Seq(0 .. 255) /\ Len(file \o writer) = Len(file) + Len(writer)
          /\ Len(file) \in Nat /\ Len(writer) \in Nat
      BY ConcatProperties, LenProperties
    <2>2. file' \in Seq(0 .. 255) /\ synced' \in 0 .. Len(file')
      BY <1>10, <2>1 DEF Close
    <2> QED
      BY <1>10, <2>2 DEF Close, Forget, ghosts
  <1>11. CASE Crash
    <2>1. PICK n \in synced .. Len(file) : file' = SubSeq(file, 1, n)
      BY <1>11 DEF Crash
    <2>2. n \in 0 .. Len(file) /\ Len(file) \in Nat
      OBVIOUS
    <2>3. file' \in Seq(Byte) /\ Len(file') = n
      <3>1. 1 \in 1 .. Len(file) + 1 /\ 1 <= n + 1 /\ n + 1 - 1 = n /\ file \in Seq(Byte)
        BY <2>2 DEF Byte
      <3> QED
        BY <2>1, <2>2, <3>1, PartOf
    <2>4. synced' \in 0 .. Len(file')
      BY <1>11, <2>2, <2>3 DEF Crash
    <2> QED
      BY <1>11, <2>3, <2>4 DEF Crash, Forget, Byte
  <1>12. CASE UNCHANGED vars
    BY <1>12 DEF vars, disk, memory, ghosts
  <1> QED
    BY <1>1, <1>2, <1>3, <1>4, <1>5, <1>6, <1>7, <1>8, <1>9, <1>10, <1>11, <1>12 DEF Next

-----------------------------------------------------------------------------
(* The buffer                                                              *)

\* A call that leaves buffer and counters alone, and one that empties it.
LEMMA BufferKept ==
  ASSUME BufferInv, UNCHANGED <<kind, buffer, inbuf, base, sent>>
  PROVE  BufferInv'
  <1>1. PICK n, at, rs : BufferIs(n, at, rs)
    BY DEF BufferInv
  <1>2. BufferIs(n, at, rs)'
    BY <1>1 DEF BufferIs
  <1> QED
    BY <1>2 DEF BufferInv

\* An empty buffer holds no frames.
LEMMA BufferEmptied ==
  ASSUME buffer' = <<>>, inbuf' = {}
  PROVE  BufferInv'
  <1>1. (\A i \in 1 .. 0 : FALSE) /\ Numbers(0, <<>>) = {}
    BY DEF Numbers
  <1>2. Piece(kind', <<>>, 0, <<1>>, <<>>)
    <2>1. 1 \in Nat \ {0}
      OBVIOUS
    <2>2. \A kd : Piece(kd, <<>>, 0, <<1>>, <<>>)
      BY <2>1, NoFrame
    <2> QED
      BY <2>2
  <1>3. BufferIs(0, <<1>>, <<>>)'
    BY <1>1, <1>2 DEF BufferIs
  <1> QED
    BY <1>3 DEF BufferInv

\* The numbers of frames behind frames.
LEMMA NumbersExtend ==
  ASSUME NEW n \in Nat, NEW k \in Nat, NEW at, NEW rs, NEW ss, NEW xt, NEW xs,
         Extends(n, at, rs, k, ss, xt, xs)
  PROVE  Numbers(n + k, xs) = Numbers(n, rs) \cup Numbers(k, ss)
  <1>1. /\ \A i \in 1 .. n : i \in 1 .. n + k /\ xs[i] = rs[i]
        /\ \A i \in 1 .. k : n + i \in 1 .. n + k /\ xs[n + i] = ss[i]
    BY DEF Extends
  <1>2. \A i \in 1 .. n + k : i \in 1 .. n \/ (i - n \in 1 .. k /\ n + (i - n) = i)
    OBVIOUS
  <1>3. ASSUME NEW w \in Numbers(n + k, xs) PROVE w \in Numbers(n, rs) \cup Numbers(k, ss)
    <2>1. PICK i \in 1 .. n + k : w = xs[i].w
      BY DEF Numbers
    <2>2. CASE i \in 1 .. n
      BY <1>1, <2>1, <2>2 DEF Numbers
    <2>3. CASE i - n \in 1 .. k /\ n + (i - n) = i
      <3>1. w = ss[i - n].w
        BY <1>1, <2>1, <2>3
      <3> QED
        BY <2>3, <3>1 DEF Numbers
    <2> QED
      BY <1>2, <2>2, <2>3
  <1>4. ASSUME NEW w \in Numbers(n, rs) PROVE w \in Numbers(n + k, xs)
    BY <1>1 DEF Numbers
  <1>5. ASSUME NEW w \in Numbers(k, ss) PROVE w \in Numbers(n + k, xs)
    BY <1>1 DEF Numbers
  <1> QED
    BY <1>3, <1>4, <1>5

\* Every step keeps the buffer in frames.
LEMMA BufferStep == TypeInv /\ BufferInv /\ [Next]_vars => BufferInv'
  <1> SUFFICES ASSUME TypeInv, BufferInv, [Next]_vars PROVE BufferInv'
    OBVIOUS
  <1>1. CASE Open
    <2>1. buffer' = <<>> /\ inbuf' = {}
      BY <1>1 DEF Open, memory, TypeInv
    <2> QED
      BY <2>1, BufferEmptied
  <1>2. CASE OpenSync
    BY <1>2, BufferKept DEF OpenSync, memory, ghosts
  <1>3. ASSUME NEW op \in Ops, write(op) PROVE BufferInv'
    <2> DEFINE r == [op |-> op, w |-> sent + 1]
               e == encode(kind, r)
    <2>1. PICK n, at, rs : BufferIs(n, at, rs)
      BY DEF BufferInv
    <2>2. /\ kind \in Kinds /\ buffer \in Seq(Byte) /\ sent \in Nat /\ base \in Nat /\ base <= sent
          /\ MaxWrites \in 0 .. 255
      BY Typed
    <2>3. /\ r \in Record /\ r.w = sent + 1 /\ buffer' = buffer \o e /\ inbuf' = inbuf \cup {sent + 1}
          /\ sent' = sent + 1 /\ base' = base /\ kind' = kind
      BY <1>3, <2>2 DEF write, append, ghosts, Record
    <2> HIDE DEF r
    <2>4. e \in Seq(Byte) /\ Piece(kind, e, 1, <<1, 1 + Size(kind, r)>>, <<r>>)
      BY <2>2, <2>3, EncodeIs, OneFrame
    <2>5. /\ Piece(kind, buffer, n, at, rs) /\ inbuf = Numbers(n, rs) /\ n \in Nat
          /\ \A i \in 1 .. n : rs[i].w \in base + 1 .. sent /\ \A j \in 1 .. i - 1 : rs[j].w < rs[i].w
      BY <2>1 DEF BufferIs, Piece, Lays
    <2> HIDE DEF e
    <2> DEFINE ss == <<r>>
               bt == <<1, 1 + Size(kind, r)>>
    <2>6. PICK xt, xs :
             /\ Lays(kind, 1, n + 1, xt, xs) /\ Holds(kind, buffer \o e, n + 1, xt, xs)
             /\ xt[(n + 1) + 1] = Len(buffer \o e) + 1
             /\ Extends(n, at, rs, 1, ss, xt, xs)
      <3>1. Lays(kind, 1, n, at, rs) /\ Holds(kind, buffer, n, at, rs) /\ at[n + 1] = Len(buffer) + 1
        BY <2>5 DEF Piece
      <3>2. Piece(kind, e, 1, bt, ss)
        BY <2>4
      <3> HIDE DEF ss, bt
      <3> QED
        BY <2>2, <2>4, <3>1, <3>2, Glue
    <2>7. Piece(kind', buffer', n + 1, xt, xs)
      BY <2>3, <2>6 DEF Piece
    <2>8. ss[1] = r
      OBVIOUS
    <2> HIDE DEF ss
    <2>9. (\A i \in 1 .. n : xs[i] = rs[i]) /\ xs[n + 1] = r
      BY <2>5, <2>6, <2>8 DEF Extends
    <2>10. Numbers(1, ss) = {sent + 1}
      <3>1. \A i \in 1 .. 1 : i = 1
        OBVIOUS
      <3> QED
        BY <2>3, <2>8, <3>1 DEF Numbers
    <2>11. inbuf' = Numbers(n + 1, xs)
      <3>1. Numbers(n + 1, xs) = Numbers(n, rs) \cup Numbers(1, ss)
        BY <2>5, <2>6, NumbersExtend
      <3> QED
        BY <2>3, <2>5, <2>10, <3>1
    <2>12. ASSUME NEW i \in 1 .. n + 1
           PROVE  xs[i].w \in base + 1 .. sent + 1 /\ \A j \in 1 .. i - 1 : xs[j].w < xs[i].w
      <3>1. CASE i \in 1 .. n
        <4>1. xs[i] = rs[i] /\ \A j \in 1 .. i - 1 : xs[j] = rs[j]
          BY <2>5, <2>9, <3>1
        <4>2. rs[i].w \in base + 1 .. sent /\ \A j \in 1 .. i - 1 : rs[j].w < rs[i].w
          BY <2>5, <3>1
        <4>3. rs[i].w \in base + 1 .. sent + 1
          BY <2>2, <4>2
        <4> QED
          BY <4>1, <4>2, <4>3
      <3>2. CASE i = n + 1
        <4>1. xs[i].w = sent + 1
          BY <2>3, <2>9, <3>2
        <4>2. ASSUME NEW j \in 1 .. i - 1 PROVE xs[j].w < sent + 1
          <5>1. j \in 1 .. n
            BY <2>5, <3>2
          <5>2. xs[j].w \in base + 1 .. sent
            BY <2>5, <2>9, <5>1
          <5> QED
            BY <2>2, <5>2
        <4>3. sent + 1 \in base + 1 .. sent + 1
          BY <2>2
        <4> QED
          BY <4>1, <4>2, <4>3
      <3> QED
        BY <2>5, <3>1, <3>2
    <2>13. BufferIs(n + 1, xt, xs)'
      BY <2>3, <2>7, <2>11, <2>12 DEF BufferIs
    <2> QED
      BY <2>13 DEF BufferInv
  <1>4. CASE sync_now
    BY <1>4, BufferKept DEF sync_now, ghosts
  <1>5. CASE flush
    BY <1>5, BufferKept DEF flush, ghosts
  <1>6. CASE WriteOut
    BY <1>6, BufferKept DEF WriteOut, ghosts
  <1>7. ASSUME NEW lost, Fail(lost) PROVE BufferInv'
    <2>1. CASE kind = "wal_thread"
      BY <1>7, <2>1, BufferEmptied DEF Fail
    <2>2. CASE kind # "wal_thread"
      BY <1>7, <2>2, BufferKept DEF Fail
    <2> QED
      BY <2>1, <2>2
  <1>8. CASE WriteFails
    <2>1. \E lost : Fail(lost)
      BY <1>8 DEF WriteFails
    <2> QED
      BY <1>7, <2>1
  <1>9. CASE SyncFails
    BY <1>7, <1>9 DEF SyncFails
  <1>10. CASE SyncAll
    <2>1. CASE clear
      BY <1>10, <2>1, BufferEmptied DEF SyncAll
    <2>2. CASE ~clear
      BY <1>10, <2>2, BufferKept DEF SyncAll
    <2> QED
      BY <2>1, <2>2
  <1>11. CASE Close
    BY <1>11, BufferEmptied DEF Close, Forget
  <1>12. CASE Crash
    BY <1>12, BufferEmptied DEF Crash, Forget
  <1>13. CASE UNCHANGED vars
    BY <1>13, BufferKept DEF vars, memory, ghosts
  <1> QED
    BY <1>1, <1>2, <1>3, <1>4, <1>5, <1>6, <1>8, <1>9, <1>10, <1>11, <1>12, <1>13 DEF Next

-----------------------------------------------------------------------------
(* The file                                                                *)

\* A buffer put behind a whole file.
LEMMA CoversGlue ==
  ASSUME NEW kd \in Kinds, NEW s \in Seq(Byte), NEW b \in Seq(Byte),
         NEW n, NEW at, NEW rs, NEW k, NEW bt, NEW ss,
         Covers(kd, s, n, at, rs), at[n + 1] = Len(s) + 1, Piece(kd, b, k, bt, ss)
  PROVE  \E xt, xs :
            /\ Covers(kd, s \o b, n + k, xt, xs)
            /\ xt[(n + k) + 1] = Len(s \o b) + 1
            /\ Extends(n, at, rs, k, ss, xt, xs)
  <1> DEFINE h == Len(Header(kd))
  <1>1. /\ Lays(kd, h + 1, n, at, rs) /\ Holds(kd, s, n, at, rs)
        /\ \A q \in 1 .. h : q <= Len(s) => s[q] = Header(kd)[q]
    BY DEF Covers
  <1>2. PICK xt, xs :
           /\ Lays(kd, h + 1, n + k, xt, xs) /\ Holds(kd, s \o b, n + k, xt, xs)
           /\ xt[(n + k) + 1] = Len(s \o b) + 1
           /\ Extends(n, at, rs, k, ss, xt, xs)
    <2> DEFINE p == h + 1
    <2>1. Lays(kd, p, n, at, rs)
      BY <1>1
    <2> HIDE DEF p
    <2>2. \E xt, xs :
             /\ Lays(kd, p, n + k, xt, xs) /\ Holds(kd, s \o b, n + k, xt, xs)
             /\ xt[(n + k) + 1] = Len(s \o b) + 1
             /\ Extends(n, at, rs, k, ss, xt, xs)
      BY <1>1, <2>1, Glue
    <2> QED
      BY <2>2 DEF p
  <1>3. h <= Len(s) /\ h \in Nat /\ Len(s) \in Nat /\ n \in Nat
    <2>1. /\ n \in Nat /\ at[1] = h + 1 /\ h \in Nat /\ Len(s) \in Nat
          /\ \A i \in 1 .. n + 1 : at[i] \in Nat
      BY <1>1, HeaderIs DEF Lays
    <2>2. \A i, j \in 1 .. n + 1 : i < j => at[i] < at[j]
      BY <1>1, Rising
    <2>3. 1 \in 1 .. n + 1 /\ n + 1 \in 1 .. n + 1 /\ (1 < n + 1 \/ n + 1 = 1)
      BY <2>1
    <2>4. at[1] <= at[n + 1]
      BY <2>1, <2>2, <2>3
    <2> HIDE DEF h
    <2> QED
      BY <2>1, <2>4
  <1>4. ASSUME NEW q \in 1 .. h PROVE (s \o b)[q] = Header(kd)[q]
    <2>1. q \in 1 .. Len(s) /\ q <= Len(s)
      BY <1>3
    <2>2. (s \o b)[q] = s[q]
      BY <2>1, Joined
    <2> QED
      BY <1>1, <2>1, <2>2
  <1>5. Covers(kd, s \o b, n + k, xt, xs)
    <2>1. Len(s \o b) + 1 <= xt[(n + k) + 1]
      <3>1. Len(s \o b) \in Nat
        BY Joined
      <3> QED
        BY <1>2, <3>1
    <2> QED
      BY <1>2, <1>4, <2>1 DEF Covers
  <1> QED
    BY <1>2, <1>5

\* The order survives a batch.
LEMMA OrderGlue ==
  ASSUME TypeInv, NEW n \in Nat, NEW rs, NEW at, NEW k \in Nat, NEW bt, NEW ss, NEW xt, NEW xs,
         InOrder(n, rs), BufferIs(k, bt, ss), Extends(n, at, rs, k, ss, xt, xs),
         \A w \in base + 1 .. sent : w \in gone \/ w \in inbuf \/ w \in Numbers(n, rs),
         kind # "store_log" /\ faults = 0 => \A w \in inbuf : w \notin Numbers(n, rs)
  PROVE  InOrder(n + k, xs)
  <1>1. /\ \A i \in 1 .. n : xs[i] = rs[i]
        /\ \A i \in 1 .. k : xs[n + i] = ss[i]
    BY DEF Extends
  <1>2. \A i \in 1 .. n + k : i \in 1 .. n \/ (i - n \in 1 .. k /\ n + (i - n) = i)
    OBVIOUS
  <1>3. sent \in Nat /\ base \in Nat /\ base <= sent
    BY Typed
  <1>4. /\ inbuf = Numbers(k, ss)
        /\ \A i \in 1 .. k : ss[i].w \in base + 1 .. sent /\ \A j \in 1 .. i - 1 : ss[j].w < ss[i].w
    BY DEF BufferIs
  <1> DEFINE Is(i) ==
                /\ xs[i].w \in 1 .. sent
                /\ xs[i].w > base =>
                      \A w \in base + 1 .. xs[i].w - 1 : w \in gone \/ \E j \in 1 .. i - 1 : xs[j].w = w
                /\ kind # "store_log" /\ faults = 0 => \A j \in 1 .. i - 1 : xs[j].w # xs[i].w
  <1>5. ASSUME NEW i \in 1 .. n PROVE Is(i)
    <2>1. xs[i] = rs[i] /\ \A j \in 1 .. i - 1 : j \in 1 .. n /\ xs[j] = rs[j]
      BY <1>1
    <2> QED
      BY <2>1 DEF InOrder
  <1>6. ASSUME NEW l \in 1 .. k PROVE Is(n + l)
    <2>1. xs[n + l] = ss[l] /\ ss[l].w \in base + 1 .. sent /\ \A j \in 1 .. l - 1 : ss[j].w < ss[l].w
      BY <1>1, <1>4
    <2>2. ss[l].w \in 1 .. sent /\ ss[l].w \in Nat
      BY <1>3, <2>1
    <2>3. /\ \A i \in 1 .. n : i \in 1 .. (n + l) - 1
          /\ \A i \in 1 .. l - 1 : i \in 1 .. k /\ n + i \in 1 .. (n + l) - 1
          /\ \A i \in 1 .. (n + l) - 1 : i \in 1 .. n \/ (i - n \in 1 .. l - 1 /\ n + (i - n) = i)
      OBVIOUS
    <2>4. ASSUME NEW w \in base + 1 .. ss[l].w - 1
          PROVE  w \in gone \/ \E j \in 1 .. (n + l) - 1 : xs[j].w = w
      <3>1. w \in base + 1 .. sent /\ w < ss[l].w
        BY <1>3, <2>1, <2>2
      <3>2. CASE w \in gone
        BY <3>2
      <3>3. CASE w \in Numbers(n, rs)
        <4>1. PICK i \in 1 .. n : w = rs[i].w
          BY <3>3 DEF Numbers
        <4> QED
          BY <1>1, <2>3, <4>1
      <3>4. CASE w \in inbuf
        <4>1. PICK i \in 1 .. k : w = ss[i].w
          BY <1>4, <3>4 DEF Numbers
        <4>2. i \in 1 .. l - 1
          <5>1. CASE i < l
            BY <5>1
          <5>2. CASE i = l
            BY <2>2, <3>1, <4>1, <5>2
          <5>3. CASE i > l
            <6>1. l \in 1 .. i - 1
              BY <5>3
            <6>2. ss[l].w < ss[i].w /\ ss[i].w \in base + 1 .. sent
              BY <1>4, <6>1
            <6> QED
              BY <1>3, <2>2, <3>1, <4>1, <6>2
          <5> QED
            BY <5>1, <5>2, <5>3
        <4>3. xs[n + i].w = w /\ n + i \in 1 .. (n + l) - 1
          BY <1>1, <2>3, <4>1, <4>2
        <4> QED
          BY <4>3
      <3> QED
        BY <3>1, <3>2, <3>3, <3>4
    <2>5. ASSUME kind # "store_log", faults = 0, NEW j \in 1 .. (n + l) - 1 PROVE xs[j].w # ss[l].w
      <3>1. CASE j \in 1 .. n
        <4>1. rs[j].w \in Numbers(n, rs) /\ ss[l].w \in inbuf
          BY <1>4, <3>1 DEF Numbers
        <4> QED
          BY <1>1, <2>5, <3>1, <4>1
      <3>2. CASE j - n \in 1 .. l - 1 /\ n + (j - n) = j
        <4>1. j - n \in 1 .. k /\ xs[j] = ss[j - n]
          BY <1>1, <2>3, <3>2
        <4>2. ss[j - n].w < ss[l].w /\ ss[j - n].w \in base + 1 .. sent
          BY <1>4, <2>1, <3>2, <4>1
        <4> QED
          BY <1>3, <2>2, <4>1, <4>2
      <3> QED
        BY <2>3, <3>1, <3>2
    <2> QED
      BY <2>1, <2>2, <2>4, <2>5
  <1>7. \A i \in 1 .. n + k : Is(i)
    <2> HIDE DEF Is
    <2> QED
      BY <1>2, <1>5, <1>6
  <1> QED
    BY <1>7 DEF InOrder

\* What the invariant says of an open file, and of the numbers in a state.
LEMMA FileFacts ==
  ASSUME TypeInv, NEW n, NEW at, NEW rs, FileIs(n, at, rs)
  PROVE  /\ n \in Nat /\ Covers(kind, Stream, n, at, rs) /\ Covers(kind, file, n, at, rs)
         /\ \A i \in 1 .. n + 1 : at[i] \in Nat \ {0}
         /\ \A i, j \in 1 .. n + 1 : i < j => at[i] < at[j]
         /\ \E m : Delivers(kind, file, n, at, rs, m)
  <1>1. Covers(kind, Stream, n, at, rs)
    BY DEF FileIs
  <1>2. /\ kind \in Kinds /\ file \in Seq(Byte) /\ Stream \in Seq(Byte) /\ Len(file) <= Len(Stream)
        /\ \A i \in 1 .. Len(file) : file[i] = Stream[i]
    BY Typed
  <1>3. Covers(kind, file, n, at, rs)
    BY <1>1, <1>2, CutCovers
  <1>4. n \in Nat /\ (\A i \in 1 .. n + 1 : at[i] \in Nat \ {0})
    BY <1>1 DEF Covers, Lays
  <1>5. \A i, j \in 1 .. n + 1 : i < j => at[i] < at[j]
    BY <1>1, Rising DEF Covers
  <1>6. \E m : Delivers(kind, file, n, at, rs, m)
    BY <1>2, <1>3, ReplayReadsBack
  <1> QED
    BY <1>1, <1>3, <1>4, <1>5, <1>6

\* Open: a clean file that is opened ends with a frame.
LEMMA OpenStep ==
  ASSUME TypeInv, FileInv, Open
  PROVE  FileInv'
  <1>1. /\ kind \in Kinds /\ file \in Seq(Byte) /\ synced \in 0 .. Len(file) /\ sent \in Nat
        /\ Len(file) \in Nat
    BY Typed
  <1>2. /\ writer = <<>> /\ inbuf = {} /\ mode = "closed"
    BY DEF Open, TypeInv
  <1>3. Stream = file
    BY <1>1, <1>2, ConcatEmptySeq DEF Stream
  <1>4. /\ kind' = kind /\ writer' = <<>> /\ inbuf' = {} /\ base' = sent /\ sent' = sent /\ gone' = gone
        /\ acked' = acked /\ synced' = synced /\ crashed' = crashed /\ faults' = faults
        /\ file' = (IF file = <<>> THEN Header(kind) ELSE file)
        /\ clean' = (clean /\ ~Torn(file))
    BY <1>2 DEF Open, memory
  <1>5. mode' \in {"refused", "opening", "up"} /\ (mode' = "refused" => ~replay(kind, file).ok)
    BY DEF Open, Refuses
  <1>6. ASSUME ~crashed', faults' = 0 PROVE clean'
    <2>1. clean
      BY <1>4, <1>6 DEF FileInv
    <2>2. PICK n, at, rs : FileIs(n, at, rs)
      BY <2>1 DEF FileInv
    <2>3. PICK m : Delivers(kind, file, n, at, rs, m)
      BY <2>2, FileFacts
    <2>4. file = <<>> \/ at[n + 1] = Len(file) + 1
      BY <1>2, <1>3, <1>4, <1>6, <2>2 DEF FileIs
    <2>5. replay(kind, file).tail = 0
      BY <2>3, <2>4 DEF Delivers
    <2> QED
      BY <1>4, <2>1, <2>5 DEF Torn
  <1>7. ASSUME clean' PROVE mode' # "refused" /\ \E n, at, rs : FileIs(n, at, rs)'
    <2>1. clean /\ replay(kind, file).tail = 0
      BY <1>4, <1>7 DEF Torn
    <2>2. PICK n, at, rs : FileIs(n, at, rs)
      BY <2>1 DEF FileInv
    <2>3. PICK m : Delivers(kind, file, n, at, rs, m)
      BY <2>2, FileFacts
    <2>4. /\ n \in Nat /\ Covers(kind, file, n, at, rs)
          /\ \A i \in 1 .. n + 1 : at[i] \in Nat \ {0}
          /\ \A i, j \in 1 .. n + 1 : i < j => at[i] < at[j]
      BY <2>2, FileFacts
    <2>5. mode' # "refused" /\ mode' \in {"opening", "up"}
      <3>1. replay(kind, file).ok
        BY <2>1, <2>3 DEF Delivers
      <3> QED
        BY <1>5, <3>1
    <2>6. /\ m \in 0 .. n /\ (file = <<>> \/ at[m + 1] = Len(file) + 1)
          /\ \A i \in 1 .. n : at[i + 1] <= Len(file) + 1 => i <= m
      BY <2>1, <2>3 DEF Delivers
    <2>7. InOrder(n, rs) /\ Vouched(n, at, rs)
      BY <2>2 DEF FileIs
    <2>8. \A w \in base' + 1 .. sent' : FALSE
      BY <1>1, <1>4
    <2>9. CASE file = <<>>
      <3>1. PICK a : Covers(kind, Header(kind), 0, a, <<>>) /\ a[0 + 1] = Len(Header(kind)) + 1
        BY <1>1, NewFile
      <3>2. Stream' = Header(kind)
        <4>1. Header(kind) \in Seq(Byte) /\ file' = Header(kind)
          BY <1>1, <1>4, <2>9, HeaderIs
        <4> QED
          BY <1>4, <4>1, ConcatEmptySeq DEF Stream
      <3>3. acked = {}
        <4> SUFFICES ASSUME NEW w \in acked PROVE FALSE
          OBVIOUS
        <4>1. PICK i \in 1 .. n : at[i + 1] <= synced + 1
          BY <2>7 DEF Vouched
        <4>2. synced = 0
          BY <1>1, <2>9
        <4>3. 1 \in 1 .. n + 1 /\ i + 1 \in 1 .. n + 1 /\ 1 < i + 1
          BY <2>4
        <4>4. at[1] < at[i + 1] /\ at[1] \in Nat \ {0} /\ at[i + 1] \in Nat
          BY <2>4, <4>3
        <4> QED
          BY <4>1, <4>2, <4>4
      <3>4. \A i \in 1 .. 0 : FALSE
        OBVIOUS
      <3>5. InOrder(0, <<>>)' /\ Vouched(0, a, <<>>)'
        BY <1>4, <3>3, <3>4 DEF InOrder, Vouched
      <3>6. OpenFile(0, a, <<>>)'
        BY <1>4, <2>5, <2>8, <3>1, <3>2 DEF OpenFile
      <3>7. FileIs(0, a, <<>>)'
        BY <1>4, <2>5, <3>1, <3>2, <3>5, <3>6 DEF FileIs
      <3> QED
        BY <2>5, <3>7
    <2>10. CASE file # <<>>
      <3>1. at[m + 1] = Len(file) + 1 /\ Stream' = file
        BY <1>1, <1>4, <2>6, <2>10, ConcatEmptySeq DEF Stream
      <3>2. Covers(kind, file, m, at, rs)
        <4>1. Len(file) + 1 <= at[m + 1]
          BY <1>1, <3>1
        <4> QED
          BY <2>4, <2>6, <4>1, DropCovers
      <3>3. InOrder(m, rs)'
        <4> SUFFICES ASSUME NEW i \in 1 .. m
                     PROVE  /\ rs[i].w \in 1 .. sent /\ ~(rs[i].w > sent)
                            /\ kind # "store_log" /\ faults = 0 => \A j \in 1 .. i - 1 : rs[j].w # rs[i].w
          BY <1>4 DEF InOrder
        <4>1. i \in 1 .. n
          BY <2>4, <2>6
        <4> QED
          BY <1>1, <2>7, <4>1 DEF InOrder
      <3>4. Vouched(m, at, rs)'
        <4> SUFFICES ASSUME NEW w \in acked
                     PROVE  \E i \in 1 .. m : rs[i].w = w /\ at[i + 1] <= synced + 1
          BY <1>4 DEF Vouched
        <4>1. PICK i \in 1 .. n : rs[i].w = w /\ at[i + 1] <= synced + 1
          BY <2>7 DEF Vouched
        <4>2. i + 1 \in 1 .. n + 1
          BY <2>4
        <4>3. at[i + 1] \in Nat
          BY <2>4, <4>2
        <4>4. at[i + 1] <= Len(file) + 1
          BY <1>1, <4>1, <4>3
        <4>5. i \in 1 .. m
          BY <2>4, <2>6, <4>4
        <4> QED
          BY <4>1, <4>5
      <3>5. OpenFile(m, at, rs)'
        BY <1>4, <2>5, <2>8, <3>1 DEF OpenFile
      <3>6. FileIs(m, at, rs)'
        BY <1>4, <2>5, <3>1, <3>2, <3>3, <3>4, <3>5 DEF FileIs
      <3> QED
        BY <2>5, <3>6
    <2> QED
      BY <2>9, <2>10
  <1> QED
    BY <1>6, <1>7 DEF FileInv

\* A step that leaves the bytes and what was vouched for alone.
LEMMA SameBytes ==
  ASSUME TypeInv, NEW n, NEW at, NEW rs, FileIs(n, at, rs),
         UNCHANGED <<kind, base, gone, acked, faults, crashed, Stream>>,
         synced' \in Nat, synced <= synced', sent' \in Nat, sent <= sent',
         OpenFile(n, at, rs)', mode' # "closed"
  PROVE  FileIs(n, at, rs)'
  <1>1. sent \in Nat /\ synced \in Nat
    BY Typed
  <1>2. /\ n \in Nat /\ \A i \in 1 .. n + 1 : at[i] \in Nat
    BY FileFacts
  <1>3. InOrder(n, rs)'
    <2>1. InOrder(n, rs)
      BY DEF FileIs
    <2>2. \A i \in 1 .. n : rs[i].w \in 1 .. sent'
      BY <1>1, <2>1 DEF InOrder
    <2> QED
      BY <2>1, <2>2 DEF InOrder
  <1>4. Vouched(n, at, rs)'
    <2> SUFFICES ASSUME NEW w \in acked
                 PROVE  \E i \in 1 .. n : rs[i].w = w /\ at[i + 1] <= synced' + 1
      BY DEF Vouched
    <2>1. PICK i \in 1 .. n : rs[i].w = w /\ at[i + 1] <= synced + 1
      BY DEF FileIs, Vouched
    <2>2. i + 1 \in 1 .. n + 1
      BY <1>2
    <2>3. at[i + 1] \in Nat
      BY <1>2, <2>2
    <2>4. at[i + 1] <= synced' + 1
      BY <1>1, <2>1, <2>3
    <2> QED
      BY <2>1, <2>4
  <1>5. Covers(kind', Stream', n, at, rs)
    BY DEF FileIs
  <1> QED
    BY <1>3, <1>4, <1>5 DEF FileIs

\* The calls that do not write.
LEMMA OpenSyncStep ==
  ASSUME TypeInv, FileInv, OpenSync
  PROVE  FileInv'
  <1>1. /\ synced \in 0 .. Len(file) /\ Len(file) \in Nat /\ sent \in Nat /\ inbuf = {}
    BY Typed DEF OpenSync, TypeInv
  <1>2. /\ UNCHANGED <<kind, base, gone, acked, faults, crashed, Stream, sent, inbuf, clean>>
        /\ synced' = Len(file) /\ mode' = "up" /\ mode = "opening"
    BY DEF OpenSync, memory, ghosts, Stream
  <1>3. ASSUME clean' PROVE \E n, at, rs : FileIs(n, at, rs)'
    <2>1. PICK n, at, rs : FileIs(n, at, rs)
      BY <1>2, <1>3 DEF FileInv
    <2>2. OpenFile(n, at, rs)'
      BY <1>1, <1>2, <2>1 DEF FileIs, OpenFile, IsOpen
    <2>3. synced' \in Nat /\ synced <= synced' /\ sent' \in Nat /\ sent <= sent'
      BY <1>1, <1>2
    <2> QED
      BY <1>2, <2>1, <2>2, <2>3, SameBytes
  <1> QED
    BY <1>2, <1>3 DEF FileInv

\* A write changes no byte of the file or of the writer.
LEMMA WriteStep ==
  ASSUME TypeInv, FileInv, NEW op \in Ops, write(op)
  PROVE  FileInv'
  <1>1. /\ synced \in 0 .. Len(file) /\ Len(file) \in Nat /\ sent \in Nat /\ base \in Nat
    BY Typed
  <1>2. /\ UNCHANGED <<kind, base, gone, acked, faults, crashed, Stream, synced, clean>>
        /\ sent' = sent + 1 /\ inbuf' = inbuf \cup {sent + 1}
        /\ mode' \in {"up", "write"} /\ mode = "up"
    BY DEF write, append, maybe_sync, disk, ghosts, Stream
  <1>3. ASSUME clean' PROVE \E n, at, rs : FileIs(n, at, rs)'
    <2>1. PICK n, at, rs : FileIs(n, at, rs)
      BY <1>2, <1>3 DEF FileInv
    <2>2. /\ at[n + 1] = Len(Stream) + 1
          /\ \A w \in base + 1 .. sent : w \in gone \/ w \in inbuf \/ w \in Numbers(n, rs)
          /\ kind # "store_log" /\ faults = 0 => \A w \in inbuf : w \notin Numbers(n, rs)
      BY <1>2, <2>1 DEF FileIs, OpenFile, IsOpen
    <2>3. sent + 1 \notin Numbers(n, rs)
      <3>1. \A i \in 1 .. n : rs[i].w \in 1 .. sent
        BY <2>1 DEF FileIs, InOrder
      <3> QED
        BY <1>1, <3>1 DEF Numbers
    <2>4. \A w \in base + 1 .. sent + 1 : w \in base + 1 .. sent \/ w = sent + 1
      BY <1>1
    <2>5. OpenFile(n, at, rs)'
      <3>1. \A w \in base' + 1 .. sent' : w \in gone' \/ w \in inbuf' \/ w \in Numbers(n, rs)
        BY <1>2, <2>2, <2>4
      <3>2. kind' # "store_log" /\ faults' = 0 => \A w \in inbuf' : w \notin Numbers(n, rs)
        BY <1>2, <2>2, <2>3
      <3> QED
        BY <1>2, <2>2, <3>1, <3>2 DEF OpenFile
    <2>6. synced' \in Nat /\ synced <= synced' /\ sent' \in Nat /\ sent <= sent' /\ mode' # "closed"
      BY <1>1, <1>2
    <2> QED
      BY <1>2, <2>1, <2>5, <2>6, SameBytes
  <1> QED
    BY <1>2, <1>3 DEF FileInv

\* Nor does a call of sync_now or flush, which only starts.
LEMMA CallStep ==
  ASSUME TypeInv, FileInv, sync_now \/ flush
  PROVE  FileInv'
  <1>1. /\ synced \in 0 .. Len(file) /\ Len(file) \in Nat /\ sent \in Nat
    BY Typed
  <1>2. /\ UNCHANGED <<kind, base, gone, acked, faults, crashed, Stream, synced, clean, sent, inbuf>>
        /\ mode' = "write" /\ mode = "up"
    BY DEF sync_now, flush, disk, ghosts, Stream
  <1>3. ASSUME clean' PROVE \E n, at, rs : FileIs(n, at, rs)'
    <2>1. PICK n, at, rs : FileIs(n, at, rs)
      BY <1>2, <1>3 DEF FileInv
    <2>2. OpenFile(n, at, rs)'
      BY <1>2, <2>1 DEF FileIs, OpenFile, IsOpen
    <2>3. synced' \in Nat /\ synced <= synced' /\ sent' \in Nat /\ sent <= sent' /\ mode' # "closed"
      BY <1>1, <1>2
    <2> QED
      BY <1>2, <2>1, <2>2, <2>3, SameBytes
  <1> QED
    BY <1>2, <1>3 DEF FileInv

\* The write: the batch goes behind the whole file.
LEMMA WriteOutStep ==
  ASSUME TypeInv, BufferInv, FileInv, WriteOut
  PROVE  FileInv'
  <1>1. /\ kind \in Kinds /\ Stream \in Seq(Byte) /\ buffer \in Seq(Byte) /\ sent \in Nat
    BY Typed
  <1>2. /\ UNCHANGED <<kind, base, gone, acked, faults, crashed, synced, clean, sent, inbuf>>
        /\ mode' = "sync" /\ mode = "write" /\ writer' = <<>> /\ file' = Stream \o buffer
    BY DEF WriteOut, ghosts, Stream
  <1>3. Stream' = Stream \o buffer
    <2>1. Stream \o buffer \in Seq(Byte)
      BY <1>1, Joined
    <2>2. Stream' = file' \o writer'
      BY DEF Stream
    <2> QED
      BY <1>2, <2>1, <2>2, ConcatEmptySeq
  <1>4. ASSUME clean' PROVE \E n, at, rs : FileIs(n, at, rs)'
    <2>1. PICK n, at, rs : FileIs(n, at, rs)
      BY <1>2, <1>4 DEF FileInv
    <2>2. PICK k, bt, ss : BufferIs(k, bt, ss)
      BY DEF BufferInv
    <2>3. /\ at[n + 1] = Len(Stream) + 1
          /\ \A w \in base + 1 .. sent : w \in gone \/ w \in inbuf \/ w \in Numbers(n, rs)
          /\ kind # "store_log" /\ faults = 0 => \A w \in inbuf : w \notin Numbers(n, rs)
      BY <1>2, <2>1 DEF FileIs, OpenFile, IsOpen
    <2>4. /\ n \in Nat /\ k \in Nat /\ Covers(kind, Stream, n, at, rs) /\ Piece(kind, buffer, k, bt, ss)
          /\ InOrder(n, rs) /\ Vouched(n, at, rs) /\ inbuf = Numbers(k, ss)
      BY <2>1, <2>2 DEF FileIs, BufferIs, Covers, Piece, Lays
    <2>5. PICK xt, xs :
             /\ Covers(kind, Stream \o buffer, n + k, xt, xs)
             /\ xt[(n + k) + 1] = Len(Stream \o buffer) + 1
             /\ Extends(n, at, rs, k, ss, xt, xs)
      BY <1>1, <2>3, <2>4, CoversGlue
    <2>6. InOrder(n + k, xs)
      BY <2>2, <2>3, <2>4, <2>5, OrderGlue
    <2>7. Numbers(n + k, xs) = Numbers(n, rs) \cup inbuf
      BY <2>4, <2>5, NumbersExtend
    <2>8. Vouched(n + k, xt, xs)
      <3> SUFFICES ASSUME NEW w \in acked
                   PROVE  \E i \in 1 .. n + k : xs[i].w = w /\ xt[i + 1] <= synced + 1
        BY DEF Vouched
      <3>1. PICK i \in 1 .. n : rs[i].w = w /\ at[i + 1] <= synced + 1
        BY <2>4 DEF Vouched
      <3>2. i \in 1 .. n + k /\ i + 1 \in 1 .. n + 1
        BY <2>4
      <3>3. xs[i] = rs[i] /\ xt[i + 1] = at[i + 1]
        BY <2>5, <3>2 DEF Extends
      <3> QED
        BY <3>1, <3>2, <3>3
    <2>9. InOrder(n + k, xs)' /\ Vouched(n + k, xt, xs)'
      BY <1>2, <2>6, <2>8 DEF InOrder, Vouched
    <2>10. OpenFile(n + k, xt, xs)'
      <3>1. /\ \A w \in base' + 1 .. sent' : w \in gone' \/ w \in inbuf' \/ w \in Numbers(n + k, xs)
            /\ inbuf' \subseteq Numbers(n + k, xs)
        BY <1>2, <2>3, <2>7
      <3>2. xt[(n + k) + 1] = Len(Stream') + 1
        BY <1>3, <2>5
      <3> QED
        BY <1>2, <3>1, <3>2 DEF OpenFile
    <2>11. Covers(kind', Stream', n + k, xt, xs)
      BY <1>2, <1>3, <2>5
    <2>12. FileIs(n + k, xt, xs)'
      BY <1>2, <2>9, <2>10, <2>11 DEF FileIs
    <2> QED
      BY <2>12
  <1> QED
    BY <1>2, <1>4 DEF FileInv

\* A failed write: a beginning of the batch goes behind the file, and only a
\* batch given up at the end of a frame leaves the file clean.
LEMMA WriteFailsStep ==
  ASSUME TypeInv, BufferInv, FileInv, WriteFails
  PROVE  FileInv'
  <1> DEFINE all == writer \o buffer
             c == Stream \o buffer
  <1>1. /\ kind \in Kinds /\ Stream \in Seq(Byte) /\ buffer \in Seq(Byte) /\ sent \in Nat
        /\ file \in Seq(Byte) /\ writer \in Seq(Byte) /\ faults \in Nat
        /\ Len(Stream) = Len(file) + Len(writer) /\ Len(file) \in Nat /\ Len(writer) \in Nat
    BY Typed
  <1>2. PICK j \in 0 .. Len(all), copied \in BOOLEAN :
           LET kept == IF copied THEN all ELSE writer
           IN  /\ file' = file \o SubSeq(all, 1, j)
               /\ writer' = SubSeq(kept, j + 1, Len(kept))
               /\ clean' = (clean /\ ~Torn(file' \o writer'))
               /\ Fail(IF copied THEN {} ELSE inbuf)
    BY DEF WriteFails
  <1> DEFINE kept == IF copied THEN all ELSE writer
             u == SubSeq(all, 1, j)
             v == SubSeq(kept, j + 1, Len(kept))
             x == u \o v
  <1>3. /\ all \in Seq(Byte) /\ Len(all) = Len(writer) + Len(buffer) /\ Len(buffer) \in Nat /\ Len(all) \in Nat
        /\ \A i \in 1 .. Len(writer) : all[i] = writer[i]
    BY <1>1, Joined
  <1>4. /\ UNCHANGED <<kind, synced, sent, base, acked, crashed>>
        /\ faults' # 0 /\ mode = "write" /\ mode' \in {"up", "sync"}
        /\ clean' = (clean /\ ~Torn(Stream'))
        /\ mode' = "sync" => kind = "wal_thread"
        /\ kind # "wal_thread" => inbuf' = inbuf /\ gone' = gone
        /\ kind = "wal_thread" => inbuf' = {} /\ gone' = gone \cup (IF copied THEN {} ELSE inbuf)
        /\ gone \subseteq gone'
    <2>1. Stream' = file' \o writer'
      BY DEF Stream
    <2>2. Fail(IF copied THEN {} ELSE inbuf) /\ clean' = (clean /\ ~Torn(file' \o writer')) /\ mode = "write"
      BY <1>2 DEF WriteFails
    <2>3. faults' # 0
      BY <1>1, <2>2 DEF Fail
    <2> HIDE DEF all
    <2>4. CASE kind = "wal_thread"
      BY <2>1, <2>2, <2>3, <2>4 DEF Fail
    <2>5. CASE kind # "wal_thread"
      BY <2>1, <2>2, <2>3, <2>5 DEF Fail
    <2> QED
      BY <2>4, <2>5
  <1>5. file' = file \o u /\ writer' = v
    BY <1>2
  <1>6. /\ kept \in Seq(Byte) /\ Len(kept) <= Len(all) /\ \A i \in 1 .. Len(kept) : kept[i] = all[i]
        /\ Len(writer) <= Len(kept) /\ (copied => kept = all) /\ Len(kept) \in Nat
    <2> HIDE DEF all
    <2> QED
      BY <1>1, <1>3
  <1> HIDE DEF all, kept
  <1>7. /\ u \in Seq(Byte) /\ v \in Seq(Byte) /\ x \in Seq(Byte)
        /\ Len(x) = IF j <= Len(kept) THEN Len(kept) ELSE j
        /\ \A i \in 1 .. Len(x) : x[i] = all[i]
    BY <1>3, <1>6, Leftover, ZenonT(60)
  <1> HIDE DEF u, v
  <1>8. Stream' = file \o x
    <2>1. Stream' = (file \o u) \o v
      BY <1>5 DEF Stream
    <2>2. file \in Seq(Byte) /\ u \in Seq(Byte) /\ v \in Seq(Byte)
      BY <1>1, <1>7
    <2>3. (file \o u) \o v = file \o (u \o v)
      BY <2>2, ConcatAssociative, SMTT(30)
    <2> QED
      BY <2>1, <2>3
  <1>9. c = file \o all
    BY <1>1, ConcatAssociative DEF Stream, all
  <1> HIDE DEF x, c
  <1>10. Len(writer) <= Len(x) /\ Len(x) <= Len(all) /\ Len(x) \in Nat /\ (copied => Len(x) = Len(all))
    <2> DEFINE o == Len(kept)
               y == Len(all)
               z == Len(writer)
               l == Len(x)
    <2>1. /\ o \in Nat /\ y \in Nat /\ z \in Nat /\ z <= o /\ o <= y /\ j \in 0 .. y
          /\ l = IF j <= o THEN o ELSE j
      BY <1>1, <1>3, <1>6, <1>7
    <2>2. copied => o = y
      BY <1>6
    <2> HIDE DEF o, y, z, l
    <2>3. z <= l /\ l <= y /\ l \in Nat /\ (o = y => l = y)
      BY <2>1
    <2> QED
      BY <2>2, <2>3 DEF o, y, z, l
  <1>11. /\ Stream' \in Seq(Byte) /\ c \in Seq(Byte)
         /\ Len(Stream') = Len(file) + Len(x) /\ Len(c) = Len(file) + Len(all)
         /\ \A i \in 1 .. Len(Stream') : Stream'[i] = c[i]
    <2>1. /\ Stream' \in Seq(Byte) /\ Len(Stream') = Len(file) + Len(x)
          /\ \A i \in 1 .. Len(file) : Stream'[i] = file[i]
          /\ \A i \in 1 .. Len(x) : Stream'[Len(file) + i] = x[i]
          /\ \A i \in 1 .. Len(file) + Len(x) :
                i \in 1 .. Len(file) \/ (i - Len(file) \in 1 .. Len(x) /\ i = Len(file) + (i - Len(file)))
      <3> DEFINE y == file \o x
      <3>1. /\ y \in Seq(Byte) /\ Len(y) = Len(file) + Len(x)
            /\ \A i \in 1 .. Len(file) : y[i] = file[i]
            /\ \A i \in 1 .. Len(x) : y[Len(file) + i] = x[i]
            /\ \A i \in 1 .. Len(file) + Len(x) :
                  i \in 1 .. Len(file) \/ (i - Len(file) \in 1 .. Len(x) /\ i = Len(file) + (i - Len(file)))
        BY <1>1, <1>7, Joined
      <3>2. Stream' = y
        BY <1>8
      <3> HIDE DEF y
      <3> QED
        BY <3>1, <3>2
    <2>2. /\ c \in Seq(Byte) /\ Len(c) = Len(file) + Len(all)
          /\ \A i \in 1 .. Len(file) : c[i] = file[i]
          /\ \A i \in 1 .. Len(all) : c[Len(file) + i] = all[i]
      BY <1>1, <1>3, <1>9, Joined
    <2>3. ASSUME NEW i \in 1 .. Len(x) PROVE Stream'[Len(file) + i] = c[Len(file) + i]
      <3>1. i \in 1 .. Len(all)
        BY <1>3, <1>10
      <3> QED
        BY <1>7, <2>1, <2>2, <3>1
    <2>4. ASSUME NEW i \in 1 .. Len(Stream') PROVE Stream'[i] = c[i]
      <3>1. CASE i \in 1 .. Len(file)
        BY <2>1, <2>2, <3>1
      <3>2. CASE i - Len(file) \in 1 .. Len(x) /\ i = Len(file) + (i - Len(file))
        BY <2>3, <3>2
      <3> QED
        BY <2>1, <3>1, <3>2
    <2> QED
      BY <2>1, <2>2, <2>4
  <1>12. Len(Stream) <= Len(Stream') /\ Len(Stream') <= Len(c) /\ Len(Stream') \in Nat /\ Len(Stream) \in Nat
         /\ (copied => Len(Stream') = Len(c))
    <2> DEFINE l == Len(Stream')
               y == Len(all)
               z == Len(writer)
               o == Len(x)
               f == Len(file)
               e == Len(c)
               s == Len(Stream)
    <2>1. /\ l = f + o /\ e = f + y /\ s = f + z /\ z <= o /\ o <= y
          /\ f \in Nat /\ o \in Nat /\ y \in Nat /\ z \in Nat
      BY <1>1, <1>3, <1>10, <1>11
    <2>2. copied => o = y
      BY <1>10
    <2> HIDE DEF l, y, z, o, f, e, s
    <2>3. s <= l /\ l <= e /\ l \in Nat /\ s \in Nat /\ (o = y => l = e)
      BY <2>1
    <2> QED
      BY <2>2, <2>3 DEF l, s, e
  <1>13. ASSUME clean' PROVE \E n, at, rs : FileIs(n, at, rs)'
    <2>1. PICK n, at, rs : FileIs(n, at, rs)
      BY <1>4, <1>13 DEF FileInv
    <2>2. PICK k, bt, ss : BufferIs(k, bt, ss)
      BY DEF BufferInv
    <2>3. /\ at[n + 1] = Len(Stream) + 1
          /\ \A w \in base + 1 .. sent : w \in gone \/ w \in inbuf \/ w \in Numbers(n, rs)
          /\ kind # "store_log" /\ faults = 0 => \A w \in inbuf : w \notin Numbers(n, rs)
      BY <1>4, <2>1 DEF FileIs, OpenFile, IsOpen
    <2>4. /\ n \in Nat /\ k \in Nat /\ Covers(kind, Stream, n, at, rs) /\ Piece(kind, buffer, k, bt, ss)
          /\ InOrder(n, rs) /\ Vouched(n, at, rs) /\ inbuf = Numbers(k, ss)
      BY <2>1, <2>2 DEF FileIs, BufferIs, Covers, Piece, Lays
    <2>5. PICK xt, xs :
             /\ Covers(kind, c, n + k, xt, xs)
             /\ xt[(n + k) + 1] = Len(c) + 1
             /\ Extends(n, at, rs, k, ss, xt, xs)
      BY <1>1, <2>3, <2>4, CoversGlue DEF c
    <2>6. InOrder(n + k, xs)
      BY <2>2, <2>3, <2>4, <2>5, OrderGlue
    <2>7. Numbers(n + k, xs) = Numbers(n, rs) \cup inbuf
      BY <2>4, <2>5, NumbersExtend
    <2>8. Covers(kind, Stream', n + k, xt, xs)
      BY <1>1, <1>11, <1>12, <2>5, CutCovers
    <2>9. /\ \A i \in 1 .. (n + k) + 1 : xt[i] \in Nat
          /\ \A i, l \in 1 .. (n + k) + 1 : i < l => xt[i] < xt[l]
      <3>1. PICK p : Lays(kind, p, n + k, xt, xs)
        BY <2>5 DEF Covers
      <3>2. \A i \in 1 .. (n + k) + 1 : xt[i] \in Nat
        BY <3>1 DEF Lays
      <3> QED
        BY <3>1, <3>2, Rising
    <2>10. n + 1 \in 1 .. (n + k) + 1 /\ xt[n + 1] = Len(Stream) + 1
      <3>1. n + 1 \in 1 .. (n + k) + 1 /\ n + 1 \in 1 .. n + 1
        BY <2>4
      <3> QED
        BY <2>3, <2>5, <3>1 DEF Extends
    <2>11. PICK m \in 0 .. n + k : xt[m + 1] = Len(Stream') + 1
      <3>1. PICK m : Delivers(kind, Stream', n + k, xt, xs, m)
        BY <1>1, <1>11, <2>8, ReplayReadsBack
      <3>2. replay(kind, Stream').tail = 0
        BY <1>4, <1>13 DEF Torn
      <3>3. CASE Stream' = <<>>
        <4>1. Len(Stream') = 0 /\ Len(Stream) = Len(Stream')
          BY <1>12, <3>3
        <4>2. n \in 0 .. n + k /\ xt[n + 1] = Len(Stream') + 1
          BY <2>4, <2>10, <4>1
        <4> QED
          BY <4>2
      <3>4. CASE Stream' # <<>>
        BY <3>1, <3>2, <3>4 DEF Delivers
      <3> QED
        BY <3>3, <3>4
    <2>12. n <= m /\ m \in Nat
      <3>1. m + 1 \in 1 .. (n + k) + 1 /\ m \in Nat
        BY <2>4
      <3>2. CASE m < n
        <4>1. m + 1 < n + 1
          BY <2>4, <3>1, <3>2
        <4>2. xt[m + 1] < xt[n + 1]
          BY <2>9, <2>10, <3>1, <4>1
        <4> QED
          BY <1>12, <2>10, <2>11, <4>2
      <3> QED
        BY <2>4, <3>1, <3>2
    <2>13. copied => m = n + k
      <3> SUFFICES ASSUME copied, m # n + k PROVE FALSE
        OBVIOUS
      <3>1. m + 1 \in 1 .. (n + k) + 1 /\ (n + k) + 1 \in 1 .. (n + k) + 1 /\ m + 1 < (n + k) + 1
        BY <2>4
      <3>2. xt[m + 1] < xt[(n + k) + 1]
        BY <2>9, <3>1
      <3> QED
        BY <1>12, <2>5, <2>11, <3>2
    <2>14. Covers(kind', Stream', m, xt, xs)
      <3>1. Len(Stream') + 1 <= xt[m + 1]
        BY <1>12, <2>11
      <3> QED
        BY <1>4, <2>8, <3>1, DropCovers
    <2>15. Numbers(n, rs) \subseteq Numbers(m, xs)
      <3>1. \A i \in 1 .. n : i \in 1 .. m /\ xs[i] = rs[i]
        BY <2>4, <2>5, <2>12 DEF Extends
      <3> QED
        BY <3>1 DEF Numbers
    <2>16. InOrder(m, xs)'
      <3>1. \A i \in 1 .. m : i \in 1 .. n + k
        BY <2>4
      <3> QED
        BY <1>4, <2>6, <3>1 DEF InOrder
    <2>17. Vouched(m, xt, xs)'
      <3> SUFFICES ASSUME NEW w \in acked
                   PROVE  \E i \in 1 .. m : xs[i].w = w /\ xt[i + 1] <= synced + 1
        BY <1>4 DEF Vouched
      <3>1. PICK i \in 1 .. n : rs[i].w = w /\ at[i + 1] <= synced + 1
        BY <2>4 DEF Vouched
      <3>2. i \in 1 .. m /\ i + 1 \in 1 .. n + 1
        BY <2>4, <2>12
      <3>3. xs[i] = rs[i] /\ xt[i + 1] = at[i + 1]
        BY <2>5, <3>2 DEF Extends
      <3> QED
        BY <3>1, <3>2, <3>3
    <2>18. ASSUME NEW w \in base + 1 .. sent PROVE w \in gone' \/ w \in inbuf' \/ w \in Numbers(m, xs)
      <3>1. CASE w \in gone
        BY <1>4, <3>1
      <3>2. CASE w \in Numbers(n, rs)
        BY <2>15, <3>2
      <3>3. CASE w \in inbuf
        <4>1. CASE kind # "wal_thread"
          BY <1>4, <3>3, <4>1
        <4>2. CASE kind = "wal_thread" /\ ~copied
          BY <1>4, <3>3, <4>2
        <4>3. CASE copied
          BY <2>7, <2>13, <3>3, <4>3
        <4> QED
          BY <4>1, <4>2, <4>3
      <3> QED
        BY <2>3, <3>1, <3>2, <3>3
    <2>19. OpenFile(m, xt, xs)'
      <3>1. mode' = "sync" => inbuf' = {}
        BY <1>4
      <3> QED
        BY <1>4, <2>11, <2>18, <3>1 DEF OpenFile
    <2>20. FileIs(m, xt, xs)'
      BY <1>4, <2>14, <2>16, <2>17, <2>19 DEF FileIs
    <2> QED
      BY <2>20
  <1> QED
    BY <1>4, <1>13 DEF FileInv

\* The fsync: what was in the batch now lies before the end of what is
\* synced, because nothing is left in the BufWriter.
LEMMA SyncAllStep ==
  ASSUME TypeInv, FileInv, SyncAll
  PROVE  FileInv'
  <1>1. /\ synced \in 0 .. Len(file) /\ Len(file) \in Nat /\ sent \in Nat /\ file \in Seq(Byte)
    BY Typed
  <1>2. /\ UNCHANGED <<kind, base, gone, faults, crashed, clean, sent, file, writer, Stream>>
        /\ mode' = "up" /\ mode = "sync" /\ synced' = Len(file) /\ acked' = acked \cup inbuf
    BY DEF SyncAll, Stream
  <1>3. inbuf' = {} \/ (inbuf' = inbuf /\ kind = "store_log")
    BY DEF SyncAll, TypeInv
  <1>4. ASSUME clean' PROVE \E n, at, rs : FileIs(n, at, rs)'
    <2>1. PICK n, at, rs : FileIs(n, at, rs)
      BY <1>2, <1>4 DEF FileInv
    <2>2. /\ at[n + 1] = Len(Stream) + 1
          /\ \A w \in base + 1 .. sent : w \in gone \/ w \in inbuf \/ w \in Numbers(n, rs)
          /\ inbuf \subseteq Numbers(n, rs) /\ (inbuf = {} \/ writer = <<>>)
      BY <1>2, <2>1 DEF FileIs, OpenFile, IsOpen
    <2>3. /\ n \in Nat
          /\ \A i \in 1 .. n + 1 : at[i] \in Nat
          /\ \A i, j \in 1 .. n + 1 : i < j => at[i] < at[j]
      BY <2>1, FileFacts
    <2>4. InOrder(n, rs) /\ Vouched(n, at, rs) /\ Covers(kind, Stream, n, at, rs)
      BY <2>1 DEF FileIs
    <2>5. Vouched(n, at, rs)'
      <3> SUFFICES ASSUME NEW w \in acked \cup inbuf
                   PROVE  \E i \in 1 .. n : rs[i].w = w /\ at[i + 1] <= Len(file) + 1
        BY <1>2 DEF Vouched
      <3>1. CASE w \in acked
        <4>1. PICK i \in 1 .. n : rs[i].w = w /\ at[i + 1] <= synced + 1
          BY <2>4, <3>1 DEF Vouched
        <4>2. i + 1 \in 1 .. n + 1
          BY <2>3
        <4>3. at[i + 1] \in Nat
          BY <2>3, <4>2
        <4>4. at[i + 1] <= Len(file) + 1
          BY <1>1, <4>1, <4>3
        <4> QED
          BY <4>1, <4>4
      <3>2. CASE w \in inbuf
        <4>1. writer = <<>>
          BY <2>2, <3>2
        <4>2. Stream = file
          BY <1>1, <4>1, ConcatEmptySeq DEF Stream
        <4>3. PICK i \in 1 .. n : rs[i].w = w
          BY <2>2, <3>2 DEF Numbers
        <4>4. i + 1 \in 1 .. n + 1 /\ n + 1 \in 1 .. n + 1 /\ (i + 1 < n + 1 \/ i + 1 = n + 1)
          BY <2>3
        <4>5. at[i + 1] <= at[n + 1]
          BY <2>3, <4>4
        <4> QED
          BY <2>2, <4>2, <4>3, <4>5
      <3> QED
        BY <3>1, <3>2
    <2>6. InOrder(n, rs)'
      BY <1>2, <2>4 DEF InOrder
    <2>7. OpenFile(n, at, rs)'
      <3>1. \A w \in base' + 1 .. sent' : w \in gone' \/ w \in inbuf' \/ w \in Numbers(n, rs)
        BY <1>2, <2>2
      <3>2. kind' # "store_log" => inbuf' = {}
        BY <1>2, <1>3
      <3> QED
        BY <1>2, <2>2, <3>1, <3>2 DEF OpenFile
    <2>8. FileIs(n, at, rs)'
      BY <1>2, <2>4, <2>5, <2>6, <2>7 DEF FileIs
    <2> QED
      BY <2>8
  <1> QED
    BY <1>2, <1>4 DEF FileInv

\* An fsync that fails: the batch is in the file all the same.
LEMMA SyncFailsStep ==
  ASSUME TypeInv, FileInv, SyncFails
  PROVE  FileInv'
  <1>1. faults \in Nat
    BY Typed
  <1>2. /\ UNCHANGED <<kind, base, gone, crashed, clean, sent, synced, acked, Stream>>
        /\ mode' = "up" /\ mode = "sync" /\ faults' # 0
    <2>1. SyncFails /\ Fail({})
      BY DEF SyncFails
    <2>2. gone' = gone /\ faults' # 0
      BY <1>1, <2>1 DEF Fail
    <2> QED
      BY <2>1, <2>2 DEF SyncFails, Fail, Stream
  <1>3. ASSUME clean' PROVE \E n, at, rs : FileIs(n, at, rs)'
    <2>1. PICK n, at, rs : FileIs(n, at, rs)
      BY <1>2, <1>3 DEF FileInv
    <2>2. /\ at[n + 1] = Len(Stream) + 1
          /\ \A w \in base + 1 .. sent : w \in gone \/ w \in inbuf \/ w \in Numbers(n, rs)
          /\ inbuf \subseteq Numbers(n, rs)
      BY <1>2, <2>1 DEF FileIs, OpenFile, IsOpen
    <2>3. InOrder(n, rs)' /\ Vouched(n, at, rs)'
      BY <1>2, <2>1 DEF FileIs, InOrder, Vouched
    <2>4. OpenFile(n, at, rs)'
      <3>1. \A w \in base' + 1 .. sent' : w \in gone' \/ w \in inbuf' \/ w \in Numbers(n, rs)
        BY <1>2, <2>2
      <3> QED
        BY <1>2, <2>2, <3>1 DEF OpenFile
    <2>5. FileIs(n, at, rs)'
      BY <1>2, <2>1, <2>3, <2>4 DEF FileIs
    <2> QED
      BY <2>5
  <1> QED
    BY <1>2, <1>3 DEF FileInv

\* A drop writes out the BufWriter.
LEMMA CloseStep ==
  ASSUME TypeInv, FileInv, Close
  PROVE  FileInv'
  <1>1. Stream \in Seq(Byte)
    BY Typed
  <1>2. /\ UNCHANGED <<kind, base, gone, crashed, clean, sent, synced, acked, faults>>
        /\ mode' = "closed" /\ mode = "up" /\ writer' = <<>> /\ file' = Stream
    BY DEF Close, Forget, ghosts, Stream
  <1>3. Stream' = Stream
    <2>1. Stream' = file' \o writer'
      BY DEF Stream
    <2> QED
      BY <1>1, <1>2, <2>1, ConcatEmptySeq
  <1>4. ASSUME clean' PROVE \E n, at, rs : FileIs(n, at, rs)'
    <2>1. PICK n, at, rs : FileIs(n, at, rs)
      BY <1>2, <1>4 DEF FileInv
    <2>2. at[n + 1] = Len(Stream) + 1
      BY <1>2, <2>1 DEF FileIs, OpenFile, IsOpen
    <2>3. InOrder(n, rs)' /\ Vouched(n, at, rs)' /\ OpenFile(n, at, rs)'
      BY <1>2, <2>1 DEF FileIs, InOrder, Vouched, OpenFile, IsOpen
    <2>4. FileIs(n, at, rs)'
      BY <1>2, <1>3, <2>1, <2>2, <2>3 DEF FileIs
    <2> QED
      BY <2>4
  <1> QED
    BY <1>2, <1>4 DEF FileInv

\* A crash takes bytes from the end.
LEMMA CrashStep ==
  ASSUME TypeInv, FileInv, Crash
  PROVE  FileInv'
  <1>1. /\ kind \in Kinds /\ Stream \in Seq(Byte) /\ file \in Seq(Byte) /\ Len(file) \in Nat
        /\ synced \in 0 .. Len(file)
    BY Typed
  <1>2. /\ UNCHANGED <<kind, base, gone, clean, sent, synced, acked, faults>>
        /\ mode' = "closed" /\ writer' = <<>> /\ crashed'
    BY DEF Crash, Forget
  <1>3. PICK l \in synced .. Len(file) : file' = SubSeq(file, 1, l)
    BY DEF Crash
  <1>4. file' \in Seq(Byte) /\ Len(file') = l /\ \A i \in 1 .. l : file'[i] = file[i]
    <2>1. /\ 1 \in 1 .. Len(file) + 1 /\ l \in 0 .. Len(file) /\ 1 <= l + 1 /\ l + 1 - 1 = l
          /\ \A i \in 1 .. l : 1 + i - 1 = i
      BY <1>1
    <2> DEFINE s == SubSeq(file, 1, l)
    <2>2. s \in Seq(Byte) /\ Len(s) = l + 1 - 1 /\ \A i \in 1 .. l + 1 - 1 : s[i] = file[1 + i - 1]
      BY <1>1, <2>1, PartOf
    <2>3. file' = s
      BY <1>3
    <2> HIDE DEF s
    <2> QED
      BY <2>1, <2>2, <2>3
  <1>5. Stream' = file'
    <2>1. Stream' = file' \o writer'
      BY DEF Stream
    <2> QED
      BY <1>2, <1>4, <2>1, ConcatEmptySeq
  <1>6. ASSUME clean' PROVE \E n, at, rs : FileIs(n, at, rs)'
    <2>1. PICK n, at, rs : FileIs(n, at, rs)
      BY <1>2, <1>6 DEF FileInv
    <2>2. Covers(kind, file, n, at, rs)
      BY <2>1, FileFacts
    <2>3. Len(file') <= Len(file) /\ \A i \in 1 .. Len(file') : file'[i] = file[i]
      BY <1>1, <1>4
    <2>4. Covers(kind, file', n, at, rs)
      BY <1>1, <1>4, <2>2, <2>3, CutCovers
    <2>5. InOrder(n, rs)' /\ Vouched(n, at, rs)' /\ OpenFile(n, at, rs)'
      BY <1>2, <2>1 DEF FileIs, InOrder, Vouched, OpenFile, IsOpen
    <2>6. FileIs(n, at, rs)'
      BY <1>2, <1>5, <2>4, <2>5 DEF FileIs
    <2> QED
      BY <2>6
  <1>7. clean' => mode' # "refused"
    BY <1>2
  <1> QED
    BY <1>2, <1>6, <1>7 DEF FileInv

\* Every step keeps the file.
LEMMA FileStep == Inv /\ [Next]_vars => FileInv'
  <1> SUFFICES ASSUME TypeInv, BufferInv, FileInv, [Next]_vars PROVE FileInv'
    BY DEF Inv
  <1>1. CASE UNCHANGED vars
    <2>1. /\ UNCHANGED <<kind, file, writer, base, gone, crashed, clean, sent, synced, acked, faults, mode, inbuf>>
          /\ Stream' = Stream
      BY <1>1 DEF vars, disk, memory, ghosts, Stream
    <2>2. \A n, at, rs : FileIs(n, at, rs) => FileIs(n, at, rs)'
      BY <2>1 DEF FileIs, InOrder, Vouched, OpenFile, IsOpen
    <2> QED
      BY <2>1, <2>2 DEF FileInv
  <1> QED
    BY <1>1, OpenStep, OpenSyncStep, WriteStep, CallStep, WriteOutStep, WriteFailsStep, SyncAllStep,
       SyncFailsStep, CloseStep, CrashStep DEF Next

-----------------------------------------------------------------------------
(* The theorems                                                            *)

\* The invariant is inductive.
LEMMA InvStep == Inv /\ [Next]_vars => Inv'
  <1> SUFFICES ASSUME Inv, [Next]_vars PROVE Inv'
    OBVIOUS
  <1>1. TypeInv' /\ BufferInv'
    BY TypeStep, BufferStep DEF Inv
  <1>2. FileInv'
    BY FileStep
  <1> QED
    BY <1>1, <1>2 DEF Inv

\* What the replay of the file delivers, in a state of the invariant.
LEMMA DeliveredIs ==
  ASSUME TypeInv, NEW n, NEW at, NEW rs, NEW m, FileIs(n, at, rs), Delivers(kind, file, n, at, rs, m)
  PROVE  /\ DOMAIN Delivered = 1 .. Len(replay(kind, file).recs)
         /\ Len(replay(kind, file).recs) \in 0 .. m /\ m \in 0 .. n /\ n \in Nat
         /\ \A i \in DOMAIN Delivered : Delivered[i] = rs[i].w
  <1> DEFINE recs == replay(kind, file).recs
  <1>1. n \in Nat
    BY FileFacts
  <1>2. /\ m \in 0 .. n /\ recs \in Seq(Record) /\ Len(recs) <= m
        /\ \A j \in 1 .. Len(recs) : recs[j] = rs[j]
    BY DEF Delivers
  <1>3. Delivered = [i \in DOMAIN recs |-> recs[i].w]
    BY DEF Delivered
  <1> HIDE DEF recs
  <1>4. DOMAIN recs = 1 .. Len(recs) /\ Len(recs) \in Nat
    BY <1>2
  <1>5. Len(recs) \in 0 .. m
    BY <1>1, <1>2, <1>4
  <1>6. DOMAIN Delivered = 1 .. Len(recs) /\ \A i \in 1 .. Len(recs) : Delivered[i] = rs[i].w
    BY <1>2, <1>3, <1>4
  <1> QED
    BY <1>1, <1>2, <1>5, <1>6 DEF recs

\* The invariant implies SyncedIsReplayed: the frame of what was vouched for
\* is complete in every file that is left.
LEMMA InvSynced == Inv => SyncedIsReplayed
  <1> SUFFICES ASSUME Inv, clean, replay(kind, file).ok, NEW w \in acked PROVE w \in DeliveredSet
    BY DEF SyncedIsReplayed
  <1>1. PICK n, at, rs : FileIs(n, at, rs)
    BY DEF Inv, FileInv
  <1>2. TypeInv
    BY DEF Inv
  <1>3. PICK m : Delivers(kind, file, n, at, rs, m)
    BY <1>1, <1>2, FileFacts
  <1>4. /\ DOMAIN Delivered = 1 .. Len(replay(kind, file).recs) /\ m \in 0 .. n /\ n \in Nat
        /\ \A i \in DOMAIN Delivered : Delivered[i] = rs[i].w
    BY <1>1, <1>2, <1>3, DeliveredIs
  <1>5. /\ Len(replay(kind, file).recs) = m
        /\ \A i \in 1 .. n : at[i + 1] <= Len(file) + 1 => i <= m
    BY <1>3 DEF Delivers
  <1>6. PICK i \in 1 .. n : rs[i].w = w /\ at[i + 1] <= synced + 1
    BY <1>1 DEF FileIs, Vouched
  <1>7. at[i + 1] <= Len(file) + 1
    <2>1. synced \in 0 .. Len(file) /\ Len(file) \in Nat
      BY <1>2, Typed
    <2>2. i + 1 \in 1 .. n + 1
      BY <1>4
    <2>3. at[i + 1] \in Nat
      BY <1>1, <1>2, <2>2, FileFacts
    <2> QED
      BY <1>6, <2>1, <2>3
  <1>8. i \in DOMAIN Delivered
    BY <1>4, <1>5, <1>7
  <1> QED
    BY <1>4, <1>6, <1>8 DEF DeliveredSet

\* The invariant implies ReplayIsOrdered.
LEMMA InvOrdered == Inv => ReplayIsOrdered
  <1> SUFFICES ASSUME Inv PROVE ReplayIsOrdered
    OBVIOUS
  <1>1. TypeInv /\ TypeOK
    BY DEF Inv, TypeInv
  <1>2. ASSUME clean, NEW i \in DOMAIN Delivered
        PROVE  /\ Delivered[i] \in 1 .. sent
               /\ Delivered[i] > base =>
                     \A w \in base + 1 .. Delivered[i] - 1 :
                         w \in gone \/ \E j \in 1 .. i - 1 : Delivered[j] = w
               /\ kind # "store_log" /\ faults = 0 =>
                     \A j \in 1 .. i - 1 : Delivered[j] # Delivered[i]
    <2>1. PICK n, at, rs : FileIs(n, at, rs)
      BY <1>2 DEF Inv, FileInv
    <2>2. PICK m : Delivers(kind, file, n, at, rs, m)
      BY <1>1, <2>1, FileFacts
    <2> DEFINE l == Len(replay(kind, file).recs)
    <2>3. /\ DOMAIN Delivered = 1 .. l /\ l \in 0 .. m /\ m \in 0 .. n /\ n \in Nat
          /\ \A k \in DOMAIN Delivered : Delivered[k] = rs[k].w
      BY <1>1, <2>1, <2>2, DeliveredIs
    <2> HIDE DEF l
    <2>4. i \in 1 .. n /\ \A j \in 1 .. i - 1 : j \in DOMAIN Delivered
      BY <1>2, <2>3
    <2>5. Delivered[i] = rs[i].w /\ \A j \in 1 .. i - 1 : Delivered[j] = rs[j].w
      BY <1>2, <2>3, <2>4
    <2>6. InOrder(n, rs)
      BY <2>1 DEF FileIs
    <2> QED
      BY <2>4, <2>5, <2>6 DEF InOrder
  <1> QED
    BY <1>1, <1>2 DEF ReplayIsOrdered

\* The invariant implies RefusedOnlyWhenTorn.
LEMMA InvRefused == Inv => RefusedOnlyWhenTorn
  <1> SUFFICES ASSUME Inv, ~crashed, faults = 0 PROVE replay(kind, file).ok /\ ~Torn(file)
    BY DEF RefusedOnlyWhenTorn
  <1>1. TypeInv /\ clean /\ mode # "refused"
    BY DEF Inv, FileInv
  <1>2. PICK n, at, rs : FileIs(n, at, rs)
    BY <1>1 DEF Inv, FileInv
  <1>3. PICK m : Delivers(kind, file, n, at, rs, m)
    BY <1>1, <1>2, FileFacts
  <1>4. Stream = file
    <2>1. writer = <<>> /\ file \in Seq(Byte)
      BY <1>1, Typed DEF TypeInv, TypeOK
    <2> QED
      BY <2>1, ConcatEmptySeq DEF Stream
  <1>5. file = <<>> \/ at[n + 1] = Len(file) + 1
    <2>1. IsOpen \/ mode = "closed"
      BY <1>1 DEF TypeInv, TypeOK, IsOpen
    <2> QED
      BY <1>2, <1>4, <2>1 DEF FileIs, OpenFile
  <1> QED
    BY <1>3, <1>5 DEF Delivers, Torn

\* For every batch size and all bounds, and any order of calls, disk errors,
\* crashes and reopenings: as long as no file was opened and no batch given
\* up with a torn record, every replay that succeeds delivers every write
\* that sync_all vouched for.
THEOREM SyncedIsReplayedTheorem == Spec => []SyncedIsReplayed
  BY InitInv, InvStep, InvSynced, PTL DEF Spec

\* Replay delivers the writes of one opening in their order and without
\* holes, and those of WalWriter and of the WAL thread once; and the types.
THEOREM ReplayIsOrderedTheorem == Spec => []ReplayIsOrdered
  BY InitInv, InvStep, InvOrdered, PTL DEF Spec

\* Without a crash or a disk error every file is understood to its end.
THEOREM RefusedOnlyWhenTornTheorem == Spec => []RefusedOnlyWhenTorn
  BY InitInv, InvStep, InvRefused, PTL DEF Spec

-----------------------------------------------------------------------------
(* What was fsynced stays                                                  *)

\* No step moves the end of the synced part back, or touches a byte of it:
\* the loggers only append, whatever is left in the BufWriter, and a crash
\* takes bytes from behind it.
SyncedStays ==
    [][synced <= synced' /\ synced <= Len(file') /\ \A k \in 1 .. synced : file'[k] = file[k]]_vars

\* Appending keeps what is there.
LEMMA AppendKeeps ==
  ASSUME TypeInv, NEW s \in Seq(Byte), file' = file \o s
  PROVE  synced <= Len(file') /\ Len(file) <= Len(file') /\ \A k \in 1 .. synced : file'[k] = file[k]
  <1>1. file \in Seq(Byte) /\ Len(file) \in Nat /\ synced \in 0 .. Len(file)
    BY Typed
  <1>2. /\ Len(file \o s) = Len(file) + Len(s) /\ Len(s) \in Nat
        /\ \A k \in 1 .. Len(file) : (file \o s)[k] = file[k]
    BY <1>1, Joined
  <1>3. Len(file') = Len(file) + Len(s) /\ \A k \in 1 .. Len(file) : file'[k] = file[k]
    BY <1>2
  <1>4. \A k \in 1 .. synced : k \in 1 .. Len(file)
    BY <1>1
  <1>5. synced <= Len(file') /\ Len(file) <= Len(file')
    BY <1>1, <1>2, <1>3
  <1> QED
    BY <1>3, <1>4, <1>5

\* The bytes that were fsynced stay, one step at a time.
LEMMA StaysStep ==
  ASSUME TypeInv, [Next]_vars
  PROVE  synced <= synced' /\ synced <= Len(file') /\ \A k \in 1 .. synced : file'[k] = file[k]
  <1>1. /\ file \in Seq(Byte) /\ Len(file) \in Nat /\ synced \in 0 .. Len(file) /\ synced \in Nat
        /\ buffer \in Seq(Byte) /\ writer \in Seq(Byte)
    BY Typed
  <1>2. ASSUME file' = file, synced' = synced \/ synced' = Len(file)
        PROVE  synced <= synced' /\ synced <= Len(file') /\ \A k \in 1 .. synced : file'[k] = file[k]
    BY <1>1, <1>2
  <1>3. CASE Open
    <2>1. synced' = synced /\ file' = (IF file = <<>> THEN Header(kind) ELSE file)
      BY <1>3 DEF Open
    <2>2. CASE file = <<>>
      <3>1. synced = 0 /\ \A k \in 1 .. 0 : FALSE
        BY <1>1, <2>2
      <3>2. Len(file') \in Nat
        BY <2>1, <2>2, HeaderIs, Typed
      <3> QED
        BY <2>1, <3>1, <3>2
    <2> QED
      BY <1>2, <2>1, <2>2
  <1>4. CASE OpenSync \/ (\E op \in Ops : write(op)) \/ sync_now \/ flush \/ SyncFails \/ SyncAll \/ UNCHANGED vars
    <2>1. file' = file /\ (synced' = synced \/ synced' = Len(file))
      BY <1>4 DEF OpenSync, write, sync_now, flush, SyncFails, Fail, SyncAll, vars, disk
    <2> QED
      BY <1>2, <2>1
  <1>5. ASSUME NEW s \in Seq(Byte), file' = file \o s, synced' = synced
        PROVE  synced <= synced' /\ synced <= Len(file') /\ \A k \in 1 .. synced : file'[k] = file[k]
    BY <1>1, <1>5, AppendKeeps
  <1>6. CASE WriteOut
    <2>1. file' = (file \o writer) \o buffer /\ synced' = synced
      BY <1>6 DEF WriteOut
    <2>2. (file \o writer) \o buffer = file \o (writer \o buffer) /\ writer \o buffer \in Seq(Byte)
      BY <1>1, ConcatAssociative, ConcatProperties, SMTT(30)
    <2> QED
      BY <1>5, <2>1, <2>2
  <1>7. CASE WriteFails
    <2> DEFINE all == writer \o buffer
    <2>1. PICK j \in 0 .. Len(all) : file' = file \o SubSeq(all, 1, j)
      BY <1>7 DEF WriteFails
    <2>2. synced' = synced
      BY <1>7 DEF WriteFails, Fail
    <2>3. all \in Seq(Byte) /\ Len(all) \in Nat
      BY <1>1, Joined
    <2> HIDE DEF all
    <2>4. SubSeq(all, 1, j) \in Seq(Byte)
      <3>1. 1 \in 1 .. Len(all) + 1 /\ 1 <= j + 1
        BY <2>3
      <3> QED
        BY <2>3, <3>1, PartOf
    <2> QED
      BY <1>5, <2>1, <2>2, <2>4
  <1>8. CASE Close
    BY <1>1, <1>5, <1>8 DEF Close
  <1>9. CASE Crash
    <2>1. PICK l \in synced .. Len(file) : file' = SubSeq(file, 1, l)
      BY <1>9 DEF Crash
    <2>2. synced' = synced
      BY <1>9 DEF Crash
    <2> DEFINE s == SubSeq(file, 1, l)
    <2>3. /\ 1 \in 1 .. Len(file) + 1 /\ l \in 0 .. Len(file) /\ 1 <= l + 1 /\ l + 1 - 1 = l
          /\ \A k \in 1 .. synced : k \in 1 .. l /\ 1 + k - 1 = k
      BY <1>1
    <2>4. s \in Seq(Byte) /\ Len(s) = l + 1 - 1 /\ \A k \in 1 .. l + 1 - 1 : s[k] = file[1 + k - 1]
      BY <1>1, <2>3, PartOf
    <2>5. file' = s
      BY <2>1
    <2> HIDE DEF s
    <2>6. Len(file') = l /\ \A k \in 1 .. synced : file'[k] = file[k]
      BY <2>3, <2>4, <2>5
    <2>7. synced <= l /\ synced <= synced'
      BY <1>1, <2>2
    <2> QED
      BY <2>6, <2>7
  <1> QED
    BY <1>3, <1>4, <1>6, <1>7, <1>8, <1>9 DEF Next

\* A byte that sync_all has put on disk stays where it is, through disk
\* errors, retries, closes, crashes and reopenings, for each of the three
\* loggers: replay finds what it found.
THEOREM SyncedBytesStay == Spec => SyncedStays
  <1>1. Inv /\ [Next]_vars =>
           synced <= synced' /\ synced <= Len(file') /\ \A k \in 1 .. synced : file'[k] = file[k]
    BY StaysStep DEF Inv
  <1> QED
    BY <1>1, InitInv, InvStep, PTL DEF Spec, SyncedStays

=============================================================================
