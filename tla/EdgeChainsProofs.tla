-------------------------- MODULE EdgeChainsProofs --------------------------
(***************************************************************************)
(* The adjacency chains, for any number of threads, walks, nodes and edges *)
(* and any number of calls.                                                *)
(*                                                                         *)
(* A chain is described by the sequence of its edges (Path), a search or a *)
(* walk by its place in that sequence.  The lemmas say what pushing an     *)
(* edge and taking one out do to the sequence; they know nothing of the    *)
(* program.  The invariants then say which edges are on which chain at     *)
(* every step of link_into_chains and unlink_from_chains.                  *)
(***************************************************************************)
EXTENDS EdgeChains, FiniteSetTheorems, WellFoundedInduction, TLAPS

-----------------------------------------------------------------------------
(* Chains as sequences                                                     *)

\* The links nx lead from h through the edges of S, each of them once, to the
\* end: s[1 .. k] are the edges, s[k + 1] is the end.
Path(nx, h, S, k, s) ==
    /\ k \in Nat /\ s \in [1 .. k + 1 -> Links]
    /\ s[1] = h /\ s[k + 1] = NULL_EDGE
    /\ \A i \in 1 .. k : s[i] \in S /\ nx[s[i]] = s[i + 1]
    /\ \A x \in S : \E i \in 1 .. k : s[i] = x
    /\ \A i, j \in 1 .. k : s[i] = s[j] => i = j

\* s with x in front, and s without its c-th edge.
Pushed(s, k, x) == [i \in 1 .. k + 2 |-> IF i = 1 THEN x ELSE s[i - 1]]
Without(s, k, c) == [i \in 1 .. k |-> IF i < c THEN s[i] ELSE s[i + 1]]

\* The links of other edges do not matter to a chain.
LEMMA PathFrame ==
  ASSUME NEW nx, NEW ny, NEW S, NEW h, NEW k, NEW s,
         Path(nx, h, S, k, s), \A x \in S : ny[x] = nx[x]
  PROVE  Path(ny, h, S, k, s)
  BY DEF Path

\* An edge that points to the head becomes the head.
LEMMA PathPush ==
  ASSUME NEW nx, NEW ny, NEW S \in SUBSET Ids, NEW h, NEW k, NEW s,
         Path(nx, h, S, k, s), NEW x \in Ids \ S,
         ny[x] = h, \A y \in S : ny[y] = nx[y]
  PROVE  Path(ny, x, S \cup {x}, k + 1, Pushed(s, k, x))
  <1> DEFINE p == Pushed(s, k, x)
  <1>1. k \in Nat /\ s \in [1 .. k + 1 -> Links] /\ s[1] = h /\ s[k + 1] = NULL_EDGE
    BY DEF Path
  <1>2. \A i \in 1 .. k : s[i] \in S /\ nx[s[i]] = s[i + 1]
    BY DEF Path
  <1>3. p \in [1 .. k + 2 -> Links]
    BY <1>1 DEF Pushed, Links
  <1>4. p[1] = x /\ \A i \in 2 .. k + 2 : p[i] = s[i - 1]
    BY <1>1 DEF Pushed
  <1> HIDE DEF p
  <1>5. k + 1 \in Nat /\ (k + 1) + 1 = k + 2 /\ p[k + 2] = NULL_EDGE
    BY <1>1, <1>4
  <1>6. ASSUME NEW i \in 1 .. k + 1 PROVE p[i] \in S \cup {x} /\ ny[p[i]] = p[i + 1]
    <2>1. CASE i = 1
      BY <1>1, <1>4, <2>1
    <2>2. CASE i # 1
      <3>1. i - 1 \in 1 .. k /\ i \in 2 .. k + 2 /\ i + 1 \in 2 .. k + 2 /\ (i - 1) + 1 = i /\ (i + 1) - 1 = i
        BY <1>1, <2>2
      <3> QED
        BY <1>2, <1>4, <3>1
    <2> QED
      BY <2>1, <2>2
  <1>7. ASSUME NEW y \in S \cup {x} PROVE \E i \in 1 .. k + 1 : p[i] = y
    <2>1. CASE y = x
      BY <1>1, <1>4, <2>1
    <2>2. CASE y # x
      <3>1. PICK j \in 1 .. k : s[j] = y
        BY <2>2 DEF Path
      <3>2. j + 1 \in 1 .. k + 1 /\ j + 1 \in 2 .. k + 2 /\ (j + 1) - 1 = j
        BY <1>1
      <3> QED
        BY <1>4, <3>1, <3>2
    <2> QED
      BY <2>1, <2>2
  <1>8. ASSUME NEW i \in 1 .. k + 1, NEW j \in 1 .. k + 1, p[i] = p[j] PROVE i = j
    <2>1. \A m \in 1 .. k + 1 : m # 1 => m - 1 \in 1 .. k /\ p[m] = s[m - 1] /\ p[m] # x
      BY <1>1, <1>2, <1>4
    <2>2. \A m, n \in 1 .. k : s[m] = s[n] => m = n
      BY DEF Path
    <2>3. CASE i = 1 \/ j = 1
      BY <1>4, <1>8, <2>1, <2>3
    <2>4. CASE i # 1 /\ j # 1
      <3>1. i - 1 = j - 1
        BY <1>8, <2>1, <2>2, <2>4
      <3> QED
        BY <1>1, <3>1
    <2> QED
      BY <2>3, <2>4
  <1> QED
    BY <1>3, <1>4, <1>5, <1>6, <1>7, <1>8 DEF Path, p

\* An edge is taken out: its predecessor, or the head, takes over its link.
LEMMA PathDrop ==
  ASSUME NEW nx, NEW ny, NEW S \in SUBSET Ids, NEW h, NEW k, NEW s,
         Path(nx, h, S, k, s), NEW c \in 1 .. k, NEW g,
         \A i \in 1 .. k : i # c - 1 => ny[s[i]] = nx[s[i]],
         IF c = 1 THEN g = s[2] ELSE g = h /\ ny[s[c - 1]] = s[c + 1]
  PROVE  Path(ny, g, S \ {s[c]}, k - 1, Without(s, k, c))
  <1> DEFINE p == Without(s, k, c)
  <1>1. k \in Nat /\ s \in [1 .. k + 1 -> Links] /\ s[1] = h /\ s[k + 1] = NULL_EDGE
    BY DEF Path
  <1>2. \A i \in 1 .. k : s[i] \in S /\ nx[s[i]] = s[i + 1]
    BY DEF Path
  <1>0. \A i, j \in 1 .. k : s[i] = s[j] => i = j
    BY DEF Path
  <1>3. p \in [1 .. k -> Links]
    BY <1>1 DEF Without
  <1>4. \A i \in 1 .. k : p[i] = IF i < c THEN s[i] ELSE s[i + 1]
    BY <1>1 DEF Without
  <1> HIDE DEF p
  <1>5. k - 1 \in Nat /\ (k - 1) + 1 = k /\ p[k] = NULL_EDGE
    BY <1>1, <1>4
  <1>6. p[1] = g
    BY <1>1, <1>4
  <1>7. ASSUME NEW i \in 1 .. k - 1 PROVE p[i] \in S \ {s[c]} /\ ny[p[i]] = p[i + 1]
    <2>1. CASE i < c - 1
      <3>1. i \in 1 .. k /\ i + 1 \in 1 .. k /\ i < c /\ i + 1 < c /\ i # c - 1 /\ i # c
        BY <1>1, <2>1
      <3> QED
        BY <1>0, <1>2, <1>4, <3>1
    <2>2. CASE i = c - 1
      <3>1. i \in 1 .. k /\ i + 1 \in 1 .. k /\ i < c /\ ~(i + 1 < c) /\ i # c /\ c # 1 /\ i + 1 = c
        BY <1>1, <2>2
      <3> QED
        BY <1>0, <1>2, <1>4, <2>2, <3>1
    <2>3. CASE i >= c
      <3>1. i \in 1 .. k /\ i + 1 \in 1 .. k /\ ~(i < c) /\ ~(i + 1 < c) /\ i + 1 # c /\ i + 1 # c - 1
        BY <1>1, <2>3
      <3> QED
        BY <1>0, <1>2, <1>4, <3>1
    <2> QED
      BY <1>1, <2>1, <2>2, <2>3
  <1>8. ASSUME NEW y \in S \ {s[c]} PROVE \E i \in 1 .. k - 1 : p[i] = y
    <2>1. PICK j \in 1 .. k : s[j] = y
      BY DEF Path
    <2>2. j # c
      BY <2>1
    <2>3. CASE j < c
      <3>1. j \in 1 .. k - 1
        BY <1>1, <2>3
      <3> QED
        BY <1>4, <2>1, <2>3, <3>1
    <2>4. CASE j > c
      <3>1. j - 1 \in 1 .. k - 1 /\ j - 1 \in 1 .. k /\ ~(j - 1 < c) /\ (j - 1) + 1 = j
        BY <1>1, <2>4
      <3> QED
        BY <1>4, <2>1, <3>1
    <2> QED
      BY <2>2, <2>3, <2>4
  <1>9. ASSUME NEW i \in 1 .. k - 1, NEW j \in 1 .. k - 1, p[i] = p[j] PROVE i = j
    <2> DEFINE f(m) == IF m < c THEN m ELSE m + 1
    <2>1. \A m \in 1 .. k - 1 : m \in 1 .. k /\ f(m) \in 1 .. k /\ p[m] = s[f(m)]
      BY <1>1, <1>4
    <2>2. f(i) = f(j)
      <3> HIDE DEF f
      <3> QED
        BY <1>0, <1>9, <2>1
    <2> QED
      BY <2>2
  <1> QED
    BY <1>3, <1>5, <1>6, <1>7, <1>8, <1>9 DEF Path, p

-----------------------------------------------------------------------------
(* Searches and walks as places in a chain                                 *)

\* A search for x that is at a: x is not among the edges up to there.
SoughtAt(nx, h, S, a, x, k, s, i) ==
    /\ Path(nx, h, S, k, s) /\ i \in 1 .. k + 1 /\ s[i] = a
    /\ \A j \in 1 .. k : j <= i => s[j] # x

Sought(nx, h, S, a, x) == \E k, s, i : SoughtAt(nx, h, S, a, x, k, s, i)

\* Links lead from a to b through edges of G that are not on the chain.
Detour(nx, S, G, a, b, m, q) ==
    /\ m \in Nat /\ q \in [1 .. m + 1 -> Links]
    /\ q[1] = a /\ q[m + 1] = b
    /\ \A j \in 1 .. m : q[j] \in G \ S /\ nx[q[j]] = q[j + 1]

\* A walk at a, perhaps on edges that were taken out under it, comes back to
\* the chain in front of all of U.
AheadAt(nx, h, S, G, a, U, k, s, i, m, q) ==
    /\ Path(nx, h, S, k, s) /\ i \in 1 .. k + 1
    /\ Detour(nx, S, G, a, s[i], m, q)
    /\ \A x \in U : \E j \in i .. k : s[j] = x

Ahead(nx, h, S, G, a, U) ==
    \E k, s, i, m, q : AheadAt(nx, h, S, G, a, U, k, s, i, m, q)

\* Every nonempty set of naturals has a least element.
LEMMA LeastNatural == ASSUME NEW T \in SUBSET Nat, T # {} PROVE \E x \in T : \A y \in T : x <= y
  <1> DEFINE R == {ss \in Nat \X Nat : ss[1] < ss[2]}
  <1>1. IsWellFoundedOn(R, Nat)
    BY NatLessThanWellFounded, Zenon DEF OpToRel
  <1>2. PICK x \in T : \A y \in T : ~(<<y, x>> \in R)
    <2> HIDE DEF R
    <2> QED
      BY <1>1, WFMin
  <1>3. \A y \in T : ~(y < x)
    BY <1>2
  <1> QED
    BY <1>3

\* A set with 0 that is closed under successors up to N has all up to N.
LEMMA UpTo ==
  ASSUME NEW N \in Nat, NEW S, 0 \in S, \A n \in 0 .. N - 1 : n \in S => n + 1 \in S
  PROVE  \A n \in 0 .. N : n \in S
  <1> SUFFICES ASSUME NEW m \in 0 .. N, m \notin S PROVE FALSE
    OBVIOUS
  <1> DEFINE T == {n \in 0 .. N : n \notin S}
  <1>1. T \in SUBSET Nat /\ T # {}
    OBVIOUS
  <1>2. PICK x \in T : \A y \in T : x <= y
    <2> HIDE DEF T
    <2> QED
      BY <1>1, LeastNatural
  <1>3. x \in 1 .. N /\ x - 1 \in 0 .. N - 1 /\ (x - 1) + 1 = x
    BY <1>2
  <1>4. x - 1 \in S
    BY <1>2, <1>3
  <1> QED
    BY <1>2, <1>3, <1>4

\* A search starts at a head that is not what it looks for.
LEMMA SoughtStart ==
  ASSUME NEW nx, NEW S, NEW h, NEW k, NEW s, Path(nx, h, S, k, s), NEW x, h # x
  PROVE  Sought(nx, h, S, h, x)
  <1>1. k \in Nat /\ s \in [1 .. k + 1 -> Links] /\ s[1] = h /\ 1 \in 1 .. k + 1
    BY DEF Path
  <1>2. \A j \in 1 .. k : j <= 1 => j = 1
    BY <1>1
  <1>3. \A j \in 1 .. k : j <= 1 => s[j] # x
    BY <1>1, <1>2
  <1>4. SoughtAt(nx, h, S, h, x, k, s, 1)
    BY <1>1, <1>3 DEF SoughtAt
  <1> QED
    BY <1>4 DEF Sought

\* The links of other edges do not matter to a search.
LEMMA SoughtFrame ==
  ASSUME NEW nx, NEW ny, NEW S, NEW h, NEW a, NEW x, Sought(nx, h, S, a, x),
         \A y \in S : ny[y] = nx[y]
  PROVE  Sought(ny, h, S, a, x)
  <1>0. PICK k, s, i : SoughtAt(nx, h, S, a, x, k, s, i)
    BY DEF Sought
  <1>1. Path(nx, h, S, k, s) /\ i \in 1 .. k + 1 /\ s[i] = a /\ \A j \in 1 .. k : j <= i => s[j] # x
    BY <1>0 DEF SoughtAt
  <1>2. Path(ny, h, S, k, s)
    BY <1>1, PathFrame
  <1>3. SoughtAt(ny, h, S, a, x, k, s, i)
    BY <1>1, <1>2 DEF SoughtAt
  <1> QED
    BY <1>3 DEF Sought

\* A search that goes on has not found its edge and stays on the chain.
LEMMA SoughtNext ==
  ASSUME NEW nx, NEW S \in SUBSET Ids, NEW h, NEW a \in Ids, NEW x, Sought(nx, h, S, a, x)
  PROVE  a \in S /\ a # x /\ (nx[a] # x => Sought(nx, h, S, nx[a], x))
  <1>0. PICK k, s, i : SoughtAt(nx, h, S, a, x, k, s, i)
    BY DEF Sought
  <1>1. Path(nx, h, S, k, s) /\ i \in 1 .. k + 1 /\ s[i] = a /\ \A j \in 1 .. k : j <= i => s[j] # x
    BY <1>0 DEF SoughtAt
  <1>2. k \in Nat /\ s \in [1 .. k + 1 -> Links] /\ s[k + 1] = NULL_EDGE /\ \A j \in 1 .. k : s[j] \in S /\ nx[s[j]] = s[j + 1]
    BY <1>1 DEF Path
  <1>3. i \in 1 .. k /\ i <= i /\ i + 1 \in 1 .. k + 1
    BY <1>1, <1>2, IdsAssumption
  <1>4. a \in S /\ a # x /\ s[i + 1] = nx[a]
    BY <1>1, <1>2, <1>3
  <1>5. ASSUME nx[a] # x PROVE Sought(nx, h, S, nx[a], x)
    <2>1. ASSUME NEW j \in 1 .. k, j <= i + 1 PROVE s[j] # x
      <3>1. j <= i \/ j = i + 1
        BY <1>3, <2>1
      <3> QED
        BY <1>1, <1>4, <1>5, <2>1, <3>1
    <2>2. SoughtAt(nx, h, S, nx[a], x, k, s, i + 1)
      BY <1>1, <1>3, <1>4, <2>1 DEF SoughtAt
    <2> QED
      BY <2>2 DEF Sought
  <1> QED
    BY <1>4, <1>5

\* A search that reaches the end has looked at the whole chain.
LEMMA SoughtEnd ==
  ASSUME NEW nx, NEW S \in SUBSET Ids, NEW h, NEW a, a \notin Ids, NEW x, Sought(nx, h, S, a, x)
  PROVE  x \notin S
  <1>0. PICK k, s, i : SoughtAt(nx, h, S, a, x, k, s, i)
    BY DEF Sought
  <1>1. Path(nx, h, S, k, s) /\ i \in 1 .. k + 1 /\ s[i] = a /\ \A j \in 1 .. k : j <= i => s[j] # x
    BY <1>0 DEF SoughtAt
  <1>2. k \in Nat /\ (\A j \in 1 .. k : s[j] \in S) /\ (x \in S => \E j \in 1 .. k : s[j] = x)
    BY <1>1 DEF Path
  <1>3. i \notin 1 .. k
    BY <1>1, <1>2
  <1>4. \A j \in 1 .. k : j <= i
    BY <1>1, <1>2, <1>3
  <1> QED
    BY <1>1, <1>2, <1>4

-----------------------------------------------------------------------------

\* A walk starts at the head.
LEMMA AheadStart ==
  ASSUME NEW nx, NEW S \in SUBSET Ids, NEW h, NEW k, NEW s, Path(nx, h, S, k, s), NEW G, NEW U \in SUBSET S
  PROVE  Ahead(nx, h, S, G, h, U)
  <1> DEFINE q == [j \in 1 .. 0 + 1 |-> h]
  <1>1. k \in Nat /\ s \in [1 .. k + 1 -> Links] /\ s[1] = h /\ 1 \in 1 .. k + 1
    BY DEF Path
  <1>2. h \in Links
    BY <1>1
  <1>3. Detour(nx, S, G, h, s[1], 0, q)
    BY <1>1, <1>2 DEF Detour
  <1>4. q \in [1 .. 0 + 1 -> Links]
    BY <1>2
  <1>5. \A x \in U : \E j \in 1 .. k : s[j] = x
    BY DEF Path
  <1> HIDE DEF q
  <1>6. AheadAt(nx, h, S, G, h, U, k, s, 1, 0, q)
    BY <1>1, <1>3, <1>4, <1>5 DEF AheadAt
  <1> QED
    BY <1>6 DEF Ahead

\* The links of edges of other nodes do not matter to a walk.
LEMMA AheadFrame ==
  ASSUME NEW nx, NEW ny, NEW S, NEW h, NEW G, NEW G2, NEW a, NEW U, NEW U2,
         Ahead(nx, h, S, G, a, U), S \subseteq G, G \subseteq G2, U2 \subseteq U,
         \A y \in G : ny[y] = nx[y]
  PROVE  Ahead(ny, h, S, G2, a, U2)
  <1>0. PICK k, s, i, m, q : AheadAt(nx, h, S, G, a, U, k, s, i, m, q)
    BY DEF Ahead
  <1>1. /\ Path(nx, h, S, k, s) /\ i \in 1 .. k + 1 /\ Detour(nx, S, G, a, s[i], m, q)
        /\ \A x \in U : \E j \in i .. k : s[j] = x
    BY <1>0 DEF AheadAt
  <1>2. Path(ny, h, S, k, s)
    BY <1>1, PathFrame
  <1>3. Detour(ny, S, G2, a, s[i], m, q)
    BY <1>1 DEF Detour
  <1>4. AheadAt(ny, h, S, G2, a, U2, k, s, i, m, q)
    BY <1>1, <1>2, <1>3 DEF AheadAt
  <1> QED
    BY <1>4 DEF Ahead

\* One turn of a walk.
LEMMA AheadNext ==
  ASSUME NEW nx, NEW S \in SUBSET Ids, NEW h, NEW G, S \subseteq G, NEW a \in Ids, NEW U, Ahead(nx, h, S, G, a, U)
  PROVE  a \in G /\ Ahead(nx, h, S, G, nx[a], U \ {a})
  <1>0. PICK k, s, i, m, q : AheadAt(nx, h, S, G, a, U, k, s, i, m, q)
    BY DEF Ahead
  <1>1. /\ Path(nx, h, S, k, s) /\ i \in 1 .. k + 1 /\ Detour(nx, S, G, a, s[i], m, q)
        /\ \A x \in U : \E j \in i .. k : s[j] = x
    BY <1>0 DEF AheadAt
  <1>2. k \in Nat /\ s \in [1 .. k + 1 -> Links] /\ s[k + 1] = NULL_EDGE /\ \A j \in 1 .. k : s[j] \in S /\ nx[s[j]] = s[j + 1]
    BY <1>1 DEF Path
  <1>3. m \in Nat /\ q \in [1 .. m + 1 -> Links] /\ q[1] = a /\ q[m + 1] = s[i] /\ \A j \in 1 .. m : q[j] \in G \ S /\ nx[q[j]] = q[j + 1]
    BY <1>1 DEF Detour
  <1>4. CASE m = 0
    <2>1. a = s[i] /\ i \in 1 .. k /\ i + 1 \in 1 .. k + 1
      BY <1>1, <1>2, <1>3, <1>4, IdsAssumption
    <2>2. a \in S /\ nx[a] = s[i + 1] /\ s[i + 1] \in Links
      BY <1>2, <2>1
    <2> DEFINE p == [j \in 1 .. 0 + 1 |-> nx[a]]
    <2>3. Detour(nx, S, G, nx[a], s[i + 1], 0, p) /\ p \in [1 .. 0 + 1 -> Links]
      BY <2>2 DEF Detour
    <2>4. ASSUME NEW x \in U \ {a} PROVE \E j \in i + 1 .. k : s[j] = x
      <3>1. PICK j \in i .. k : s[j] = x
        BY <1>1
      <3>2. j \in i + 1 .. k
        BY <2>1, <3>1
      <3> QED
        BY <3>1, <3>2
    <2> HIDE DEF p
    <2>5. AheadAt(nx, h, S, G, nx[a], U \ {a}, k, s, i + 1, 0, p)
      BY <1>1, <2>1, <2>2, <2>3, <2>4 DEF AheadAt
    <2> QED
      BY <2>2, <2>5 DEF Ahead
  <1>5. CASE m # 0
    <2> DEFINE p == [j \in 1 .. m |-> q[j + 1]]
    <2>1. m - 1 \in Nat /\ (m - 1) + 1 = m /\ 1 \in 1 .. m /\ p \in [1 .. m -> Links]
      BY <1>3, <1>5
    <2>2. p[1] = nx[a] /\ p[m] = s[i] /\ a \in G
      BY <1>3, <2>1
    <2>3. \A j \in 1 .. m - 1 : p[j] \in G \ S /\ nx[p[j]] = p[j + 1]
      BY <1>3, <2>1
    <2> HIDE DEF p
    <2>4. Detour(nx, S, G, nx[a], s[i], m - 1, p)
      BY <2>1, <2>2, <2>3 DEF Detour
    <2>5. AheadAt(nx, h, S, G, nx[a], U \ {a}, k, s, i, m - 1, p)
      BY <1>1, <2>1, <2>2, <2>4 DEF AheadAt
    <2> QED
      BY <2>2, <2>5 DEF Ahead
  <1> QED
    BY <1>4, <1>5

\* A walk that is over has left nothing out.
LEMMA AheadEnd ==
  ASSUME NEW nx, NEW S \in SUBSET Ids, NEW h, NEW G \in SUBSET Ids, NEW a, a \notin G, S \subseteq G, NEW U,
         Ahead(nx, h, S, G, a, U)
  PROVE  U = {}
  <1>0. PICK k, s, i, m, q : AheadAt(nx, h, S, G, a, U, k, s, i, m, q)
    BY DEF Ahead
  <1>1. /\ Path(nx, h, S, k, s) /\ i \in 1 .. k + 1 /\ Detour(nx, S, G, a, s[i], m, q)
        /\ \A x \in U : \E j \in i .. k : s[j] = x
    BY <1>0 DEF AheadAt
  <1>2. k \in Nat /\ \A j \in 1 .. k : s[j] \in S
    BY <1>1 DEF Path
  <1>3. m \in Nat /\ q \in [1 .. m + 1 -> Links] /\ q[1] = a /\ q[m + 1] = s[i] /\ \A j \in 1 .. m : q[j] \in G
    BY <1>1 DEF Detour
  <1>4. m = 0
    BY <1>3
  <1>5. i \notin 1 .. k
    BY <1>2, <1>3, <1>4
  <1>6. \A j \in i .. k : FALSE
    BY <1>1, <1>2, <1>5
  <1> QED
    BY <1>1, <1>6

-----------------------------------------------------------------------------
(* Links that change under a walk                                          *)

\* x is taken out of a chain: the head moves on, or the edge in front of it
\* takes over its link; no other link of G changes.
TakesOut(nx, ny, h, g, S, G, x) ==
    \/ h = x /\ g = nx[x] /\ \A y \in G : ny[y] = nx[y]
    \/ g = h /\ \E p \in S : /\ nx[p] = x /\ ny[p] = nx[x]
                             /\ \A y \in G \ {p} : ny[y] = nx[y]

\* x was the c-th edge of s, and what is left is a chain.
CutAt(nx, ny, g, S, G, x, k, s, c) ==
    /\ c \in 1 .. k /\ s[c] = x /\ ny[x] = s[c + 1]
    /\ \A y \in G \ S : ny[y] = nx[y]
    /\ Path(ny, g, S \ {x}, k - 1, Without(s, k, c))

\* What is left is a chain, the old one without x.
LEMMA PathTakeOut ==
  ASSUME NEW nx, NEW ny, NEW S \in SUBSET Ids, NEW G, S \subseteq G, NEW h, NEW g, NEW k, NEW s,
         Path(nx, h, S, k, s), NEW x \in S, TakesOut(nx, ny, h, g, S, G, x)
  PROVE  \E c : CutAt(nx, ny, g, S, G, x, k, s, c)
  <1>1. k \in Nat /\ s \in [1 .. k + 1 -> Links] /\ s[1] = h /\ s[k + 1] = NULL_EDGE
    BY DEF Path
  <1>2. \A i \in 1 .. k : s[i] \in S /\ nx[s[i]] = s[i + 1]
    BY DEF Path
  <1>3. \A i, j \in 1 .. k : s[i] = s[j] => i = j
    BY DEF Path
  <1>4. CASE h = x /\ g = nx[x] /\ \A y \in G : ny[y] = nx[y]
    <2>1. PICK c \in 1 .. k : s[c] = x
      BY DEF Path
    <2>2. 1 \in 1 .. k
      BY <1>1, <2>1
    <2>3. c = 1
      BY <1>1, <1>3, <1>4, <2>1, <2>2
    <2>4. \A i \in 1 .. k : i # c - 1 => ny[s[i]] = nx[s[i]]
      BY <1>2, <1>4
    <2>5. g = s[2] /\ ny[x] = s[c + 1]
      BY <1>2, <1>4, <2>1, <2>3
    <2>6. IF c = 1 THEN g = s[2] ELSE g = h /\ ny[s[c - 1]] = s[c + 1]
      BY <2>3, <2>5
    <2>7. Path(ny, g, S \ {s[c]}, k - 1, Without(s, k, c))
      BY <2>4, <2>6, PathDrop
    <2>8. CutAt(nx, ny, g, S, G, x, k, s, c)
      BY <1>4, <2>1, <2>5, <2>7 DEF CutAt
    <2> QED
      BY <2>8
  <1>5. CASE g = h /\ \E p \in S : nx[p] = x /\ ny[p] = nx[x] /\ \A y \in G \ {p} : ny[y] = nx[y]
    <2>1. PICK p \in S : nx[p] = x /\ ny[p] = nx[x] /\ \A y \in G \ {p} : ny[y] = nx[y]
      BY <1>5
    <2>2. PICK b \in 1 .. k : s[b] = p
      BY DEF Path
    <2>3. s[b + 1] = x /\ x # NULL_EDGE
      BY <1>2, <2>1, <2>2, IdsAssumption
    <2>4. b # k
      BY <1>1, <2>3
    <2>5. b + 1 \in 1 .. k /\ b + 1 # 1 /\ (b + 1) - 1 = b /\ b + 1 # b
      BY <1>1, <2>4
    <2>6. ASSUME NEW i \in 1 .. k, i # (b + 1) - 1 PROVE ny[s[i]] = nx[s[i]]
      <3>1. s[i] # p
        BY <1>3, <2>2, <2>5, <2>6
      <3> QED
        BY <1>2, <2>1, <3>1
    <2>7. x # p /\ nx[x] = s[(b + 1) + 1]
      BY <1>2, <1>3, <2>2, <2>3, <2>5
    <2>8. IF b + 1 = 1 THEN g = s[2] ELSE g = h /\ ny[s[(b + 1) - 1]] = s[(b + 1) + 1]
      BY <1>5, <2>1, <2>2, <2>5, <2>7
    <2>9. Path(ny, g, S \ {s[b + 1]}, k - 1, Without(s, k, b + 1))
      <3> DEFINE c == b + 1
      <3>1. c \in 1 .. k /\ (\A i \in 1 .. k : i # c - 1 => ny[s[i]] = nx[s[i]])
            /\ IF c = 1 THEN g = s[2] ELSE g = h /\ ny[s[c - 1]] = s[c + 1]
        BY <2>5, <2>6, <2>8
      <3> HIDE DEF c
      <3>2. Path(ny, g, S \ {s[c]}, k - 1, Without(s, k, c))
        BY <3>1, PathDrop
      <3> QED
        BY <3>2 DEF c
    <2>10. ny[x] = s[(b + 1) + 1] /\ \A y \in G \ S : ny[y] = nx[y]
      BY <2>1, <2>7
    <2>11. CutAt(nx, ny, g, S, G, x, k, s, b + 1)
      BY <2>3, <2>5, <2>9, <2>10 DEF CutAt
    <2> QED
      BY <2>11
  <1> QED
    BY <1>4, <1>5 DEF TakesOut

\* A walk on an edge that is taken out, or on its way to it, goes on.
LEMMA AheadTakeOut ==
  ASSUME NEW nx, NEW ny, NEW S \in SUBSET Ids, NEW G \in SUBSET Ids, S \subseteq G, NEW h, NEW g, NEW a,
         NEW U, Ahead(nx, h, S, G, a, U), NEW x \in S, x \notin U, TakesOut(nx, ny, h, g, S, G, x)
  PROVE  Ahead(ny, g, S \ {x}, G, a, U)
  <1>0. PICK k, s, i, m, q : AheadAt(nx, h, S, G, a, U, k, s, i, m, q)
    BY DEF Ahead
  <1>1. /\ Path(nx, h, S, k, s) /\ i \in 1 .. k + 1 /\ Detour(nx, S, G, a, s[i], m, q)
        /\ \A y \in U : \E j \in i .. k : s[j] = y
    BY <1>0 DEF AheadAt
  <1>10. PICK c : CutAt(nx, ny, g, S, G, x, k, s, c)
    BY <1>1, PathTakeOut
  <1>2. /\ c \in 1 .. k /\ s[c] = x /\ ny[x] = s[c + 1]
        /\ \A y \in G \ S : ny[y] = nx[y]
        /\ Path(ny, g, S \ {x}, k - 1, Without(s, k, c))
    BY <1>10 DEF CutAt
  <1> DEFINE p == Without(s, k, c)
  <1>3. k \in Nat /\ s \in [1 .. k + 1 -> Links] /\ k - 1 \in Nat /\ (k - 1) + 1 = k
    BY <1>1, <1>2 DEF Path
  <1>4. \A j \in 1 .. k : p[j] = IF j < c THEN s[j] ELSE s[j + 1]
    BY <1>3 DEF Without
  <1>5. m \in Nat /\ q \in [1 .. m + 1 -> Links] /\ q[1] = a /\ q[m + 1] = s[i]
        /\ \A j \in 1 .. m : q[j] \in G \ S /\ nx[q[j]] = q[j + 1]
    BY <1>1 DEF Detour
  <1> DEFINE e == IF i <= c THEN i ELSE i - 1
  <1>6. e \in 1 .. k /\ e \in 1 .. (k - 1) + 1
    BY <1>2, <1>1, <1>3
  <1> HIDE DEF p
  <1>7. ASSUME NEW y \in U PROVE \E j \in e .. k - 1 : p[j] = y
    <2>1. PICK j \in i .. k : s[j] = y
      BY <1>1
    <2>2. j # c
      BY <1>2, <2>1
    <2>3. CASE j < c
      <3>1. j \in e .. k - 1 /\ j \in 1 .. k
        BY <1>2, <1>1, <1>3, <2>3
      <3> QED
        BY <1>4, <2>1, <2>3, <3>1
    <2>4. CASE j > c
      <3>1. j - 1 \in e .. k - 1 /\ j - 1 \in 1 .. k /\ ~(j - 1 < c) /\ (j - 1) + 1 = j
        BY <1>2, <1>1, <1>3, <2>4
      <3> QED
        BY <1>4, <2>1, <3>1
    <2> QED
      BY <1>2, <1>1, <1>3, <2>2, <2>3, <2>4
  <1>8. CASE i # c
    <2>1. p[e] = s[i]
      BY <1>2, <1>1, <1>3, <1>4, <1>6, <1>8
    <2>2. Detour(ny, S \ {x}, G, a, p[e], m, q)
      BY <1>2, <1>5, <2>1 DEF Detour
    <2>3. AheadAt(ny, g, S \ {x}, G, a, U, k - 1, p, e, m, q)
      BY <1>2, <1>6, <1>7, <2>2 DEF AheadAt, p
    <2> QED
      BY <2>3 DEF Ahead
  <1>9. CASE i = c
    <2> DEFINE r == [j \in 1 .. m + 2 |-> IF j <= m + 1 THEN q[j] ELSE s[c + 1]]
    <2>1. e = c /\ p[e] = s[c + 1] /\ c + 1 \in 1 .. k + 1 /\ s[c + 1] \in Links
      BY <1>2, <1>3, <1>4, <1>9
    <2>2. r \in [1 .. m + 2 -> Links]
      BY <1>5, <2>1
    <2>3. (\A j \in 1 .. m + 1 : r[j] = q[j]) /\ r[m + 2] = s[c + 1]
      BY <1>5
    <2> HIDE DEF r
    <2>4. ASSUME NEW j \in 1 .. m + 1 PROVE r[j] \in G \ (S \ {x}) /\ ny[r[j]] = r[j + 1]
      <3>1. CASE j = m + 1
        BY <1>2, <1>5, <1>9, <2>3, <3>1
      <3>2. CASE j # m + 1
        <4>1. j \in 1 .. m /\ j + 1 \in 1 .. m + 1
          BY <1>5, <3>2
        <4> QED
          BY <1>2, <1>5, <2>3, <4>1
      <3> QED
        BY <3>1, <3>2
    <2>5. m + 1 \in Nat /\ (m + 1) + 1 = m + 2 /\ r[1] = a
      BY <1>5, <2>3
    <2>6. Detour(ny, S \ {x}, G, a, p[e], m + 1, r)
      BY <2>1, <2>2, <2>3, <2>4, <2>5 DEF Detour
    <2>7. AheadAt(ny, g, S \ {x}, G, a, U, k - 1, p, e, m + 1, r)
      BY <1>2, <1>6, <1>7, <2>6 DEF AheadAt, p
    <2> QED
      BY <2>7 DEF Ahead
  <1> QED
    BY <1>8, <1>9

\* A walk meets an edge that is being linked again and starts over from the
\* head, or does not meet it.
LEMMA AheadPush ==
  ASSUME NEW nx, NEW ny, NEW S \in SUBSET Ids, NEW G \in SUBSET Ids, S \subseteq G, NEW h, NEW a, NEW U,
         Ahead(nx, h, S, G, a, U), NEW x \in Ids \ S, ny[x] = h, \A y \in G \ {x} : ny[y] = nx[y]
  PROVE  Ahead(ny, x, S \cup {x}, G, a, U)
  <1>0. PICK k, s, i, m, q : AheadAt(nx, h, S, G, a, U, k, s, i, m, q)
    BY DEF Ahead
  <1>1. /\ Path(nx, h, S, k, s) /\ i \in 1 .. k + 1 /\ Detour(nx, S, G, a, s[i], m, q)
        /\ \A y \in U : \E j \in i .. k : s[j] = y
    BY <1>0 DEF AheadAt
  <1> DEFINE p == Pushed(s, k, x)
  <1>2. Path(ny, x, S \cup {x}, k + 1, p)
    BY <1>1, PathPush
  <1>3. k \in Nat /\ s \in [1 .. k + 1 -> Links] /\ k + 1 \in Nat
    BY <1>1 DEF Path
  <1>4. p[1] = x /\ \A j \in 1 .. k + 1 : p[j + 1] = s[j]
    BY <1>3 DEF Pushed
  <1>5. m \in Nat /\ q \in [1 .. m + 1 -> Links] /\ q[1] = a /\ q[m + 1] = s[i]
        /\ \A j \in 1 .. m : q[j] \in G \ S /\ nx[q[j]] = q[j + 1]
    BY <1>1 DEF Detour
  <1> HIDE DEF p
  <1>6. ASSUME NEW y \in U PROVE \E j \in i + 1 .. k + 1 : p[j] = y
    <2>1. PICK j \in i .. k : s[j] = y
      BY <1>1
    <2>2. j \in 1 .. k + 1 /\ j + 1 \in i + 1 .. k + 1
      BY <1>1, <1>3
    <2> QED
      BY <1>4, <2>1, <2>2
  <1>7. CASE \A j \in 1 .. m : q[j] # x
    <2>1. Detour(ny, S \cup {x}, G, a, p[i + 1], m, q)
      BY <1>1, <1>4, <1>5, <1>7 DEF Detour
    <2>2. i + 1 \in 1 .. (k + 1) + 1
      BY <1>1, <1>3
    <2>3. AheadAt(ny, x, S \cup {x}, G, a, U, k + 1, p, i + 1, m, q)
      BY <1>2, <1>6, <2>1, <2>2 DEF AheadAt
    <2> QED
      BY <2>3 DEF Ahead
  <1>8. CASE \E j \in 1 .. m : q[j] = x
    <2> DEFINE T == {j \in 1 .. m : q[j] = x}
    <2>1. T \in SUBSET Nat /\ T # {}
      BY <1>5, <1>8
    <2>2. PICK b \in T : \A j \in T : b <= j
      <3> HIDE DEF T
      <3> QED
        BY <2>1, LeastNatural
    <2>3. b \in 1 .. m /\ q[b] = x /\ \A j \in 1 .. m : j < b => q[j] # x
      BY <2>2
    <2> HIDE DEF T
    <2> DEFINE r == [j \in 1 .. b |-> q[j]]
    <2>4. b - 1 \in Nat /\ (b - 1) + 1 = b /\ r \in [1 .. b -> Links] /\ r[1] = a /\ r[b] = p[1]
      BY <1>4, <1>5, <2>3
    <2>5. \A j \in 1 .. b - 1 : r[j] \in G \ (S \cup {x}) /\ ny[r[j]] = r[j + 1]
      BY <1>5, <2>3, <2>4, SMTT(30)
    <2> HIDE DEF r
    <2>6. Detour(ny, S \cup {x}, G, a, p[1], b - 1, r)
      BY <2>4, <2>5 DEF Detour
    <2>7. ASSUME NEW y \in U PROVE \E j \in 1 .. k + 1 : p[j] = y
      <3>1. PICK j \in i + 1 .. k + 1 : p[j] = y
        BY <1>6
      <3>2. j \in 1 .. k + 1
        BY <1>1, <1>3
      <3> QED
        BY <3>1, <3>2
    <2>8. AheadAt(ny, x, S \cup {x}, G, a, U, k + 1, p, 1, b - 1, r)
      BY <1>2, <1>3, <2>6, <2>7 DEF AheadAt
    <2> QED
      BY <2>8 DEF Ahead
  <1> QED
    BY <1>7, <1>8

-----------------------------------------------------------------------------
(* The calls                                                               *)

\* The call is in unlink_from_chains.
Unlinks(t) == pc[t] \in {"unlink", "search", "log"}

\* TypeOK without its last part.
Types ==
    /\ edges \in [Ids -> Edge \cup {Absent}] /\ stored \in [Ids -> Edge \cup {Absent}]
    /\ first \in [Dirs -> [Nodes -> Links]]
    /\ pc \in [Threads -> {"idle", "link", "link_log", "unlink", "search", "log"}]
    /\ dir \in [Threads -> Dirs]
    /\ cur \in [Threads -> Links] /\ at \in [Threads -> Links]
    /\ edge \in [Threads -> Edge \cup {Absent}]
    /\ pred \in [Threads -> [Dirs -> Links]]
    /\ linked \in SUBSET Ids /\ \A id \in linked : edges[id] # Absent

\* The edges of two calls are on four different chains.
Apart ==
    \A t, u \in Threads : pc[t] # "idle" /\ pc[u] # "idle" /\ t # u =>
        \A d \in Dirs : edges[cur[t]].end[d] # edges[cur[u]].end[d]

\* What a call works on.
Basic ==
    \A t \in Threads :
        /\ pc[t] = "idle" => cur[t] = NULL_EDGE
        /\ pc[t] # "idle" => cur[t] \in Ids /\ edges[cur[t]] # Absent
        /\ pc[t] \in {"link", "link_log"} => cur[t] \notin linked
        /\ pc[t] = "link_log" => dir[t] = "out"
        /\ Unlinks(t) => edge[t] \in Edge

Base == Types /\ Apart /\ Basic

\* Two edges have a head in common if they have an end in common.
LEMMA HeadsMeet ==
  ASSUME NEW i, NEW j
  PROVE  Heads(i) \cap Heads(j) = {} <=> \A d \in Dirs : edges[i].end[d] # edges[j].end[d]
  <1>1. ASSUME Heads(i) \cap Heads(j) = {}, NEW d \in Dirs, edges[i].end[d] = edges[j].end[d] PROVE FALSE
    <2>1. <<d, edges[i].end[d]>> \in Heads(i) /\ <<d, edges[i].end[d]>> \in Heads(j)
      BY <1>1 DEF Heads
    <2> QED
      BY <1>1, <2>1
  <1>2. ASSUME NEW p \in Heads(i) \cap Heads(j), \A d \in Dirs : edges[i].end[d] # edges[j].end[d] PROVE FALSE
    <2>1. PICK d \in Dirs : p = <<d, edges[i].end[d]>>
      BY <1>2 DEF Heads
    <2>2. PICK e \in Dirs : p = <<e, edges[j].end[e]>>
      BY <1>2 DEF Heads
    <2> QED
      BY <1>2, <2>1, <2>2
  <1> QED
    BY <1>1, <1>2

\* The types and the borrowing rule, in other words.
LEMMA TypeOKIs == TypeOK <=> Types /\ Apart
  <1>1. (\A t, u \in InCall : t # u => Heads(cur[t]) \cap Heads(cur[u]) = {}) <=> Apart
    BY HeadsMeet, ZenonT(60) DEF InCall, Apart
  <1>2. linked \subseteq InMap <=> linked \in SUBSET Ids /\ \A id \in linked : edges[id] # Absent
    BY DEF InMap
  <1> QED
    BY <1>1, <1>2, Zenon DEF TypeOK, Types

\* Nobody else has a head of an edge that is borrowable.
LEMMA BorrowableIs ==
  ASSUME NEW id, Borrowable(id)
  PROVE  \A u \in Threads : pc[u] # "idle" => \A d \in Dirs : edges[id].end[d] # edges[cur[u]].end[d]
  <1> SUFFICES ASSUME NEW u \in Threads, pc[u] # "idle"
               PROVE  Heads(id) \cap Heads(cur[u]) = {}
    BY HeadsMeet
  <1>1. u \in InCall /\ Heads(cur[u]) \subseteq Borrowed
    BY DEF InCall, Borrowed
  <1> QED
    BY <1>1 DEF Borrowable

\* What an edge that is in the map is made of.
LEMMA EdgeIs ==
  ASSUME NEW e \in Edge, NEW d \in Dirs
  PROVE  e.end \in [Dirs -> Nodes] /\ e.next \in [Dirs -> Links] /\ e.end[d] \in Nodes /\ e.next[d] \in Links
  BY DEF Edge

\* A changed link leaves an edge an edge, with its ends and its other link.
Relinked(i, d, l) ==
    /\ edges' \in [Ids -> Edge \cup {Absent}] /\ edges'[i] \in Edge
    /\ \A j \in Ids \ {i} : edges'[j] = edges[j]
    /\ \A j \in Ids : (edges'[j] = Absent <=> edges[j] = Absent) /\ edges'[j].end = edges[j].end
    /\ \A e \in Dirs : edges'[i].next[e] = IF e = d THEN l ELSE edges[i].next[e]

LEMMA RelinkIs ==
  ASSUME edges \in [Ids -> Edge \cup {Absent}], NEW i \in Ids, edges[i] \in Edge, NEW d \in Dirs, NEW l \in Links,
         edges' = [edges EXCEPT ![i].next[d] = l]
  PROVE  Relinked(i, d, l)
  <1>1. /\ edges[i].next \in [Dirs -> Links] /\ edges[i].end \in [Dirs -> Nodes]
        /\ edges[i] = [end |-> edges[i].end, next |-> edges[i].next]
    BY DEF Edge
  <1> DEFINE e2 == [edges[i] EXCEPT !.next[d] = l]
  <1>2. e2 = [end |-> edges[i].end, next |-> [edges[i].next EXCEPT ![d] = l]]
    BY <1>1
  <1>3. [edges[i].next EXCEPT ![d] = l] \in [Dirs -> Links]
    BY <1>1
  <1>4. e2 \in Edge /\ e2.end = edges[i].end /\ e2.next = [edges[i].next EXCEPT ![d] = l]
    BY <1>1, <1>2, <1>3 DEF Edge
  <1>5. edges' = [edges EXCEPT ![i] = e2]
    OBVIOUS
  <1> HIDE DEF e2
  <1>6. edges'[i] = e2 /\ \A j \in Ids \ {i} : edges'[j] = edges[j]
    BY <1>5
  <1>7. edges' \in [Ids -> Edge \cup {Absent}]
    BY <1>4, <1>5
  <1>8. e2 # Absent /\ edges[i] # Absent
    BY <1>4, AbsentAssumption
  <1>9. \A e \in Dirs : e2.next[e] = IF e = d THEN l ELSE edges[i].next[e]
    BY <1>1, <1>4
  <1> QED
    BY <1>4, <1>6, <1>7, <1>8, <1>9 DEF Relinked

-----------------------------------------------------------------------------
(* What the actions do to the map                                          *)

\* A new edge has its ends and no links.
LEMMA InsertIs ==
  ASSUME Types, NEW id \in Ids, NEW ends \in Ends, insert_edge(id, ends[1], ends[2])
  PROVE  /\ edges[id] = Absent /\ edges'[id] \in Edge /\ stored'[id] = edges'[id]
         /\ \A d \in Dirs : edges'[id].next[d] = NULL_EDGE
         /\ \A j \in Ids \ {id} : edges'[j] = edges[j] /\ stored'[j] = stored[j]
         /\ edges' \in [Ids -> Edge \cup {Absent}] /\ stored' \in [Ids -> Edge \cup {Absent}]
         /\ UNCHANGED <<first, call, walk, linked, stable>>
  <1> DEFINE new == [end |-> [d \in Dirs |-> IF d = "out" THEN ends[1] ELSE ends[2]],
                     next |-> [d \in Dirs |-> NULL_EDGE]]
  <1>1. ends[1] \in Nodes /\ ends[2] \in Nodes
    BY EndsAssumption
  <1>2. new \in Edge /\ \A d \in Dirs : new.next[d] = NULL_EDGE
    BY <1>1 DEF Edge, Links
  <1>3. /\ edges[id] = Absent /\ edges' = [edges EXCEPT ![id] = new] /\ stored' = [stored EXCEPT ![id] = new]
        /\ UNCHANGED <<first, call, walk, linked, stable>>
    BY DEF insert_edge
  <1> HIDE DEF new
  <1>4. edges'[id] = new /\ stored'[id] = new
    BY <1>3 DEF Types
  <1>5. \A j \in Ids \ {id} : edges'[j] = edges[j] /\ stored'[j] = stored[j]
    BY <1>3 DEF Types
  <1>6. edges' \in [Ids -> Edge \cup {Absent}] /\ stored' \in [Ids -> Edge \cup {Absent}]
    BY <1>2, <1>3 DEF Types
  <1> QED
    BY <1>2, <1>3, <1>4, <1>5, <1>6

\* A deleted edge is neither linked nor in a call.
LEMMA DeleteIs ==
  ASSUME Types, NEW id \in Ids, hard_delete(id)
  PROVE  /\ edges[id] # Absent /\ id \notin linked /\ edges'[id] = Absent /\ stored'[id] = Absent
         /\ \A t \in Threads : pc[t] # "idle" => cur[t] # id
         /\ \A j \in Ids \ {id} : edges'[j] = edges[j] /\ stored'[j] = stored[j]
         /\ edges' \in [Ids -> Edge \cup {Absent}] /\ stored' \in [Ids -> Edge \cup {Absent}]
         /\ Quiet => \A w \in Walkers : ~walk[w].on
         /\ UNCHANGED <<first, call, walk, linked, stable>>
  BY DEF Types, hard_delete, InMap, InCall

\* Where a call can be.
Places == {"idle", "link", "link_log", "unlink", "search", "log"}

\* Where a call that goes on is next.
LEMMA OnwardIs ==
  ASSUME Types, NEW t \in Threads, NEW again \in Places, NEW last \in Places, Onward(t, again, last)
  PROVE  /\ pc' \in [Threads -> Places] /\ dir' \in [Threads -> Dirs]
         /\ \A u \in Threads \ {t} : pc'[u] = pc[u] /\ dir'[u] = dir[u]
         /\ dir[t] = "out" => pc'[t] = again /\ dir'[t] = "in"
         /\ dir[t] # "out" => dir[t] = "in" /\ pc'[t] = last /\ dir'[t] = "out"
  BY ZenonT(60) DEF Types, Onward, Dirs, Places

\* LinkOne changes a link of the edge and a head.
LEMMA LinkOneIs ==
  ASSUME Base, NEW t \in Threads, LinkOne(t)
  PROVE  /\ pc[t] = "link" /\ cur[t] \in Ids /\ edges[cur[t]] \in Edge /\ dir[t] \in Dirs /\ End(t) \in Nodes
         /\ first[dir[t]][End(t)] \in Links
         /\ edges' = [edges EXCEPT ![cur[t]].next[dir[t]] = first[dir[t]][End(t)]]
         /\ first' \in [Dirs -> [Nodes -> Links]]
         /\ \A d \in Dirs, n \in Nodes :
               first'[d][n] = IF d = dir[t] /\ n = End(t) THEN cur[t] ELSE first[d][n]
         /\ Onward(t, "link", "link_log")
         /\ UNCHANGED <<stored, cur, edge, at, pred, walk, linked, stable>>
  <1>1. pc[t] = "link" /\ cur[t] \in Ids /\ edges[cur[t]] \in Edge /\ dir[t] \in Dirs
    BY DEF LinkOne, Base, Types, Basic
  <1>2. End(t) \in Nodes
    BY <1>1, EdgeIs DEF End
  <1>3. first' = [first EXCEPT ![dir[t]][End(t)] = cur[t]] /\ first \in [Dirs -> [Nodes -> Links]]
    BY DEF LinkOne, Base, Types
  <1>4. first' \in [Dirs -> [Nodes -> Links]]
    BY <1>1, <1>2, <1>3 DEF Links
  <1>5. \A d \in Dirs, n \in Nodes : first'[d][n] = IF d = dir[t] /\ n = End(t) THEN cur[t] ELSE first[d][n]
    BY <1>1, <1>2, <1>3
  <1>6. first[dir[t]][End(t)] \in Links
    BY <1>1, <1>2, <1>3
  <1> QED
    BY <1>1, <1>2, <1>4, <1>5, <1>6 DEF LinkOne

\* UnlinkHead moves a head, or leaves the chains alone.
LEMMA UnlinkHeadIs ==
  ASSUME Base, NEW t \in Threads, UnlinkHead(t)
  PROVE  /\ pc[t] = "unlink" /\ cur[t] \in Ids /\ edges[cur[t]] \in Edge /\ dir[t] \in Dirs /\ End(t) \in Nodes
         /\ edge[t] \in Edge /\ first' \in [Dirs -> [Nodes -> Links]]
         /\ \/ /\ first[dir[t]][End(t)] = cur[t]
               /\ \A d \in Dirs, n \in Nodes :
                     first'[d][n] = IF d = dir[t] /\ n = End(t) THEN edge[t].next[dir[t]] ELSE first[d][n]
               /\ Onward(t, "unlink", "log") /\ UNCHANGED at
            \/ /\ first[dir[t]][End(t)] # cur[t] /\ first[dir[t]][End(t)] \in Links
               /\ at' = [at EXCEPT ![t] = first[dir[t]][End(t)]]
               /\ pc' = [pc EXCEPT ![t] = "search"]
               /\ UNCHANGED <<first, dir>>
         /\ UNCHANGED <<edges, stored, cur, edge, pred, walk, linked, stable>>
  <1>1. pc[t] = "unlink" /\ cur[t] \in Ids /\ edges[cur[t]] \in Edge /\ dir[t] \in Dirs /\ edge[t] \in Edge
    BY DEF UnlinkHead, Base, Types, Basic, Unlinks
  <1>2. End(t) \in Nodes /\ edge[t].next[dir[t]] \in Links
    BY <1>1, EdgeIs DEF End
  <1>3. first \in [Dirs -> [Nodes -> Links]]
    BY DEF Base, Types
  <1>4. CASE /\ first[dir[t]][End(t)] = cur[t]
             /\ first' = [first EXCEPT ![dir[t]][End(t)] = edge[t].next[dir[t]]]
             /\ Onward(t, "unlink", "log") /\ UNCHANGED at
    <2>1. first' \in [Dirs -> [Nodes -> Links]]
      BY <1>1, <1>2, <1>3, <1>4
    <2>2. \A d \in Dirs, n \in Nodes :
             first'[d][n] = IF d = dir[t] /\ n = End(t) THEN edge[t].next[dir[t]] ELSE first[d][n]
      BY <1>1, <1>2, <1>3, <1>4
    <2> QED
      BY <1>1, <1>2, <1>4, <2>1, <2>2 DEF UnlinkHead
  <1>5. CASE /\ first[dir[t]][End(t)] # cur[t]
             /\ at' = [at EXCEPT ![t] = first[dir[t]][End(t)]]
             /\ pc' = [pc EXCEPT ![t] = "search"]
             /\ UNCHANGED <<first, dir>>
    <2>1. first[dir[t]][End(t)] \in Links
      BY <1>1, <1>2, <1>3
    <2> QED
      BY <1>1, <1>2, <1>3, <1>5, <2>1 DEF UnlinkHead
  <1> QED
    BY <1>4, <1>5 DEF UnlinkHead

\* Search stops at the end, takes the edge out or goes on.
LEMMA SearchIs ==
  ASSUME Base, NEW t \in Threads, Search(t)
  PROVE  /\ pc[t] = "search" /\ cur[t] \in Ids /\ edges[cur[t]] \in Edge /\ dir[t] \in Dirs /\ End(t) \in Nodes
         /\ edge[t] \in Edge /\ edge[t].next[dir[t]] \in Links /\ at[t] \in Links
         /\ \/ /\ at[t] \notin Ids \/ edges[at[t]] = Absent
               /\ Onward(t, "unlink", "log")
               /\ UNCHANGED <<edges, at, pred>>
            \/ /\ at[t] \in Ids /\ edges[at[t]] \in Edge /\ edges[at[t]].next[dir[t]] = cur[t]
               /\ edges' = [edges EXCEPT ![at[t]].next[dir[t]] = edge[t].next[dir[t]]]
               /\ pred' = [pred EXCEPT ![t][dir[t]] = at[t]]
               /\ Onward(t, "unlink", "log")
               /\ UNCHANGED at
            \/ /\ at[t] \in Ids /\ edges[at[t]] \in Edge /\ edges[at[t]].next[dir[t]] # cur[t]
               /\ edges[at[t]].next[dir[t]] \in Links
               /\ at' = [at EXCEPT ![t] = edges[at[t]].next[dir[t]]]
               /\ UNCHANGED <<edges, pc, dir, pred>>
         /\ UNCHANGED <<first, stored, cur, edge, walk, linked, stable>>
  <1>1. pc[t] = "search" /\ cur[t] \in Ids /\ edges[cur[t]] \in Edge /\ dir[t] \in Dirs /\ edge[t] \in Edge /\ at[t] \in Links
    BY DEF Search, Base, Types, Basic, Unlinks
  <1>2. End(t) \in Nodes /\ edge[t].next[dir[t]] \in Links
    BY <1>1, EdgeIs DEF End
  <1>3. Lost(t) <=> at[t] \notin Ids \/ edges[at[t]] = Absent
    BY DEF Lost, InMap
  <1>4. ~Lost(t) => at[t] \in Ids /\ edges[at[t]] \in Edge /\ edges[at[t]].next[dir[t]] \in Links
    <2>1. ~Lost(t) => at[t] \in Ids /\ edges[at[t]] \in Edge
      BY <1>3 DEF Base, Types
    <2> QED
      BY <1>1, <2>1, EdgeIs
  <1> QED
    BY <1>1, <1>2, <1>3, <1>4 DEF Search, Found

\* LinkLog stores the edge and returns.
LEMMA LinkLogIs ==
  ASSUME Base, NEW t \in Threads, LinkLog(t)
  PROVE  /\ pc[t] = "link_log" /\ cur[t] \in Ids /\ edges[cur[t]] \in Edge /\ Return(t)
         /\ stored' \in [Ids -> Edge \cup {Absent}]
         /\ \A j \in Ids : stored'[j] = IF j = cur[t] THEN edges[j] ELSE stored[j]
         /\ linked' = linked \cup {cur[t]} /\ UNCHANGED <<edges, first, walk, stable>>
  <1>1. pc[t] = "link_log" /\ cur[t] \in Ids /\ edges[cur[t]] \in Edge
    BY DEF LinkLog, Base, Types, Basic
  <1>2. stored' = [stored EXCEPT ![cur[t]] = edges[cur[t]]] /\ stored \in [Ids -> Edge \cup {Absent}]
    BY DEF LinkLog, Persist, Base, Types
  <1> QED
    BY <1>1, <1>2 DEF LinkLog

\* UnlinkLog stores a predecessor, then the other one and returns.
LEMMA UnlinkLogIs ==
  ASSUME Base, NEW t \in Threads, UnlinkLog(t)
  PROVE  /\ pc[t] = "log" /\ cur[t] \in Ids /\ edges[cur[t]] \in Edge
         /\ stored' \in [Ids -> Edge \cup {Absent}]
         /\ \A j \in Ids : stored'[j] = IF j = pred[t][dir[t]] /\ edges[j] # Absent THEN edges[j] ELSE stored[j]
         /\ \/ /\ dir[t] = "out" /\ dir' = [dir EXCEPT ![t] = "in"]
               /\ UNCHANGED <<pc, cur, edge, at, pred, linked>>
            \/ dir[t] = "in" /\ linked' = linked \ {cur[t]} /\ Return(t)
         /\ UNCHANGED <<edges, first, walk, stable>>
  <1>1. pc[t] = "log" /\ cur[t] \in Ids /\ edges[cur[t]] \in Edge
    BY DEF UnlinkLog, Base, Types, Basic
  <1>2. stored \in [Ids -> Edge \cup {Absent}] /\ edges \in [Ids -> Edge \cup {Absent}]
    BY DEF Base, Types
  <1>3. CASE pred[t][dir[t]] \in InMap
    <2>1. stored' = [stored EXCEPT ![pred[t][dir[t]]] = edges[pred[t][dir[t]]]]
      BY <1>3 DEF UnlinkLog, PersistPred, Persist
    <2>2. pred[t][dir[t]] \in Ids /\ edges[pred[t][dir[t]]] # Absent
      BY <1>3 DEF InMap
    <2>3. /\ stored' \in [Ids -> Edge \cup {Absent}]
          /\ \A j \in Ids : stored'[j] = IF j = pred[t][dir[t]] /\ edges[j] # Absent THEN edges[j] ELSE stored[j]
      BY <1>2, <2>1, <2>2
    <2> QED
      BY <1>1, <2>3 DEF UnlinkLog
  <1>4. CASE pred[t][dir[t]] \notin InMap
    <2>1. stored' = stored
      BY <1>4 DEF UnlinkLog, PersistPred
    <2>2. \A j \in Ids : ~(j = pred[t][dir[t]] /\ edges[j] # Absent)
      BY <1>4 DEF InMap
    <2> QED
      BY <1>1, <1>2, <2>1, <2>2 DEF UnlinkLog
  <1> QED
    BY <1>3, <1>4

\* A call that returns forgets what it worked on.
LEMMA ReturnIs ==
  ASSUME Types, NEW t \in Threads, Return(t)
  PROVE  /\ pc' \in [Threads -> {"idle", "link", "link_log", "unlink", "search", "log"}]
         /\ dir' \in [Threads -> Dirs] /\ cur' \in [Threads -> Links] /\ at' \in [Threads -> Links]
         /\ edge' \in [Threads -> Edge \cup {Absent}] /\ pred' \in [Threads -> [Dirs -> Links]]
         /\ pc'[t] = "idle" /\ cur'[t] = NULL_EDGE /\ \A d \in Dirs : pred'[t][d] = NULL_EDGE
         /\ \A u \in Threads \ {t} : /\ pc'[u] = pc[u] /\ dir'[u] = dir[u] /\ cur'[u] = cur[u]
                                     /\ edge'[u] = edge[u] /\ at'[u] = at[u] /\ pred'[u] = pred[u]
  <1>1. NoPred \in [Dirs -> Links] /\ \A d \in Dirs : NoPred[d] = NULL_EDGE
    BY DEF NoPred, Links
  <1> QED
    BY <1>1 DEF Return, Types, Links, Dirs

\* A call that begins has its edge in the map, apart from the other calls.
LEMMA BeginIs ==
  ASSUME Types, NEW t \in Threads, NEW id \in Ids, NEW where \in {"link", "unlink"}, Begin(t, id, where)
  PROVE  /\ pc[t] = "idle" /\ edges[id] \in Edge
         /\ pc' = [pc EXCEPT ![t] = where] /\ cur' = [cur EXCEPT ![t] = id] /\ dir' = [dir EXCEPT ![t] = "out"]
         /\ \A u \in Threads : pc[u] # "idle" => \A d \in Dirs : edges[id].end[d] # edges[cur[u]].end[d]
  BY BorrowableIs DEF Begin, Types, InMap

-----------------------------------------------------------------------------

\* The calls stay apart as long as the edges keep their ends.
LEMMA ApartStays ==
  ASSUME Apart, \A t \in Threads : pc'[t] # "idle" =>
                   pc[t] # "idle" /\ cur'[t] = cur[t] /\ edges'[cur[t]].end = edges[cur[t]].end
  PROVE  Apart'
  BY DEF Apart

\* The calls at the start.
LEMMA InitBase == Init => Base
  <1> SUFFICES ASSUME Init PROVE Base
    OBVIOUS
  <1>1. Types
    BY DEF Init, Types, Links, Dirs, NoPred
  <1>2. Apart /\ Basic
    BY DEF Init, Apart, Basic, Unlinks
  <1> QED
    BY <1>1, <1>2 DEF Base

\* Insertions and deletions leave the calls alone.
LEMMA BaseMap ==
  ASSUME Base, NEW id \in Ids, (\E ends \in Ends : insert_edge(id, ends[1], ends[2])) \/ hard_delete(id)
  PROVE  Base'
  <1>1. /\ edges' \in [Ids -> Edge \cup {Absent}] /\ stored' \in [Ids -> Edge \cup {Absent}]
        /\ \A j \in Ids \ {id} : edges'[j] = edges[j]
        /\ UNCHANGED <<first, call, walk, linked, stable>>
        /\ id \notin linked /\ \A t \in Threads : pc[t] # "idle" => cur[t] # id
    <2>1. ASSUME NEW ends \in Ends, insert_edge(id, ends[1], ends[2])
          PROVE  <1>1!:
      BY <2>1, InsertIs DEF Base, Types, Basic
    <2>2. ASSUME hard_delete(id) PROVE <1>1!:
      BY <2>2, DeleteIs DEF Base
    <2> QED
      BY <2>1, <2>2
  <1>2. Types'
    BY <1>1 DEF Base, Types, call
  <1>3. \A t \in Threads : pc'[t] # "idle" => pc[t] # "idle" /\ cur'[t] = cur[t] /\ edges'[cur[t]] = edges[cur[t]]
    BY <1>1 DEF Base, Basic, call
  <1>4. Apart'
    BY <1>3, ApartStays DEF Base
  <1>5. Basic'
    BY <1>1, <1>3 DEF Base, Basic, Unlinks, call
  <1> QED
    BY <1>2, <1>4, <1>5 DEF Base

\* A call begins.
LEMMA BaseBegin ==
  ASSUME Base, NEW t \in Threads, NEW id \in Ids, link_into_chains(t, id) \/ unlink_from_chains(t, id)
  PROVE  Base'
  <1> DEFINE where == IF link_into_chains(t, id) THEN "link" ELSE "unlink"
  <1>1. /\ where \in {"link", "unlink"} /\ Begin(t, id, where)
        /\ where = "link" => id \notin linked /\ edge' = edge
        /\ where = "unlink" => edge' = [edge EXCEPT ![t] = edges[id]]
        /\ UNCHANGED <<edges, first, stored, at, pred, walk, linked>>
    BY DEF link_into_chains, unlink_from_chains
  <1> HIDE DEF where
  <1>2. /\ pc[t] = "idle" /\ edges[id] \in Edge
        /\ pc' = [pc EXCEPT ![t] = where] /\ cur' = [cur EXCEPT ![t] = id] /\ dir' = [dir EXCEPT ![t] = "out"]
        /\ \A u \in Threads : pc[u] # "idle" => \A d \in Dirs : edges[id].end[d] # edges[cur[u]].end[d]
    <2>1. Types
      BY DEF Base
    <2> QED
      BY <1>1, <2>1, BeginIs
  <1>3. edge' \in [Threads -> Edge \cup {Absent}] /\ (where = "unlink" => edge'[t] \in Edge)
        /\ \A u \in Threads \ {t} : edge'[u] = edge[u]
    BY <1>1, <1>2 DEF Base, Types
  <1>4. pc' \in [Threads -> {"idle", "link", "link_log", "unlink", "search", "log"}] /\ pc'[t] = where
        /\ \A u \in Threads \ {t} : pc'[u] = pc[u]
    BY <1>1, <1>2 DEF Base, Types
  <1>5. cur' \in [Threads -> Links] /\ cur'[t] = id /\ \A u \in Threads \ {t} : cur'[u] = cur[u]
    BY <1>1, <1>2 DEF Base, Types, Links
  <1>6. dir' \in [Threads -> Dirs] /\ dir'[t] = "out" /\ \A u \in Threads \ {t} : dir'[u] = dir[u]
    BY <1>2 DEF Base, Types, Dirs
  <1>7. Types'
    BY <1>1, <1>3, <1>4, <1>5, <1>6 DEF Base, Types
  <1>8. Apart'
    <2>1. SUFFICES ASSUME NEW v \in Threads, NEW u \in Threads, pc'[v] # "idle", pc'[u] # "idle", v # u, NEW d \in Dirs
                   PROVE  edges[cur'[v]].end[d] # edges[cur'[u]].end[d]
      BY <1>1 DEF Apart
    <2>2. CASE v # t /\ u # t
      BY <1>4, <1>5, <2>1, <2>2 DEF Base, Apart
    <2>3. CASE v = t \/ u = t
      BY <1>2, <1>4, <1>5, <2>1, <2>3
    <2> QED
      BY <2>2, <2>3
  <1>9. Basic'
    <2>1. SUFFICES ASSUME NEW u \in Threads
          PROVE /\ pc'[u] = "idle" => cur'[u] = NULL_EDGE
                /\ pc'[u] # "idle" => cur'[u] \in Ids /\ edges[cur'[u]] # Absent
                /\ pc'[u] \in {"link", "link_log"} => cur'[u] \notin linked
                /\ pc'[u] = "link_log" => dir'[u] = "out"
                /\ pc'[u] \in {"unlink", "search", "log"} => edge'[u] \in Edge
      BY <1>1 DEF Basic, Unlinks
    <2>2. CASE u = t
      BY <1>1, <1>2, <1>3, <1>4, <1>5, <2>2, AbsentAssumption
    <2>3. CASE u # t
      BY <1>3, <1>4, <1>5, <1>6, <2>3 DEF Base, Basic, Unlinks
    <2> QED
      BY <2>2, <2>3
  <1> QED
    BY <1>7, <1>8, <1>9 DEF Base

\* One call goes on with what it works on; links may change.
LEMMA BaseOn ==
  ASSUME Base, NEW t \in Threads, pc[t] # "idle", pc'[t] # "idle",
         pc' \in [Threads -> Places], dir' \in [Threads -> Dirs],
         \A u \in Threads \ {t} : pc'[u] = pc[u] /\ dir'[u] = dir[u],
         pc'[t] = "link_log" => dir'[t] = "out",
         pc'[t] \in {"link", "link_log"} => cur[t] \notin linked,
         pc'[t] \in {"unlink", "search", "log"} => Unlinks(t),
         edges' \in [Ids -> Edge \cup {Absent}], stored' \in [Ids -> Edge \cup {Absent}],
         \A j \in Ids : (edges'[j] = Absent <=> edges[j] = Absent) /\ edges'[j].end = edges[j].end,
         first' \in [Dirs -> [Nodes -> Links]], at' \in [Threads -> Links],
         pred' \in [Threads -> [Dirs -> Links]], UNCHANGED <<cur, edge, linked>>
  PROVE  Base'
  <1>3. Types'
    BY DEF Base, Types, Places
  <1>4. Apart'
    <2>1. \A u \in Threads : pc'[u] # "idle" =>
                   pc[u] # "idle" /\ cur'[u] = cur[u] /\ edges'[cur[u]].end = edges[cur[u]].end
      BY DEF Base, Basic
    <2> QED
      BY <2>1, ApartStays DEF Base
  <1>5. Basic'
    BY DEF Base, Basic, Unlinks
  <1> QED
    BY <1>3, <1>4, <1>5 DEF Base

\* A link is changed.
LEMMA BaseLinkOne == ASSUME Base, NEW t \in Threads, LinkOne(t) PROVE Base'
  <1>1. /\ pc[t] = "link" /\ cur[t] \in Ids /\ edges[cur[t]] \in Edge /\ dir[t] \in Dirs
        /\ first[dir[t]][End(t)] \in Links
        /\ edges' = [edges EXCEPT ![cur[t]].next[dir[t]] = first[dir[t]][End(t)]]
        /\ first' \in [Dirs -> [Nodes -> Links]] /\ Onward(t, "link", "link_log")
        /\ UNCHANGED <<stored, cur, edge, at, pred, walk, linked, stable>>
    BY LinkOneIs
  <1>2. edges \in [Ids -> Edge \cup {Absent}] /\ Types /\ cur[t] \notin linked
    BY <1>1 DEF Base, Types, Basic
  <1>3. /\ edges' \in [Ids -> Edge \cup {Absent}]
        /\ \A j \in Ids : (edges'[j] = Absent <=> edges[j] = Absent) /\ edges'[j].end = edges[j].end
    <2>1. Relinked(cur[t], dir[t], first[dir[t]][End(t)])
      BY <1>1, <1>2, RelinkIs
    <2> QED
      BY <2>1 DEF Relinked
  <1>4. stored' \in [Ids -> Edge \cup {Absent}] /\ at' \in [Threads -> Links] /\ pred' \in [Threads -> [Dirs -> Links]]
    BY <1>1, <1>2 DEF Types
  <1>5. /\ pc' \in [Threads -> Places] /\ dir' \in [Threads -> Dirs]
        /\ \A u \in Threads \ {t} : pc'[u] = pc[u] /\ dir'[u] = dir[u]
        /\ pc'[t] = "link" \/ (pc'[t] = "link_log" /\ dir'[t] = "out")
    <2>1. "link" \in Places /\ "link_log" \in Places
      BY DEF Places
    <2> QED
      BY <1>1, <1>2, <2>1, OnwardIs
  <1> QED
    BY <1>1, <1>2, <1>3, <1>4, <1>5, BaseOn

\* unlink_from_chains goes on.
LEMMA OnwardUnlink ==
  ASSUME Types, NEW t \in Threads, Onward(t, "unlink", "log")
  PROVE  /\ pc' \in [Threads -> Places] /\ dir' \in [Threads -> Dirs]
         /\ \A u \in Threads \ {t} : pc'[u] = pc[u] /\ dir'[u] = dir[u]
         /\ dir[t] = "out" => pc'[t] = "unlink" /\ dir'[t] = "in"
         /\ dir[t] # "out" => dir[t] = "in" /\ pc'[t] = "log" /\ dir'[t] = "out"
  <1>1. "unlink" \in Places /\ "log" \in Places
    BY DEF Places
  <1> QED
    BY <1>1, OnwardIs

\* A head is moved, or the search starts.
LEMMA BaseUnlinkHead == ASSUME Base, NEW t \in Threads, UnlinkHead(t) PROVE Base'
  <1>1. /\ pc[t] = "unlink" /\ dir[t] \in Dirs /\ first' \in [Dirs -> [Nodes -> Links]]
        /\ \/ Onward(t, "unlink", "log") /\ UNCHANGED at
           \/ /\ first[dir[t]][End(t)] \in Links
              /\ at' = [at EXCEPT ![t] = first[dir[t]][End(t)]]
              /\ pc' = [pc EXCEPT ![t] = "search"]
              /\ UNCHANGED <<first, dir>>
        /\ UNCHANGED <<edges, stored, cur, edge, pred, walk, linked, stable>>
    BY UnlinkHeadIs
  <1>2. Types /\ Unlinks(t)
    BY <1>1 DEF Base, Unlinks
  <1>3. /\ edges' \in [Ids -> Edge \cup {Absent}] /\ stored' \in [Ids -> Edge \cup {Absent}]
        /\ \A j \in Ids : (edges'[j] = Absent <=> edges[j] = Absent) /\ edges'[j].end = edges[j].end
        /\ pred' \in [Threads -> [Dirs -> Links]]
    BY <1>1, <1>2 DEF Types
  <1>4. /\ pc' \in [Threads -> Places] /\ dir' \in [Threads -> Dirs] /\ at' \in [Threads -> Links]
        /\ \A u \in Threads \ {t} : pc'[u] = pc[u] /\ dir'[u] = dir[u]
        /\ pc'[t] \in {"unlink", "search", "log"}
    <2>1. CASE Onward(t, "unlink", "log") /\ UNCHANGED at
      <3>1. at' \in [Threads -> Links]
        BY <1>2, <2>1 DEF Types
      <3> QED
        BY <1>2, <2>1, <3>1, OnwardUnlink
    <2>2. CASE /\ first[dir[t]][End(t)] \in Links
               /\ at' = [at EXCEPT ![t] = first[dir[t]][End(t)]]
               /\ pc' = [pc EXCEPT ![t] = "search"]
               /\ UNCHANGED <<first, dir>>
      BY <1>2, <2>2 DEF Types, Places
    <2> QED
      BY <1>1, <2>1, <2>2
  <1>5. pc[t] # "idle" /\ pc'[t] # "idle" /\ pc'[t] # "link" /\ pc'[t] # "link_log"
    BY <1>1, <1>4
  <1> QED
    BY <1>1, <1>2, <1>3, <1>4, <1>5, BaseOn

\* The search makes a turn.
LEMMA BaseSearch == ASSUME Base, NEW t \in Threads, Search(t) PROVE Base'
  <1>1. /\ pc[t] = "search" /\ dir[t] \in Dirs /\ edge[t].next[dir[t]] \in Links /\ at[t] \in Links
        /\ UNCHANGED <<first, stored, cur, edge, walk, linked, stable>>
    BY SearchIs
  <1>2. Types /\ Unlinks(t) /\ first' \in [Dirs -> [Nodes -> Links]] /\ stored' \in [Ids -> Edge \cup {Absent}]
    BY <1>1 DEF Base, Unlinks, Types
  <1>3. /\ pc' \in [Threads -> Places] /\ dir' \in [Threads -> Dirs] /\ at' \in [Threads -> Links]
        /\ \A u \in Threads \ {t} : pc'[u] = pc[u] /\ dir'[u] = dir[u]
        /\ pc'[t] \in {"unlink", "search", "log"} /\ pred' \in [Threads -> [Dirs -> Links]]
        /\ edges' \in [Ids -> Edge \cup {Absent}]
        /\ \A j \in Ids : (edges'[j] = Absent <=> edges[j] = Absent) /\ edges'[j].end = edges[j].end
    <2>1. CASE Onward(t, "unlink", "log") /\ UNCHANGED <<edges, at, pred>>
      <3>1. at' \in [Threads -> Links] /\ pred' \in [Threads -> [Dirs -> Links]] /\ edges' \in [Ids -> Edge \cup {Absent}]
        BY <1>2, <2>1 DEF Types
      <3> QED
        BY <1>2, <2>1, <3>1, OnwardUnlink
    <2>2. CASE /\ at[t] \in Ids /\ edges[at[t]] \in Edge
               /\ edges' = [edges EXCEPT ![at[t]].next[dir[t]] = edge[t].next[dir[t]]]
               /\ pred' = [pred EXCEPT ![t][dir[t]] = at[t]]
               /\ Onward(t, "unlink", "log") /\ UNCHANGED at
      <3>1. edges \in [Ids -> Edge \cup {Absent}]
        BY <1>2 DEF Types
      <3>2. /\ edges' \in [Ids -> Edge \cup {Absent}]
            /\ \A j \in Ids : (edges'[j] = Absent <=> edges[j] = Absent) /\ edges'[j].end = edges[j].end
        <4>1. Relinked(at[t], dir[t], edge[t].next[dir[t]])
          BY <1>1, <2>2, <3>1, RelinkIs
        <4> QED
          BY <4>1 DEF Relinked
      <3>3. pred' \in [Threads -> [Dirs -> Links]] /\ at' \in [Threads -> Links]
        BY <1>1, <1>2, <2>2 DEF Types
      <3> QED
        BY <1>2, <2>2, <3>2, <3>3, OnwardUnlink
    <2>3. CASE /\ edges[at[t]].next[dir[t]] \in Links
               /\ at' = [at EXCEPT ![t] = edges[at[t]].next[dir[t]]]
               /\ UNCHANGED <<edges, pc, dir, pred>>
      BY <1>1, <1>2, <2>3 DEF Types, Places
    <2> QED
      BY <2>1, <2>2, <2>3, SearchIs
  <1>4. pc[t] # "idle" /\ pc'[t] # "idle" /\ pc'[t] # "link" /\ pc'[t] # "link_log"
    BY <1>1, <1>3
  <1> QED
    BY <1>1, <1>2, <1>3, <1>4, BaseOn

\* A call returns.
LEMMA BaseReturn ==
  ASSUME Base, NEW t \in Threads, Return(t), stored' \in [Ids -> Edge \cup {Absent}], UNCHANGED <<edges, first>>,
         NEW L, linked' = L, L \subseteq linked \cup {cur[t]}, pc[t] # "idle"
  PROVE  Base'
  <1>1. /\ pc' \in [Threads -> {"idle", "link", "link_log", "unlink", "search", "log"}]
        /\ dir' \in [Threads -> Dirs] /\ cur' \in [Threads -> Links] /\ at' \in [Threads -> Links]
        /\ edge' \in [Threads -> Edge \cup {Absent}] /\ pred' \in [Threads -> [Dirs -> Links]]
        /\ pc'[t] = "idle" /\ cur'[t] = NULL_EDGE
        /\ \A u \in Threads \ {t} : pc'[u] = pc[u] /\ dir'[u] = dir[u] /\ cur'[u] = cur[u] /\ edge'[u] = edge[u]
    BY ReturnIs DEF Base
  <1>2. cur[t] \in Ids /\ edges[cur[t]] # Absent
    BY DEF Base, Basic
  <1>3. Types'
    BY <1>1, <1>2 DEF Base, Types
  <1>4. Apart'
    <2>1. \A u \in Threads : pc'[u] # "idle" =>
                   pc[u] # "idle" /\ cur'[u] = cur[u] /\ edges'[cur[u]].end = edges[cur[u]].end
      BY <1>1
    <2> QED
      BY <2>1, ApartStays DEF Base
  <1>5. \A u \in Threads \ {t} : pc[u] # "idle" => cur[u] # cur[t]
    <2>1. "out" \in Dirs
      BY DEF Dirs
    <2> QED
      BY <2>1 DEF Base, Apart
  <1>6. Basic'
    BY <1>1, <1>5 DEF Base, Basic, Unlinks
  <1> QED
    BY <1>3, <1>4, <1>6 DEF Base

\* The records.
LEMMA BaseLogs == ASSUME Base, NEW t \in Threads, LinkLog(t) \/ UnlinkLog(t) PROVE Base'
  <1>1. CASE LinkLog(t)
    <2>1. /\ pc[t] # "idle" /\ Return(t) /\ stored' \in [Ids -> Edge \cup {Absent}]
          /\ linked' = linked \cup {cur[t]} /\ UNCHANGED <<edges, first>>
      BY <1>1, LinkLogIs
    <2> QED
      BY <2>1, BaseReturn
  <1>2. CASE UnlinkLog(t)
    <2>1. /\ pc[t] = "log" /\ stored' \in [Ids -> Edge \cup {Absent}] /\ UNCHANGED <<edges, first>>
          /\ \/ /\ dir[t] = "out" /\ dir' = [dir EXCEPT ![t] = "in"]
                /\ UNCHANGED <<pc, cur, edge, at, pred, linked>>
             \/ dir[t] = "in" /\ linked' = linked \ {cur[t]} /\ Return(t)
      BY <1>2, UnlinkLogIs
    <2>2. CASE /\ dir' = [dir EXCEPT ![t] = "in"]
               /\ UNCHANGED <<pc, cur, edge, at, pred, linked>>
      <3>1. /\ pc' \in [Threads -> Places] /\ dir' \in [Threads -> Dirs] /\ pc'[t] = "log" /\ Unlinks(t)
            /\ \A u \in Threads \ {t} : pc'[u] = pc[u] /\ dir'[u] = dir[u]
        BY <2>1, <2>2 DEF Base, Types, Unlinks, Places, Dirs
      <3>2. edges' \in [Ids -> Edge \cup {Absent}] /\ first' \in [Dirs -> [Nodes -> Links]]
            /\ at' \in [Threads -> Links] /\ pred' \in [Threads -> [Dirs -> Links]]
        BY <2>1, <2>2 DEF Base, Types
      <3>3. \A j \in Ids : (edges'[j] = Absent <=> edges[j] = Absent) /\ edges'[j].end = edges[j].end
        BY <2>1
      <3> QED
        BY <2>1, <2>2, <3>1, <3>2, <3>3, BaseOn
    <2>3. CASE linked' = linked \ {cur[t]} /\ Return(t)
      BY <2>1, <2>3, BaseReturn
    <2> QED
      BY <2>1, <2>2, <2>3
  <1> QED
    BY <1>1, <1>2

\* Walks only read.
LEMMA BaseSame ==
  ASSUME Base, UNCHANGED <<edges, first, stored, call, linked>> PROVE Base'
  BY DEF Base, Types, Apart, Basic, Unlinks, call

\* Walks change only themselves.
LEMMA WalksRead ==
  ASSUME NEW w \in Walkers, (\E d \in Dirs, n \in Nodes : StartWalk(w, d, n)) \/ WalkOn(w) \/ WalkEnd(w)
  PROVE  UNCHANGED <<edges, first, stored, call, linked>>
  BY DEF StartWalk, WalkOn, WalkEnd

\* Every step keeps the calls in order.
LEMMA BaseStep == Base /\ [Next]_vars => Base'
  <1> SUFFICES ASSUME Base, [Next]_vars PROVE Base'
    OBVIOUS
  <1>1. ASSUME NEW id \in Ids, (\E ends \in Ends : insert_edge(id, ends[1], ends[2])) \/ hard_delete(id) PROVE Base'
    BY <1>1, BaseMap
  <1>2. ASSUME NEW t \in Threads, NEW id \in Ids, link_into_chains(t, id) \/ unlink_from_chains(t, id) PROVE Base'
    BY <1>2, BaseBegin
  <1>3. ASSUME NEW t \in Threads, LinkOne(t) \/ LinkLog(t) \/ UnlinkHead(t) \/ Search(t) \/ UnlinkLog(t) PROVE Base'
    BY <1>3, BaseLinkOne, BaseLogs, BaseUnlinkHead, BaseSearch
  <1>4. ASSUME NEW w \in Walkers, (\E d \in Dirs, n \in Nodes : StartWalk(w, d, n)) \/ WalkOn(w) \/ WalkEnd(w) PROVE Base'
    BY <1>4, WalksRead, BaseSame
  <1>5. CASE UNCHANGED vars
    BY <1>5, BaseSame DEF vars
  <1> QED
    BY <1>1, <1>2, <1>3, <1>4, <1>5 DEF Next

-----------------------------------------------------------------------------
(* Which edges are on a chain                                              *)

\* The links of one kind, as a function.
Follow(d) == [id \in Ids |-> IF edges[id] = Absent THEN NULL_EDGE ELSE edges[id].next[d]]

\* The edges of a node.
Group(d, n) == {id \in Ids : edges[id] # Absent /\ edges[id].end[d] = n}

\* The call has put its edge on the chain d, or has taken it off.
Joined(t, d) == pc[t] = "link_log" \/ (pc[t] = "link" /\ dir[t] = "in" /\ d = "out")
Left(t, d) == pc[t] = "log" \/ (pc[t] \in {"unlink", "search"} /\ dir[t] = "in" /\ d = "out")

Chained(d, x) ==
    \/ x \in linked /\ \A t \in Threads : cur[t] = x => ~Left(t, d)
    \/ \E t \in Threads : cur[t] = x /\ Joined(t, d)

On(d, n) == {id \in Group(d, n) : Chained(d, id)}

\* Two calls have different edges.
LEMMA CursDiffer ==
  ASSUME Base, NEW t \in Threads, NEW u \in Threads, pc[t] # "idle", u # t
  PROVE  cur[t] # cur[u]
  <1>1. CASE pc[u] = "idle"
    BY <1>1, IdsAssumption DEF Base, Basic
  <1>2. CASE pc[u] # "idle"
    <2>1. "out" \in Dirs
      BY DEF Dirs
    <2> QED
      BY <1>2, <2>1 DEF Base, Apart
  <1> QED
    BY <1>1, <1>2

\* Whether the edge of a call is on a chain is up to that call.
LEMMA ChainedMine ==
  ASSUME Base, NEW t \in Threads, pc[t] # "idle", NEW d \in Dirs
  PROVE  Chained(d, cur[t]) <=> (cur[t] \in linked /\ ~Left(t, d)) \/ Joined(t, d)
  <1>1. \A u \in Threads : cur[u] = cur[t] => u = t
    BY CursDiffer
  <1> QED
    BY <1>1, Zenon DEF Chained

\* The same for all calls, and after a step.
Mine ==
    \A t \in Threads, d \in Dirs : pc[t] # "idle" =>
        (Chained(d, cur[t]) <=> (cur[t] \in linked /\ ~Left(t, d)) \/ Joined(t, d))

\* Whether an edge is on a chain is up to its call, in every state.
LEMMA MineHolds == Base => Mine
  BY ChainedMine DEF Mine

\* And in the next one.
LEMMA MineNext == Base' => Mine'
  BY MineHolds, PTL

\* For one call.
LEMMA ChainedMineNext ==
  ASSUME Base', NEW t \in Threads, pc'[t] # "idle", NEW d \in Dirs
  PROVE  Chained(d, cur[t])' <=> ((cur[t] \in linked /\ ~Left(t, d)) \/ Joined(t, d))'
  BY MineNext DEF Mine

\* An edge in no call is on its chains if it is linked.
LEMMA ChainedNone ==
  ASSUME NEW x, \A t \in Threads : cur[t] # x, NEW d \in Dirs
  PROVE  Chained(d, x) <=> x \in linked
  BY DEF Chained

\* A call changes nothing for the other edges.
LEMMA ChainedOther ==
  ASSUME NEW t \in Threads, NEW x, NEW d \in Dirs,
         \A u \in Threads \ {t} : pc'[u] = pc[u] /\ dir'[u] = dir[u] /\ cur'[u] = cur[u],
         cur[t] # x, cur'[t] # x, x \in linked' <=> x \in linked
  PROVE  Chained(d, x)' <=> Chained(d, x)
  <1>1. \A u \in Threads : (cur'[u] = x <=> cur[u] = x) /\ (cur[u] = x => pc'[u] = pc[u] /\ dir'[u] = dir[u])
    OBVIOUS
  <1>2. \A u \in Threads : cur[u] = x => (Left(u, d)' <=> Left(u, d)) /\ (Joined(u, d)' <=> Joined(u, d))
    BY <1>1 DEF Left, Joined
  <1> QED
    BY <1>1, <1>2 DEF Chained

\* Steps that change no call change no chain.
LEMMA ChainedSame ==
  ASSUME UNCHANGED <<pc, dir, cur, linked>>, NEW x, NEW d
  PROVE  Chained(d, x)' <=> Chained(d, x)
  BY DEF Chained, Left, Joined

\* Neither the start of a call nor its end changes a chain.
LEMMA ChainedStill ==
  ASSUME Base, Base', NEW t \in Threads,
         \/ \E id \in Ids : link_into_chains(t, id) \/ unlink_from_chains(t, id)
         \/ LinkLog(t) \/ UnlinkLog(t),
         NEW d \in Dirs, NEW x \in Ids
  PROVE  Chained(d, x)' <=> Chained(d, x)
  <1>1. ASSUME NEW id \in Ids, link_into_chains(t, id) \/ unlink_from_chains(t, id)
        PROVE  Chained(d, x)' <=> Chained(d, x)
    <2>1. /\ linked' = linked
          /\ \/ id \notin linked /\ Begin(t, id, "link")
             \/ Begin(t, id, "unlink")
      BY <1>1 DEF link_into_chains, unlink_from_chains
    <2>2. /\ pc[t] = "idle" /\ edges[id] \in Edge /\ cur'[t] = id /\ dir'[t] = "out"
          /\ \A u \in Threads \ {t} : pc'[u] = pc[u] /\ dir'[u] = dir[u] /\ cur'[u] = cur[u]
          /\ \A u \in Threads : pc[u] # "idle" => \A e \in Dirs : edges[id].end[e] # edges[cur[u]].end[e]
          /\ (id \notin linked /\ pc'[t] = "link") \/ pc'[t] = "unlink"
      BY <2>1, BeginIs DEF Base, Types
    <2>3. cur[t] # x
      BY <2>2, IdsAssumption DEF Base, Basic
    <2>4. CASE x # id
      BY <2>1, <2>2, <2>3, <2>4, ChainedOther
    <2>5. CASE x = id
      <3>1. \A u \in Threads : cur[u] # id
        BY <2>2, IdsAssumption DEF Base, Basic
      <3>2. Chained(d, id) <=> id \in linked
        BY <3>1, ChainedNone
      <3>3. Chained(d, id)' <=> (id \in linked' /\ ~Left(t, d)') \/ Joined(t, d)'
        <4>1. pc'[t] # "idle"
          BY <2>2
        <4>2. Chained(d, cur[t])' <=> ((cur[t] \in linked /\ ~Left(t, d)) \/ Joined(t, d))'
          BY <4>1, ChainedMineNext
        <4> QED
          BY <2>2, <4>2 DEF Chained
      <3> QED
        BY <2>1, <2>2, <2>5, <3>2, <3>3 DEF Left, Joined
    <2> QED
      BY <2>4, <2>5
  <1>2. ASSUME pc[t] # "idle", Return(t), linked' \subseteq linked \cup {cur[t]}, linked \subseteq linked' \cup {cur[t]},
               Chained(d, cur[t]) <=> cur[t] \in linked'
        PROVE  Chained(d, x)' <=> Chained(d, x)
    <2>1. cur'[t] = NULL_EDGE /\ \A u \in Threads \ {t} : pc'[u] = pc[u] /\ dir'[u] = dir[u] /\ cur'[u] = cur[u]
      BY <1>2, ReturnIs DEF Base
    <2>2. cur'[t] # x
      BY <2>1, IdsAssumption
    <2>3. CASE x # cur[t]
      BY <1>2, <2>1, <2>2, <2>3, ChainedOther
    <2>4. CASE x = cur[t]
      <3>1. \A u \in Threads : cur'[u] # x
        BY <1>2, <2>1, <2>2, <2>4, CursDiffer
      <3>2. Chained(d, x)' <=> x \in linked'
        BY <3>1 DEF Chained
      <3> QED
        BY <1>2, <2>4, <3>2
    <2> QED
      BY <2>3, <2>4
  <1>3. CASE LinkLog(t)
    <2>1. pc[t] = "link_log" /\ Return(t) /\ linked' = linked \cup {cur[t]}
      BY <1>3, LinkLogIs
    <2>2. Chained(d, cur[t])
      BY <2>1, ChainedMine DEF Joined
    <2> QED
      BY <1>2, <2>1, <2>2
  <1>4. CASE UnlinkLog(t)
    <2>1. /\ pc[t] = "log"
          /\ \/ /\ dir[t] = "out" /\ dir' = [dir EXCEPT ![t] = "in"]
                /\ UNCHANGED <<pc, cur, edge, at, pred, linked>>
             \/ dir[t] = "in" /\ linked' = linked \ {cur[t]} /\ Return(t)
      BY <1>4, UnlinkLogIs
    <2>2. ~Chained(d, cur[t])
      BY <2>1, ChainedMine DEF Left, Joined
    <2>3. CASE dir' = [dir EXCEPT ![t] = "in"] /\ UNCHANGED <<pc, cur, edge, at, pred, linked>>
      <3>1. \A u \in Threads \ {t} : pc'[u] = pc[u] /\ dir'[u] = dir[u] /\ cur'[u] = cur[u]
        BY <2>3 DEF Base, Types
      <3>2. CASE x # cur[t]
        BY <2>3, <3>1, <3>2, ChainedOther
      <3>3. CASE x = cur[t]
        <4>1. pc'[t] = "log" /\ cur'[t] = x
          BY <2>1, <2>3, <3>3
        <4>2. Chained(d, cur[t])' <=> ((cur[t] \in linked /\ ~Left(t, d)) \/ Joined(t, d))'
          BY <4>1, ChainedMineNext
        <4>3. ~Chained(d, x)'
          BY <4>1, <4>2 DEF Left, Joined, Chained
        <4> QED
          BY <2>2, <3>3, <4>3
      <3> QED
        BY <3>2, <3>3
    <2>4. CASE dir[t] = "in" /\ linked' = linked \ {cur[t]} /\ Return(t)
      BY <1>2, <2>1, <2>2, <2>4
    <2> QED
      BY <2>1, <2>3, <2>4
  <1> QED
    BY <1>1, <1>3, <1>4

\* An edge is put on a chain.
LEMMA ChainedLink ==
  ASSUME Base, Base', NEW t \in Threads, LinkOne(t), NEW d \in Dirs, NEW x \in Ids
  PROVE  /\ Chained(d, x)' <=> Chained(d, x) \/ (d = dir[t] /\ x = cur[t])
         /\ ~Chained(dir[t], cur[t])
  <1>1. pc[t] = "link" /\ dir[t] \in Dirs /\ Onward(t, "link", "link_log") /\ UNCHANGED <<cur, linked>>
    BY LinkOneIs
  <1>2. /\ \A u \in Threads \ {t} : pc'[u] = pc[u] /\ dir'[u] = dir[u]
        /\ dir[t] = "out" => pc'[t] = "link" /\ dir'[t] = "in"
        /\ dir[t] # "out" => dir[t] = "in" /\ pc'[t] = "link_log" /\ dir'[t] = "out"
    <2>1. "link" \in Places /\ "link_log" \in Places
      BY DEF Places
    <2> QED
      BY <1>1, <2>1, OnwardIs DEF Base
  <1>3. cur[t] \notin linked
    BY <1>1 DEF Base, Basic
  <1>4. \A e \in Dirs : Chained(e, cur[t]) <=> Joined(t, e)
    BY <1>1, <1>3, ChainedMine
  <1>5. ~Chained(dir[t], cur[t])
    BY <1>1, <1>4 DEF Joined
  <1>6. CASE x # cur[t]
    BY <1>1, <1>2, <1>5, <1>6, ChainedOther
  <1>7. CASE x = cur[t]
    <2>1. pc'[t] # "idle"
      BY <1>2
    <2>2. Chained(d, cur[t])' <=> ((cur[t] \in linked /\ ~Left(t, d)) \/ Joined(t, d))'
      BY <2>1, ChainedMineNext
    <2>3. Chained(d, x)' <=> Joined(t, d)'
      BY <1>1, <1>3, <1>7, <2>2 DEF Chained
    <2>4. Joined(t, d)' <=> Joined(t, d) \/ d = dir[t]
      BY <1>1, <1>2 DEF Joined, Dirs
    <2> QED
      BY <1>4, <1>5, <1>7, <2>3, <2>4
  <1> QED
    BY <1>6, <1>7

\* An edge is taken off a chain, or the search did not find it there.
LEMMA ChainedUnlink ==
  ASSUME Base, Base', NEW t \in Threads, pc[t] \in {"unlink", "search"}, Onward(t, "unlink", "log"),
         UNCHANGED <<cur, linked>>, NEW d \in Dirs, NEW x \in Ids
  PROVE  Chained(d, x)' <=> Chained(d, x) /\ ~(d = dir[t] /\ x = cur[t])
  <1>1. pc[t] # "idle" /\ dir[t] \in Dirs
    BY DEF Base, Types
  <1>2. /\ \A u \in Threads \ {t} : pc'[u] = pc[u] /\ dir'[u] = dir[u]
        /\ dir[t] = "out" => pc'[t] = "unlink" /\ dir'[t] = "in"
        /\ dir[t] # "out" => dir[t] = "in" /\ pc'[t] = "log" /\ dir'[t] = "out"
    BY OnwardUnlink DEF Base
  <1>3. CASE x # cur[t]
    BY <1>1, <1>2, <1>3, ChainedOther
  <1>4. CASE x = cur[t]
    <2>1. pc'[t] # "idle"
      BY <1>2
    <2>2. Chained(d, cur[t])' <=> ((cur[t] \in linked /\ ~Left(t, d)) \/ Joined(t, d))'
      BY <2>1, ChainedMineNext
    <2>3. Chained(d, x)' <=> x \in linked /\ ~Left(t, d)'
      BY <1>2, <1>4, <2>2 DEF Chained, Joined
    <2>4. Chained(d, x) <=> x \in linked /\ ~Left(t, d)
      BY <1>1, <1>4, ChainedMine DEF Joined
    <2>5. Left(t, d)' <=> Left(t, d) \/ d = dir[t]
      BY <1>1, <1>2 DEF Left, Dirs
    <2> QED
      BY <1>4, <2>3, <2>4, <2>5
  <1> QED
    BY <1>3, <1>4

\* On the chain of a call, the other edges are linked.
LEMMA OthersAreLinked ==
  ASSUME Base, NEW t \in Threads, pc[t] # "idle", NEW d \in Dirs, NEW x \in On(d, edges[cur[t]].end[d]),
         x # cur[t] \/ Unlinks(t)
  PROVE  x \in linked
  <1>1. SUFFICES ASSUME x \notin linked PROVE FALSE
    OBVIOUS
  <1>2. PICK u \in Threads : cur[u] = x /\ Joined(u, d)
    BY <1>1 DEF On, Chained
  <1>3. pc[u] # "idle" /\ u # t
    BY <1>2 DEF Joined, Unlinks
  <1>4. edges[cur[u]].end[d] = edges[cur[t]].end[d]
    BY <1>2 DEF On, Group
  <1> QED
    BY <1>3, <1>4 DEF Base, Apart

-----------------------------------------------------------------------------
(* The chains                                                              *)

\* Every chain is a sequence of edges, at every step of every call.
ChainInv ==
    \A d \in Dirs, n \in Nodes : \E k, s : Path(Follow(d), first[d][n], On(d, n), k, s)

\* A search is somewhere on its chain and has not passed its edge.
SearchInv ==
    \A t \in Threads, d \in Dirs, n \in Nodes :
        pc[t] = "search" /\ dir[t] = d /\ edges[cur[t]].end[d] = n =>
            Sought(Follow(d), first[d][n], On(d, n), at[t], cur[t])

\* The copy that unlink_from_chains has made of its edge is up to date.
CopyInv == \A t \in Threads : Unlinks(t) => edge[t] = edges[cur[t]]

Inv == Base /\ ChainInv /\ SearchInv /\ CopyInv

\* A step leaves a chain alone, and the edges that have left it.
Kept(d, n) ==
    /\ On(d, n)' = On(d, n) /\ first'[d][n] = first[d][n]
    /\ \A x \in On(d, n) : Follow(d)'[x] = Follow(d)[x]

KeptGroup(d, n) ==
    /\ Group(d, n) \subseteq Group(d, n)'
    /\ \A x \in Group(d, n) : Follow(d)'[x] = Follow(d)[x]

AllKept == \A d \in Dirs, n \in Nodes : Kept(d, n)
AllGroupsKept == \A d \in Dirs, n \in Nodes : KeptGroup(d, n)

\* The only chain that changes is chain d of node n.
Elsewhere(d, n) ==
    \A e \in Dirs, m \in Nodes : ~(e = d /\ m = n) => Kept(e, m) /\ KeptGroup(e, m)

\* The edge x is put in front of it.
Pushes(d, n, x) ==
    /\ Elsewhere(d, n) /\ Group(d, n)' = Group(d, n)
    /\ x \in Group(d, n) \ On(d, n) /\ On(d, n)' = On(d, n) \cup {x}
    /\ first'[d][n] = x /\ Follow(d)'[x] = first[d][n]
    /\ \A y \in Group(d, n) \ {x} : Follow(d)'[y] = Follow(d)[y]

\* The edge x is taken out of it.
Drops(d, n, x) ==
    /\ Elsewhere(d, n) /\ Group(d, n)' = Group(d, n)
    /\ x \in On(d, n) /\ On(d, n)' = On(d, n) \ {x}
    /\ TakesOut(Follow(d), Follow(d)', first[d][n], first'[d][n], On(d, n), Group(d, n), x)

\* Edges on a chain are edges of its node.
LEMMA OnIn == ASSUME NEW d, NEW n PROVE On(d, n) \in SUBSET Ids /\ Group(d, n) \in SUBSET Ids /\ On(d, n) \subseteq Group(d, n)
  BY DEF On, Group

\* Chains of which no edge changes.
LEMMA KeptElsewhere ==
  ASSUME \A x \in Ids : (edges'[x] = Absent <=> edges[x] = Absent) /\ edges'[x].end = edges[x].end,
         NEW d \in Dirs, NEW n \in Nodes, first'[d][n] = first[d][n],
         \A x \in Ids : edges[x] # Absent /\ edges[x].end[d] = n =>
             edges'[x].next[d] = edges[x].next[d] /\ (Chained(d, x)' <=> Chained(d, x))
  PROVE  Kept(d, n) /\ KeptGroup(d, n) /\ Group(d, n)' = Group(d, n)
  <1>1. Group(d, n)' = Group(d, n)
    BY DEF Group
  <1>2. \A x \in Group(d, n) : x \in Ids /\ Follow(d)'[x] = Follow(d)[x] /\ (Chained(d, x)' <=> Chained(d, x))
    BY DEF Group, Follow
  <1>3. On(d, n)' = On(d, n)
    BY <1>1, <1>2 DEF On
  <1> QED
    BY <1>1, <1>2, <1>3, OnIn DEF Kept, KeptGroup

\* Steps that change no link and no head.
LEMMA StillKept ==
  ASSUME UNCHANGED <<edges, first>>, \A d \in Dirs, x \in Ids : Chained(d, x)' <=> Chained(d, x)
  PROVE  AllKept /\ AllGroupsKept
  <1> SUFFICES ASSUME NEW d \in Dirs, NEW n \in Nodes PROVE Kept(d, n) /\ KeptGroup(d, n)
    BY DEF AllKept, AllGroupsKept
  <1> QED
    BY KeptElsewhere

\* An edge that is inserted is on no chain.
LEMMA InsertKept ==
  ASSUME Base, NEW id \in Ids, NEW ends \in Ends, insert_edge(id, ends[1], ends[2])
  PROVE  AllKept /\ AllGroupsKept
  <1> SUFFICES ASSUME NEW d \in Dirs, NEW n \in Nodes PROVE Kept(d, n) /\ KeptGroup(d, n)
    BY DEF AllKept, AllGroupsKept
  <1>1. /\ edges[id] = Absent /\ \A j \in Ids \ {id} : edges'[j] = edges[j]
        /\ UNCHANGED <<first, call, walk, linked, stable>>
    BY InsertIs DEF Base
  <1>2. \A x \in Ids : Chained(d, x)' <=> Chained(d, x)
    BY <1>1, ChainedSame DEF call
  <1>3. ~Chained(d, id)
    <2>1. id \notin linked /\ \A t \in Threads : cur[t] # id
      BY <1>1, IdsAssumption DEF Base, Types, Basic
    <2> QED
      BY <2>1, ChainedNone
  <1>4. Group(d, n) \subseteq Ids \ {id} /\ \A x \in Ids \ {id} : x \in Group(d, n)' <=> x \in Group(d, n)
    BY <1>1 DEF Group
  <1>5. Group(d, n)' \subseteq Ids
    BY DEF Group
  <1>6. \A x \in Ids \ {id} : Follow(d)'[x] = Follow(d)[x]
    BY <1>1 DEF Follow
  <1>7. On(d, n)' = On(d, n)
    BY <1>2, <1>3, <1>4, <1>5 DEF On
  <1> QED
    BY <1>1, <1>4, <1>6, <1>7, OnIn DEF Kept, KeptGroup

\* An edge that is deleted is on no chain.
LEMMA DeleteKept ==
  ASSUME Base, NEW id \in Ids, hard_delete(id)
  PROVE  AllKept
  <1> SUFFICES ASSUME NEW d \in Dirs, NEW n \in Nodes PROVE Kept(d, n)
    BY DEF AllKept
  <1>1. /\ id \notin linked /\ edges'[id] = Absent /\ \A j \in Ids \ {id} : edges'[j] = edges[j]
        /\ \A t \in Threads : pc[t] # "idle" => cur[t] # id
        /\ UNCHANGED <<first, call, walk, linked, stable>>
    BY DeleteIs DEF Base
  <1>2. \A x \in Ids : Chained(d, x)' <=> Chained(d, x)
    BY <1>1, ChainedSame DEF call
  <1>3. ~Chained(d, id)
    <2>1. \A t \in Threads : cur[t] # id
      BY <1>1, IdsAssumption DEF Base, Basic
    <2> QED
      BY <1>1, <2>1, ChainedNone
  <1>4. \A x \in Ids \ {id} : x \in Group(d, n)' <=> x \in Group(d, n)
    BY <1>1 DEF Group
  <1>5. Group(d, n)' \subseteq Ids /\ Group(d, n) \subseteq Ids
    BY DEF Group
  <1>6. \A x \in Ids \ {id} : Follow(d)'[x] = Follow(d)[x]
    BY <1>1 DEF Follow
  <1>7. On(d, n)' = On(d, n) /\ id \notin On(d, n)
    BY <1>2, <1>3, <1>4, <1>5 DEF On
  <1> QED
    BY <1>1, <1>6, <1>7, OnIn DEF Kept

\* LinkOne puts its edge in front of the chain.
LEMMA LinkPushes ==
  ASSUME Base, Base', NEW t \in Threads, LinkOne(t), NEW d, d = dir[t], NEW n, n = edges[cur[t]].end[d]
  PROVE  d \in Dirs /\ n \in Nodes /\ cur[t] \in Ids /\ Pushes(d, n, cur[t])
  <1>1. /\ cur[t] \in Ids /\ edges[cur[t]] \in Edge /\ d \in Dirs /\ n \in Nodes
        /\ first[d][n] \in Links
        /\ edges' = [edges EXCEPT ![cur[t]].next[d] = first[d][n]]
        /\ \A e \in Dirs, m \in Nodes : first'[e][m] = IF e = d /\ m = n THEN cur[t] ELSE first[e][m]
    <2>1. End(t) = n
      BY DEF End
    <2> QED
      BY <2>1, LinkOneIs
  <1>2. edges \in [Ids -> Edge \cup {Absent}] /\ edges[cur[t]] # Absent
    BY <1>1, AbsentAssumption DEF Base, Types
  <1>3. /\ \A j \in Ids \ {cur[t]} : edges'[j] = edges[j]
        /\ \A j \in Ids : (edges'[j] = Absent <=> edges[j] = Absent) /\ edges'[j].end = edges[j].end
        /\ \A e \in Dirs : edges'[cur[t]].next[e] = IF e = d THEN first[d][n] ELSE edges[cur[t]].next[e]
    <2>1. Relinked(cur[t], d, first[d][n])
      BY <1>1, <1>2, RelinkIs
    <2> QED
      BY <2>1 DEF Relinked
  <1>4. \A e \in Dirs, x \in Ids : Chained(e, x)' <=> Chained(e, x) \/ (e = d /\ x = cur[t])
    BY ChainedLink
  <1>5. ~Chained(d, cur[t])
    BY <1>1, ChainedLink
  <1>6. Elsewhere(d, n)
    <2>1. SUFFICES ASSUME NEW e \in Dirs, NEW m \in Nodes, ~(e = d /\ m = n) PROVE Kept(e, m) /\ KeptGroup(e, m)
      BY DEF Elsewhere
    <2>2. first'[e][m] = first[e][m]
      BY <1>1, <2>1
    <2>3. ASSUME NEW x \in Ids, edges[x] # Absent /\ edges[x].end[e] = m
          PROVE  edges'[x].next[e] = edges[x].next[e] /\ (Chained(e, x)' <=> Chained(e, x))
      BY <1>3, <1>4, <2>1, <2>3
    <2> QED
      BY <1>3, <2>2, <2>3, KeptElsewhere
  <1>7. Group(d, n)' = Group(d, n) /\ cur[t] \in Group(d, n)
    BY <1>1, <1>2, <1>3 DEF Group
  <1>8. cur[t] \notin On(d, n) /\ On(d, n)' = On(d, n) \cup {cur[t]}
    BY <1>1, <1>4, <1>5, <1>7, OnIn DEF On
  <1>9. Follow(d)'[cur[t]] = first[d][n] /\ \A y \in Group(d, n) \ {cur[t]} : Follow(d)'[y] = Follow(d)[y]
    <2>1. edges'[cur[t]] # Absent /\ edges'[cur[t]].next[d] = first[d][n]
      BY <1>1, <1>2, <1>3
    <2>2. Follow(d)'[cur[t]] = first[d][n]
      BY <1>1, <2>1 DEF Follow
    <2>3. \A y \in Ids \ {cur[t]} : Follow(d)'[y] = Follow(d)[y]
      BY <1>3 DEF Follow
    <2> QED
      BY <2>2, <2>3, OnIn
  <1>10. first'[d][n] = cur[t]
    BY <1>1
  <1> QED
    BY <1>1, <1>6, <1>7, <1>8, <1>9, <1>10 DEF Pushes

\* A head is on its chain, and so is what an edge on the chain points to.
LEMMA PathStays ==
  ASSUME NEW nx, NEW S \in SUBSET Ids, NEW h, NEW k, NEW s, Path(nx, h, S, k, s)
  PROVE  (h \in Ids => h \in S) /\ h \in Links /\ \A a \in S : nx[a] \in Ids => nx[a] \in S
  <1>1. k \in Nat /\ s \in [1 .. k + 1 -> Links] /\ s[1] = h /\ s[k + 1] = NULL_EDGE
    BY DEF Path
  <1>2. \A i \in 1 .. k : s[i] \in S /\ nx[s[i]] = s[i + 1]
    BY DEF Path
  <1>3. \A i \in 1 .. k + 1 : s[i] \in Ids => i \in 1 .. k
    BY <1>1, IdsAssumption
  <1>4. 1 \in 1 .. k + 1
    BY <1>1
  <1>5. h \in Ids => h \in S
    BY <1>1, <1>2, <1>3, <1>4
  <1>6. ASSUME NEW a \in S, nx[a] \in Ids PROVE nx[a] \in S
    <2>1. PICK i \in 1 .. k : s[i] = a
      BY DEF Path
    <2>2. i + 1 \in 1 .. k + 1 /\ s[i + 1] = nx[a]
      BY <1>1, <1>2, <2>1
    <2> QED
      BY <1>2, <1>3, <1>6, <2>2
  <1> QED
    BY <1>1, <1>4, <1>5, <1>6

\* The chain of a call, in a state that is in order.
LEMMA ChainOf ==
  ASSUME Inv, NEW d \in Dirs, NEW n \in Nodes
  PROVE  /\ first[d][n] \in Ids => first[d][n] \in On(d, n)
         /\ \A a \in On(d, n) : Follow(d)[a] \in Ids => Follow(d)[a] \in On(d, n)
  <1>1. PICK k, s : Path(Follow(d), first[d][n], On(d, n), k, s)
    BY DEF Inv, ChainInv
  <1> DEFINE S == On(d, n)
             h == first[d][n]
             nx == Follow(d)
  <1>2. S \in SUBSET Ids /\ Path(nx, h, S, k, s)
    BY <1>1, OnIn
  <1> HIDE DEF S, h, nx
  <1>3. (h \in Ids => h \in S) /\ \A a \in S : nx[a] \in Ids => nx[a] \in S
    BY <1>2, PathStays
  <1> QED
    BY <1>3 DEF S, h, nx

\* unlink_from_chains takes its edge off at the head.
LEMMA HeadDrops ==
  ASSUME Inv, Base', NEW t \in Threads, UnlinkHead(t), NEW d, d = dir[t], NEW n, n = edges[cur[t]].end[d],
         first[d][n] = cur[t]
  PROVE  d \in Dirs /\ n \in Nodes /\ cur[t] \in Ids /\ Drops(d, n, cur[t])
  <1>0. Base
    BY DEF Inv
  <1>1. /\ pc[t] = "unlink" /\ cur[t] \in Ids /\ edges[cur[t]] \in Edge /\ d \in Dirs /\ n \in Nodes
        /\ \A e \in Dirs, m \in Nodes : first'[e][m] = IF e = d /\ m = n THEN edge[t].next[d] ELSE first[e][m]
        /\ Onward(t, "unlink", "log") /\ UNCHANGED <<edges, cur, linked>>
    <2>1. End(t) = n
      BY DEF End
    <2> QED
      BY <1>0, <2>1, UnlinkHeadIs
  <1>2. edges[cur[t]] # Absent /\ edge[t] = edges[cur[t]]
    BY <1>1, AbsentAssumption DEF Inv, CopyInv, Unlinks
  <1>3. \A e \in Dirs, x \in Ids : Chained(e, x)' <=> Chained(e, x) /\ ~(e = d /\ x = cur[t])
    BY <1>0, <1>1, ChainedUnlink
  <1>4. Elsewhere(d, n)
    <2>1. SUFFICES ASSUME NEW e \in Dirs, NEW m \in Nodes, ~(e = d /\ m = n) PROVE Kept(e, m) /\ KeptGroup(e, m)
      BY DEF Elsewhere
    <2>2. first'[e][m] = first[e][m]
      BY <1>1, <2>1
    <2>3. ASSUME NEW x \in Ids, edges[x] # Absent /\ edges[x].end[e] = m
          PROVE  edges'[x].next[e] = edges[x].next[e] /\ (Chained(e, x)' <=> Chained(e, x))
      BY <1>1, <1>3, <2>1, <2>3
    <2>4. \A x \in Ids : (edges'[x] = Absent <=> edges[x] = Absent) /\ edges'[x].end = edges[x].end
      BY <1>1
    <2> QED
      BY <2>2, <2>3, <2>4, KeptElsewhere
  <1>5. Group(d, n)' = Group(d, n) /\ Follow(d)' = Follow(d)
    BY <1>1 DEF Group, Follow
  <1>6. cur[t] \in On(d, n)
    BY <1>1, ChainOf
  <1>7. On(d, n)' = On(d, n) \ {cur[t]}
    BY <1>1, <1>3, <1>5, OnIn DEF On
  <1>8. first'[d][n] = Follow(d)[cur[t]]
    BY <1>1, <1>2 DEF Follow
  <1>9. TakesOut(Follow(d), Follow(d)', first[d][n], first'[d][n], On(d, n), Group(d, n), cur[t])
    BY <1>5, <1>8 DEF TakesOut
  <1> QED
    BY <1>1, <1>4, <1>5, <1>6, <1>7, <1>9 DEF Drops

\* Or behind the predecessor that its search has found.
LEMMA FoundDrops ==
  ASSUME Inv, Base', NEW t \in Threads, Search(t), NEW d, d = dir[t], NEW n, n = edges[cur[t]].end[d],
         at[t] \in Ids, edges[at[t]] # Absent, edges[at[t]].next[d] = cur[t]
  PROVE  /\ d \in Dirs /\ n \in Nodes /\ cur[t] \in Ids /\ Drops(d, n, cur[t])
         /\ at[t] \in On(d, n) /\ at[t] # cur[t]
  <1>0. Base
    BY DEF Inv
  <1>1. /\ pc[t] = "search" /\ cur[t] \in Ids /\ edges[cur[t]] \in Edge /\ d \in Dirs /\ n \in Nodes
        /\ edges[at[t]] \in Edge /\ edge[t].next[d] \in Links
        /\ edges' = [edges EXCEPT ![at[t]].next[d] = edge[t].next[d]]
        /\ Onward(t, "unlink", "log") /\ UNCHANGED <<first, cur, linked>>
    <2>1. End(t) = n
      BY DEF End
    <2> QED
      BY <1>0, <2>1, SearchIs
  <1>2. edges[cur[t]] # Absent /\ edge[t] = edges[cur[t]]
    BY <1>1, AbsentAssumption DEF Inv, CopyInv, Unlinks
  <1>3. \A e \in Dirs, x \in Ids : Chained(e, x)' <=> Chained(e, x) /\ ~(e = d /\ x = cur[t])
    BY <1>0, <1>1, ChainedUnlink
  <1>4. Sought(Follow(d), first[d][n], On(d, n), at[t], cur[t])
    BY <1>1 DEF Inv, SearchInv
  <1>5. at[t] \in On(d, n) /\ at[t] # cur[t]
    BY <1>4, SoughtNext, OnIn
  <1>6. Relinked(at[t], d, edge[t].next[d])
    <2>1. edges \in [Ids -> Edge \cup {Absent}]
      BY <1>0 DEF Base, Types
    <2> QED
      BY <1>1, <2>1, RelinkIs
  <1>7. /\ \A j \in Ids \ {at[t]} : edges'[j] = edges[j]
        /\ \A j \in Ids : (edges'[j] = Absent <=> edges[j] = Absent) /\ edges'[j].end = edges[j].end
        /\ \A e \in Dirs : edges'[at[t]].next[e] = IF e = d THEN edge[t].next[d] ELSE edges[at[t]].next[e]
    BY <1>6 DEF Relinked
  <1>8. edges[at[t]].end[d] = n
    BY <1>5 DEF On, Group
  <1>9. Elsewhere(d, n)
    <2>1. SUFFICES ASSUME NEW e \in Dirs, NEW m \in Nodes, ~(e = d /\ m = n) PROVE Kept(e, m) /\ KeptGroup(e, m)
      BY DEF Elsewhere
    <2>2. first'[e][m] = first[e][m]
      BY <1>1
    <2>3. ASSUME NEW x \in Ids, edges[x] # Absent /\ edges[x].end[e] = m
          PROVE  edges'[x].next[e] = edges[x].next[e] /\ (Chained(e, x)' <=> Chained(e, x))
      BY <1>3, <1>7, <1>8, <2>1, <2>3
    <2> QED
      BY <1>7, <2>2, <2>3, KeptElsewhere
  <1>10. Group(d, n)' = Group(d, n)
    BY <1>7 DEF Group
  <1>11. Follow(d)[at[t]] = cur[t] /\ Follow(d)'[at[t]] = Follow(d)[cur[t]]
         /\ \A y \in Ids \ {at[t]} : Follow(d)'[y] = Follow(d)[y]
    <2>1. Follow(d)[at[t]] = cur[t] /\ Follow(d)[cur[t]] = edge[t].next[d]
      BY <1>1, <1>2 DEF Follow
    <2>2. edges'[at[t]] # Absent /\ edges'[at[t]].next[d] = edge[t].next[d]
      BY <1>1, <1>7
    <2>3. Follow(d)'[at[t]] = edge[t].next[d]
      BY <2>2 DEF Follow
    <2>4. \A y \in Ids \ {at[t]} : Follow(d)'[y] = Follow(d)[y]
      BY <1>7 DEF Follow
    <2> QED
      BY <2>1, <2>3, <2>4
  <1>12. cur[t] \in On(d, n)
    BY <1>1, <1>5, <1>11, ChainOf
  <1>13. On(d, n)' = On(d, n) \ {cur[t]}
    BY <1>1, <1>3, <1>10, OnIn DEF On
  <1>14. TakesOut(Follow(d), Follow(d)', first[d][n], first'[d][n], On(d, n), Group(d, n), cur[t])
    <2>1. \A y \in Group(d, n) \ {at[t]} : Follow(d)'[y] = Follow(d)[y]
      BY <1>11, OnIn
    <2>2. first'[d][n] = first[d][n]
      BY <1>1
    <2> QED
      BY <1>5, <1>11, <2>1, <2>2 DEF TakesOut
  <1> QED
    BY <1>1, <1>5, <1>9, <1>10, <1>12, <1>13, <1>14 DEF Drops

\* A search that finds nothing, or goes on, changes no chain.
LEMMA SearchKept ==
  ASSUME Inv, Base', NEW t \in Threads, Search(t),
         ~(at[t] \in Ids /\ edges[at[t]] # Absent /\ edges[at[t]].next[dir[t]] = cur[t])
  PROVE  AllKept /\ AllGroupsKept
  <1>0. Base
    BY DEF Inv
  <1>1. /\ pc[t] = "search" /\ cur[t] \in Ids /\ edges[cur[t]] \in Edge /\ dir[t] \in Dirs /\ End(t) \in Nodes
        /\ \/ /\ at[t] \notin Ids \/ edges[at[t]] = Absent
              /\ Onward(t, "unlink", "log") /\ UNCHANGED edges
           \/ UNCHANGED <<edges, pc, dir>>
        /\ UNCHANGED <<first, cur, linked>>
    BY <1>0, SearchIs, AbsentAssumption
  <1>2. CASE UNCHANGED <<edges, pc, dir>>
    BY <1>1, <1>2, ChainedSame, StillKept
  <1>3. CASE /\ at[t] \notin Ids \/ edges[at[t]] = Absent
             /\ Onward(t, "unlink", "log") /\ UNCHANGED edges
    <2>1. PICK d \in Dirs : d = dir[t]
      BY <1>1
    <2>2. PICK n \in Nodes : n = edges[cur[t]].end[d]
      BY <1>1, <2>1 DEF End
    <2>3. Sought(Follow(d), first[d][n], On(d, n), at[t], cur[t])
      BY <1>1, <2>1, <2>2 DEF Inv, SearchInv
    <2>4. at[t] \notin Ids
      <3>1. at[t] \in Ids => at[t] \in On(d, n)
        BY <2>3, SoughtNext, OnIn
      <3> QED
        BY <1>3, <3>1 DEF On, Group
    <2>5. cur[t] \notin On(d, n)
      BY <2>3, <2>4, SoughtEnd, OnIn
    <2>6. ~Chained(d, cur[t])
      BY <1>1, <2>2, <2>5, AbsentAssumption DEF On, Group
    <2>7. \A e \in Dirs, x \in Ids : Chained(e, x)' <=> Chained(e, x) /\ ~(e = d /\ x = cur[t])
      BY <1>0, <1>1, <1>3, <2>1, ChainedUnlink
    <2>8. \A e \in Dirs, x \in Ids : Chained(e, x)' <=> Chained(e, x)
      BY <2>6, <2>7
    <2> QED
      BY <1>1, <1>3, <2>8, StillKept
  <1> QED
    BY <1>1, <1>2, <1>3

\* A head that is another edge is left alone.
LEMMA HeadKept ==
  ASSUME Base, Base', NEW t \in Threads, UnlinkHead(t), first[dir[t]][End(t)] # cur[t]
  PROVE  AllKept /\ AllGroupsKept
  <1>1. /\ pc[t] = "unlink" /\ pc' = [pc EXCEPT ![t] = "search"]
        /\ UNCHANGED <<edges, first, dir, cur, linked>>
    BY UnlinkHeadIs
  <1>2. pc'[t] = "search" /\ \A u \in Threads \ {t} : pc'[u] = pc[u]
    BY <1>1 DEF Base, Types
  <1>3. ASSUME NEW d \in Dirs, NEW x \in Ids PROVE Chained(d, x)' <=> Chained(d, x)
    <2>1. \A u \in Threads : (Left(u, d)' <=> Left(u, d)) /\ (Joined(u, d)' <=> Joined(u, d))
      BY <1>1, <1>2 DEF Left, Joined
    <2> QED
      BY <1>1, <2>1 DEF Chained
  <1> QED
    BY <1>1, <1>3, StillKept

-----------------------------------------------------------------------------
(* Every step keeps the chains                                             *)

\* A chain that is left alone, pushed to or dropped from is still a chain.
LEMMA PathAfter ==
  ASSUME NEW d \in Dirs, NEW n \in Nodes, \E k, s : Path(Follow(d), first[d][n], On(d, n), k, s),
         \/ Kept(d, n)
         \/ \E x \in Ids : Pushes(d, n, x)
         \/ \E x \in Ids : Drops(d, n, x)
  PROVE  \E k, s : Path(Follow(d)', first'[d][n], On(d, n)', k, s)
  <1>1. PICK k, s : Path(Follow(d), first[d][n], On(d, n), k, s)
    OBVIOUS
  <1> DEFINE S == On(d, n)
             G == Group(d, n)
             h == first[d][n]
             g == first'[d][n]
             nx == Follow(d)
             ny == Follow(d)'
  <1>2. S \in SUBSET Ids /\ S \subseteq G /\ Path(nx, h, S, k, s)
    BY <1>1, OnIn
  <1>3. CASE Kept(d, n)
    <2>1. On(d, n)' = S /\ g = h /\ \A x \in S : ny[x] = nx[x]
      BY <1>3 DEF Kept
    <2> HIDE DEF S, h, nx, ny, g
    <2>2. Path(ny, h, S, k, s)
      BY <1>2, <2>1, PathFrame
    <2>3. Path(ny, g, On(d, n)', k, s)
      BY <2>1, <2>2
    <2> QED
      BY <2>3 DEF ny, g
  <1>4. CASE \E x \in Ids : Pushes(d, n, x)
    <2>1. PICK x \in Ids : Pushes(d, n, x)
      BY <1>4
    <2>2. x \in Ids \ S /\ On(d, n)' = S \cup {x} /\ g = x /\ ny[x] = h /\ \A y \in S : ny[y] = nx[y]
      BY <1>2, <2>1 DEF Pushes
    <2> HIDE DEF S, h, nx, ny, g
    <2>3. Path(ny, x, S \cup {x}, k + 1, Pushed(s, k, x))
      BY <1>2, <2>2, PathPush
    <2>4. Path(ny, g, On(d, n)', k + 1, Pushed(s, k, x))
      BY <2>2, <2>3
    <2> QED
      BY <2>4 DEF ny, g
  <1>5. CASE \E x \in Ids : Drops(d, n, x)
    <2>1. PICK x \in Ids : Drops(d, n, x)
      BY <1>5
    <2>2. x \in S /\ On(d, n)' = S \ {x} /\ TakesOut(nx, ny, h, g, S, G, x)
      BY <2>1 DEF Drops
    <2> HIDE DEF S, G, h, nx, ny, g
    <2>3. PICK c : CutAt(nx, ny, g, S, G, x, k, s, c)
      BY <1>2, <2>2, PathTakeOut
    <2>4. Path(ny, g, On(d, n)', k - 1, Without(s, k, c))
      BY <2>2, <2>3 DEF CutAt
    <2> QED
      BY <2>4 DEF ny, g
  <1> QED
    BY <1>3, <1>4, <1>5

\* All chains, if at most one of them changes.
LEMMA ChainsAfter ==
  ASSUME ChainInv,
         \/ AllKept
         \/ \E d \in Dirs, n \in Nodes, x \in Ids : Pushes(d, n, x) \/ Drops(d, n, x)
  PROVE  ChainInv'
  <1> SUFFICES ASSUME NEW e \in Dirs, NEW m \in Nodes
               PROVE  \E k, s : Path(Follow(e)', first'[e][m], On(e, m)', k, s)
    BY DEF ChainInv
  <1>1. \E k, s : Path(Follow(e), first[e][m], On(e, m), k, s)
    BY DEF ChainInv
  <1>2. CASE AllKept
    BY <1>1, <1>2, PathAfter DEF AllKept
  <1>3. CASE \E d \in Dirs, n \in Nodes, x \in Ids : Pushes(d, n, x) \/ Drops(d, n, x)
    <2>1. PICK d \in Dirs, n \in Nodes, x \in Ids : Pushes(d, n, x) \/ Drops(d, n, x)
      BY <1>3
    <2>2. CASE e = d /\ m = n
      BY <1>1, <2>1, <2>2, PathAfter
    <2>3. CASE ~(e = d /\ m = n)
      <3>1. Kept(e, m)
        BY <2>1, <2>3 DEF Pushes, Drops, Elsewhere
      <3> QED
        BY <1>1, <3>1, PathAfter
    <2> QED
      BY <2>2, <2>3
  <1> QED
    BY <1>2, <1>3

\* What t does does not disturb the searches of others.
LEMMA SearchesAfter ==
  ASSUME Inv, NEW t \in Threads,
         \A u \in Threads \ {t} : pc'[u] = pc[u] /\ dir'[u] = dir[u] /\ cur'[u] = cur[u] /\ at'[u] = at[u],
         \A u \in Threads : pc[u] # "idle" => edges'[cur[u]].end = edges[cur[u]].end,
         \/ AllKept
         \/ pc[t] # "idle" /\ \E d \in Dirs, n \in Nodes : d = dir[t] /\ n = edges[cur[t]].end[d] /\ Elsewhere(d, n),
         \A d \in Dirs, n \in Nodes :
             pc'[t] = "search" /\ dir'[t] = d /\ edges'[cur'[t]].end[d] = n =>
                 Sought(Follow(d)', first'[d][n], On(d, n)', at'[t], cur'[t])
  PROVE  SearchInv'
  <1> SUFFICES ASSUME NEW u \in Threads, NEW d \in Dirs, NEW n \in Nodes,
                      pc'[u] = "search", dir'[u] = d, edges'[cur'[u]].end[d] = n
               PROVE  Sought(Follow(d)', first'[d][n], On(d, n)', at'[u], cur'[u])
    BY DEF SearchInv
  <1>1. CASE u = t
    BY <1>1
  <1>2. CASE u # t
    <2>1. pc[u] = "search" /\ dir[u] = d /\ cur'[u] = cur[u] /\ at'[u] = at[u] /\ edges[cur[u]].end[d] = n
      BY <1>2
    <2>2. Sought(Follow(d), first[d][n], On(d, n), at[u], cur[u])
      BY <2>1 DEF Inv, SearchInv
    <2>3. Kept(d, n)
      <3>1. CASE AllKept
        BY <3>1 DEF AllKept
      <3>2. CASE pc[t] # "idle" /\ \E e \in Dirs, m \in Nodes : e = dir[t] /\ m = edges[cur[t]].end[e] /\ Elsewhere(e, m)
        <4>1. PICK e \in Dirs, m \in Nodes : e = dir[t] /\ m = edges[cur[t]].end[e] /\ Elsewhere(e, m)
          BY <3>2
        <4>2. ~(d = e /\ n = m)
          BY <1>2, <2>1, <3>2, <4>1 DEF Inv, Base, Apart
        <4> QED
          BY <4>1, <4>2 DEF Elsewhere
      <3> QED
        BY <3>1, <3>2
    <2> DEFINE S == On(d, n)
               h == first[d][n]
               nx == Follow(d)
               ny == Follow(d)'
    <2>4. On(d, n)' = S /\ first'[d][n] = h /\ \A x \in S : ny[x] = nx[x]
      BY <2>3 DEF Kept
    <2>5. Sought(nx, h, S, at[u], cur[u])
      BY <2>2
    <2> HIDE DEF S, h, nx, ny
    <2>6. Sought(ny, h, S, at[u], cur[u])
      BY <2>4, <2>5, SoughtFrame
    <2> QED
      BY <2>1, <2>4, <2>6 DEF ny
  <1> QED
    BY <1>1, <1>2

\* The copies of others stay up to date.
LEMMA CopiesAfter ==
  ASSUME CopyInv, NEW t \in Threads,
         \A u \in Threads \ {t} : pc'[u] = pc[u] /\ cur'[u] = cur[u] /\ edge'[u] = edge[u],
         \A u \in Threads \ {t} : Unlinks(u) => edges'[cur[u]] = edges[cur[u]],
         Unlinks(t)' => edge'[t] = edges'[cur'[t]]
  PROVE  CopyInv'
  <1> SUFFICES ASSUME NEW u \in Threads, Unlinks(u)' PROVE edge'[u] = edges'[cur'[u]]
    BY DEF CopyInv
  <1>1. CASE u = t
    BY <1>1
  <1>2. CASE u # t
    BY <1>2 DEF CopyInv, Unlinks
  <1> QED
    BY <1>1, <1>2

\* A search on a chain that is left alone.
LEMMA SoughtKept ==
  ASSUME NEW d, NEW n, Kept(d, n), NEW a, NEW x, Sought(Follow(d), first[d][n], On(d, n), a, x)
  PROVE  Sought(Follow(d)', first'[d][n], On(d, n)', a, x)
  <1> DEFINE S == On(d, n)
             h == first[d][n]
             nx == Follow(d)
             ny == Follow(d)'
  <1>1. On(d, n)' = S /\ first'[d][n] = h /\ \A y \in S : ny[y] = nx[y]
    BY DEF Kept
  <1>2. Sought(nx, h, S, a, x)
    OBVIOUS
  <1> HIDE DEF S, h, nx, ny
  <1>3. Sought(ny, h, S, a, x)
    BY <1>1, <1>2, SoughtFrame
  <1> QED
    BY <1>1, <1>3 DEF ny

\* Steps outside the calls.
LEMMA InvOutside ==
  ASSUME Inv, Base', AllKept, UNCHANGED <<pc, dir, cur, edge, at>>,
         \A u \in Threads : pc[u] # "idle" => edges'[cur[u]] = edges[cur[u]]
  PROVE  Inv'
  <1>1. ChainInv'
    BY ChainsAfter DEF Inv
  <1>2. CopyInv'
    BY DEF Inv, CopyInv, Unlinks
  <1>3. SearchInv'
    <2> SUFFICES ASSUME NEW u \in Threads, NEW d \in Dirs, NEW n \in Nodes,
                        pc'[u] = "search", dir'[u] = d, edges'[cur'[u]].end[d] = n
                 PROVE  Sought(Follow(d)', first'[d][n], On(d, n)', at'[u], cur'[u])
      BY DEF SearchInv
    <2>1. pc[u] = "search" /\ dir[u] = d /\ cur'[u] = cur[u] /\ at'[u] = at[u] /\ edges[cur[u]].end[d] = n
      OBVIOUS
    <2>2. Sought(Follow(d), first[d][n], On(d, n), at[u], cur[u])
      BY <2>1 DEF Inv, SearchInv
    <2>3. Kept(d, n)
      BY DEF AllKept
    <2> QED
      BY <2>1, <2>2, <2>3, SoughtKept
  <1> QED
    BY <1>1, <1>2, <1>3 DEF Inv

\* insert_edge and hard_delete.
LEMMA InvMap ==
  ASSUME Inv, Base', NEW id \in Ids, hard_delete(id) \/ \E ends \in Ends : insert_edge(id, ends[1], ends[2])
  PROVE  Inv'
  <1>0. Base /\ Types
    BY DEF Inv, Base
  <1>1. CASE hard_delete(id)
    <2>1. /\ \A j \in Ids \ {id} : edges'[j] = edges[j]
          /\ \A t \in Threads : pc[t] # "idle" => cur[t] # id
          /\ UNCHANGED <<pc, dir, cur, edge, at>>
      BY <1>0, <1>1, DeleteIs DEF call
    <2>2. AllKept
      BY <1>0, <1>1, DeleteKept
    <2>3. \A u \in Threads : pc[u] # "idle" => edges'[cur[u]] = edges[cur[u]]
      BY <1>0, <2>1 DEF Base, Basic
    <2> QED
      BY <2>1, <2>2, <2>3, InvOutside
  <1>2. CASE \E ends \in Ends : insert_edge(id, ends[1], ends[2])
    <2>0. PICK ends \in Ends : insert_edge(id, ends[1], ends[2])
      BY <1>2
    <2>1. /\ edges[id] = Absent /\ \A j \in Ids \ {id} : edges'[j] = edges[j]
          /\ UNCHANGED <<pc, dir, cur, edge, at>>
      BY <1>0, <2>0, InsertIs DEF call
    <2>2. AllKept
      BY <1>0, <2>0, InsertKept
    <2>3. \A u \in Threads : pc[u] # "idle" => edges'[cur[u]] = edges[cur[u]]
      BY <1>0, <2>1 DEF Base, Basic
    <2> QED
      BY <2>1, <2>2, <2>3, InvOutside
  <1> QED
    BY <1>1, <1>2

\* The start of a call and its end.
LEMMA InvStill ==
  ASSUME Inv, Base', NEW t \in Threads,
         \/ \E id \in Ids : link_into_chains(t, id) \/ unlink_from_chains(t, id)
         \/ LinkLog(t) \/ UnlinkLog(t)
  PROVE  Inv' /\ AllKept /\ AllGroupsKept
  <1>0. Base /\ Types
    BY DEF Inv, Base
  <1>1. \A d \in Dirs, x \in Ids : Chained(d, x)' <=> Chained(d, x)
    BY <1>0, ChainedStill
  <1>2. /\ UNCHANGED <<edges, first>>
        /\ \A u \in Threads \ {t} : /\ pc'[u] = pc[u] /\ dir'[u] = dir[u] /\ cur'[u] = cur[u]
                                    /\ edge'[u] = edge[u] /\ at'[u] = at[u]
        /\ pc'[t] # "search"
        /\ Unlinks(t)' => edge'[t] = edges'[cur'[t]]
    <2>1. CASE \E id \in Ids : link_into_chains(t, id)
      <3>1. PICK id \in Ids : link_into_chains(t, id)
        BY <2>1
      <3>2. Begin(t, id, "link") /\ UNCHANGED <<edges, first, edge, at>>
        BY <3>1 DEF link_into_chains
      <3>3. pc' = [pc EXCEPT ![t] = "link"] /\ cur' = [cur EXCEPT ![t] = id] /\ dir' = [dir EXCEPT ![t] = "out"]
        BY <3>2 DEF Begin
      <3> QED
        BY <1>0, <3>2, <3>3 DEF Types, Unlinks
    <2>2. CASE \E id \in Ids : unlink_from_chains(t, id)
      <3>1. PICK id \in Ids : unlink_from_chains(t, id)
        BY <2>2
      <3>2. Begin(t, id, "unlink") /\ edge' = [edge EXCEPT ![t] = edges[id]] /\ UNCHANGED <<edges, first, at>>
        BY <3>1 DEF unlink_from_chains
      <3>3. pc' = [pc EXCEPT ![t] = "unlink"] /\ cur' = [cur EXCEPT ![t] = id] /\ dir' = [dir EXCEPT ![t] = "out"]
        BY <3>2 DEF Begin
      <3> QED
        BY <1>0, <3>2, <3>3 DEF Types, Unlinks
    <2>3. CASE LinkLog(t)
      BY <1>0, <2>3, LinkLogIs, ReturnIs DEF Unlinks
    <2>4. CASE UnlinkLog(t)
      <3>1. /\ pc[t] = "log" /\ UNCHANGED <<edges, first>>
            /\ \/ dir[t] = "out" /\ dir' = [dir EXCEPT ![t] = "in"] /\ UNCHANGED <<pc, cur, edge, at, pred, linked>>
               \/ dir[t] = "in" /\ Return(t)
        BY <1>0, <2>4, UnlinkLogIs
      <3>2. CASE dir[t] = "out" /\ dir' = [dir EXCEPT ![t] = "in"] /\ UNCHANGED <<pc, cur, edge, at, pred, linked>>
        <4>1. edge[t] = edges[cur[t]]
          BY <3>1 DEF Inv, CopyInv, Unlinks
        <4> QED
          BY <1>0, <3>1, <3>2, <4>1 DEF Types, Unlinks
      <3>3. CASE dir[t] = "in" /\ Return(t)
        BY <1>0, <3>1, <3>3, ReturnIs DEF Unlinks
      <3> QED
        BY <3>1, <3>2, <3>3
    <2> QED
      BY <2>1, <2>2, <2>3, <2>4
  <1>3. AllKept /\ AllGroupsKept
    BY <1>1, <1>2, StillKept
  <1>4. ChainInv'
    BY <1>3, ChainsAfter DEF Inv
  <1>5. SearchInv'
    <2>1. \A u \in Threads : pc[u] # "idle" => edges'[cur[u]].end = edges[cur[u]].end
      BY <1>2
    <2> QED
      BY <1>2, <1>3, <2>1, SearchesAfter
  <1>6. CopyInv'
    <2>1. CopyInv /\ \A u \in Threads \ {t} : Unlinks(u) => edges'[cur[u]] = edges[cur[u]]
      BY <1>2 DEF Inv
    <2> QED
      BY <1>2, <2>1, CopiesAfter
  <1> QED
    BY <1>3, <1>4, <1>5, <1>6 DEF Inv

\* LinkOne.
LEMMA InvLinkOne ==
  ASSUME Inv, Base', NEW t \in Threads, LinkOne(t)
  PROVE  Inv'
  <1>0. Base /\ Types
    BY DEF Inv, Base
  <1>1. /\ pc[t] = "link" /\ cur[t] \in Ids /\ edges[cur[t]] \in Edge /\ dir[t] \in Dirs /\ End(t) \in Nodes
        /\ first[dir[t]][End(t)] \in Links
        /\ edges' = [edges EXCEPT ![cur[t]].next[dir[t]] = first[dir[t]][End(t)]]
        /\ Onward(t, "link", "link_log") /\ UNCHANGED <<cur, edge, at, linked>>
    BY <1>0, LinkOneIs
  <1>2. PICK d \in Dirs : d = dir[t]
    BY <1>1
  <1>3. PICK n \in Nodes : n = edges[cur[t]].end[d]
    BY <1>1, <1>2 DEF End
  <1>4. Pushes(d, n, cur[t])
    BY <1>0, <1>2, <1>3, LinkPushes
  <1>5. /\ \A u \in Threads \ {t} : pc'[u] = pc[u] /\ dir'[u] = dir[u]
        /\ pc'[t] \in {"link", "link_log"}
    <2>1. "link" \in Places /\ "link_log" \in Places
      BY DEF Places
    <2> QED
      BY <1>0, <1>1, <2>1, OnwardIs
  <1>6. Relinked(cur[t], dir[t], first[dir[t]][End(t)])
    BY <1>0, <1>1, RelinkIs DEF Types
  <1>7. /\ \A j \in Ids \ {cur[t]} : edges'[j] = edges[j]
        /\ \A j \in Ids : edges'[j].end = edges[j].end
    BY <1>6 DEF Relinked
  <1>8. ChainInv'
    BY <1>1, <1>4, ChainsAfter DEF Inv
  <1>9. SearchInv'
    <2>1. \A u \in Threads : pc[u] # "idle" => edges'[cur[u]].end = edges[cur[u]].end
      BY <1>0, <1>7 DEF Base, Basic
    <2>2. Elsewhere(d, n)
      BY <1>4 DEF Pushes
    <2>3. pc[t] # "idle" /\ \E e \in Dirs, m \in Nodes : e = dir[t] /\ m = edges[cur[t]].end[e] /\ Elsewhere(e, m)
      BY <1>1, <1>2, <1>3, <2>2
    <2>4. \A u \in Threads \ {t} : pc'[u] = pc[u] /\ dir'[u] = dir[u] /\ cur'[u] = cur[u] /\ at'[u] = at[u]
      BY <1>1, <1>5
    <2>5. pc'[t] # "search"
      BY <1>5
    <2> QED
      BY <2>1, <2>3, <2>4, <2>5, SearchesAfter
  <1>10. CopyInv'
    <2>1. \A u \in Threads \ {t} : Unlinks(u) => edges'[cur[u]] = edges[cur[u]]
      <3> SUFFICES ASSUME NEW u \in Threads \ {t}, Unlinks(u) PROVE edges'[cur[u]] = edges[cur[u]]
        OBVIOUS
      <3>1. pc[u] # "idle" /\ pc[t] # "idle" /\ cur[u] \in Ids
        BY <1>0, <1>1 DEF Unlinks, Base, Basic
      <3>2. cur[u] # cur[t]
        BY <1>0, <3>1, CursDiffer
      <3> QED
        BY <1>7, <3>1, <3>2
    <2>2. \A u \in Threads \ {t} : pc'[u] = pc[u] /\ cur'[u] = cur[u] /\ edge'[u] = edge[u]
      BY <1>1, <1>5
    <2>3. ~Unlinks(t)' /\ CopyInv
      BY <1>5 DEF Unlinks, Inv
    <2> QED
      BY <2>1, <2>2, <2>3, CopiesAfter
  <1> QED
    BY <1>8, <1>9, <1>10 DEF Inv

\* UnlinkHead.
LEMMA InvUnlinkHead ==
  ASSUME Inv, Base', NEW t \in Threads, UnlinkHead(t)
  PROVE  Inv'
  <1>0. Base /\ Types
    BY DEF Inv, Base
  <1>1. /\ pc[t] = "unlink" /\ cur[t] \in Ids /\ edges[cur[t]] \in Edge /\ dir[t] \in Dirs /\ End(t) \in Nodes
        /\ UNCHANGED <<edges, cur, edge, linked>>
    BY <1>0, UnlinkHeadIs
  <1>2. PICK d \in Dirs : d = dir[t]
    BY <1>1
  <1>3. PICK n \in Nodes : n = edges[cur[t]].end[d]
    BY <1>1, <1>2 DEF End
  <1>4. End(t) = n /\ first[dir[t]][End(t)] = first[d][n]
    BY <1>2, <1>3 DEF End
  <1>5. /\ \A u \in Threads : pc[u] # "idle" => edges'[cur[u]].end = edges[cur[u]].end
        /\ \A u \in Threads \ {t} : pc'[u] = pc[u] /\ dir'[u] = dir[u] /\ cur'[u] = cur[u] /\ at'[u] = at[u]
        /\ pc'[t] \in {"unlink", "search", "log"}
    <2>1. CASE first[d][n] = cur[t]
      <3>1. Onward(t, "unlink", "log") /\ UNCHANGED at
        BY <1>0, <1>4, <2>1, UnlinkHeadIs
      <3> QED
        BY <1>0, <1>1, <3>1, OnwardUnlink
    <2>2. CASE first[d][n] # cur[t]
      <3>1. /\ at' = [at EXCEPT ![t] = first[dir[t]][End(t)]] /\ pc' = [pc EXCEPT ![t] = "search"]
            /\ UNCHANGED dir
        BY <1>0, <1>4, <2>2, UnlinkHeadIs
      <3> QED
        BY <1>0, <1>1, <3>1 DEF Types
    <2> QED
      BY <2>1, <2>2
  <1>6. CopyInv'
    <2>1. \A u \in Threads \ {t} : pc'[u] = pc[u] /\ cur'[u] = cur[u] /\ edge'[u] = edge[u]
      BY <1>1, <1>5
    <2>2. edge'[t] = edges'[cur'[t]] /\ CopyInv
      BY <1>1 DEF Inv, CopyInv, Unlinks
    <2>3. \A u \in Threads \ {t} : Unlinks(u) => edges'[cur[u]] = edges[cur[u]]
      BY <1>1
    <2> QED
      BY <2>1, <2>2, <2>3, CopiesAfter
  <1>7. CASE first[d][n] = cur[t]
    <2>1. Drops(d, n, cur[t])
      BY <1>2, <1>3, <1>7, HeadDrops
    <2>2. ChainInv'
      BY <1>1, <2>1, ChainsAfter DEF Inv
    <2>3. pc'[t] # "search"
      <3>1. Onward(t, "unlink", "log")
        BY <1>0, <1>4, <1>7, UnlinkHeadIs
      <3> QED
        BY <1>0, <1>1, <3>1, OnwardUnlink
    <2>4. Elsewhere(d, n)
      BY <2>1 DEF Drops
    <2>5. pc[t] # "idle" /\ \E e \in Dirs, m \in Nodes : e = dir[t] /\ m = edges[cur[t]].end[e] /\ Elsewhere(e, m)
      BY <1>1, <1>2, <1>3, <2>4
    <2>6. SearchInv'
      BY <1>5, <2>3, <2>5, SearchesAfter
    <2> QED
      BY <1>6, <2>2, <2>6 DEF Inv
  <1>8. CASE first[d][n] # cur[t]
    <2>1. AllKept
      BY <1>0, <1>4, <1>8, HeadKept
    <2>2. ChainInv'
      BY <2>1, ChainsAfter DEF Inv
    <2>3. dir'[t] = d /\ at'[t] = first[d][n] /\ cur'[t] = cur[t]
      BY <1>0, <1>1, <1>2, <1>4, <1>8, UnlinkHeadIs DEF Types
    <2>4. Sought(Follow(d), first[d][n], On(d, n), first[d][n], cur[t])
      <3>1. PICK k, s : Path(Follow(d), first[d][n], On(d, n), k, s)
        BY DEF Inv, ChainInv
      <3> QED
        BY <1>8, <3>1, SoughtStart
    <2>5. Sought(Follow(d)', first'[d][n], On(d, n)', at'[t], cur'[t])
      BY <2>1, <2>3, <2>4, SoughtKept DEF AllKept
    <2>6. ASSUME NEW e \in Dirs, NEW m \in Nodes,
                 pc'[t] = "search" /\ dir'[t] = e /\ edges'[cur'[t]].end[e] = m
          PROVE  Sought(Follow(e)', first'[e][m], On(e, m)', at'[t], cur'[t])
      <3>1. e = d /\ m = n
        BY <1>1, <1>3, <2>3, <2>6
      <3> QED
        BY <2>5, <3>1
    <2>7. SearchInv'
      BY <1>5, <2>1, <2>6, SearchesAfter
    <2> QED
      BY <1>6, <2>2, <2>7 DEF Inv
  <1> QED
    BY <1>7, <1>8

\* Search.
LEMMA InvSearch ==
  ASSUME Inv, Base', NEW t \in Threads, Search(t)
  PROVE  Inv'
  <1>0. Base /\ Types
    BY DEF Inv, Base
  <1>1. /\ pc[t] = "search" /\ cur[t] \in Ids /\ edges[cur[t]] \in Edge /\ dir[t] \in Dirs /\ End(t) \in Nodes
        /\ edge[t].next[dir[t]] \in Links /\ at[t] \in Links /\ UNCHANGED <<first, cur, edge, linked>>
    BY <1>0, SearchIs
  <1>2. PICK d \in Dirs : d = dir[t]
    BY <1>1
  <1>3. PICK n \in Nodes : n = edges[cur[t]].end[d]
    BY <1>1, <1>2 DEF End
  <1>4. Sought(Follow(d), first[d][n], On(d, n), at[t], cur[t])
    BY <1>1, <1>2, <1>3 DEF Inv, SearchInv
  <1>5. edge[t] = edges[cur[t]] /\ CopyInv
    BY <1>1 DEF Inv, CopyInv, Unlinks
  <1>6. CASE at[t] \in Ids /\ edges[at[t]] # Absent /\ edges[at[t]].next[d] = cur[t]
    <2>1. Drops(d, n, cur[t]) /\ at[t] \in On(d, n) /\ at[t] # cur[t]
      BY <1>2, <1>3, <1>6, FoundDrops
    <2>2. /\ edges[at[t]] \in Edge /\ edges' = [edges EXCEPT ![at[t]].next[dir[t]] = edge[t].next[dir[t]]]
          /\ Onward(t, "unlink", "log") /\ UNCHANGED at
      BY <1>0, <1>2, <1>6, SearchIs
    <2>3. Relinked(at[t], dir[t], edge[t].next[dir[t]])
      BY <1>0, <1>1, <1>6, <2>2, RelinkIs DEF Types
    <2>4. /\ \A j \in Ids \ {at[t]} : edges'[j] = edges[j]
          /\ \A j \in Ids : edges'[j].end = edges[j].end
      BY <2>3 DEF Relinked
    <2>5. /\ \A u \in Threads \ {t} : pc'[u] = pc[u] /\ dir'[u] = dir[u] /\ cur'[u] = cur[u] /\ at'[u] = at[u] /\ edge'[u] = edge[u]
          /\ pc'[t] # "search"
      BY <1>0, <1>1, <2>2, OnwardUnlink
    <2>6. ChainInv'
      BY <1>1, <2>1, ChainsAfter DEF Inv
    <2>7. SearchInv'
      <3>1. \A u \in Threads : pc[u] # "idle" => edges'[cur[u]].end = edges[cur[u]].end
        BY <1>0, <2>4 DEF Base, Basic
      <3>2. Elsewhere(d, n)
        BY <2>1 DEF Drops
      <3>3. pc[t] # "idle" /\ \E e \in Dirs, m \in Nodes : e = dir[t] /\ m = edges[cur[t]].end[e] /\ Elsewhere(e, m)
        BY <1>1, <1>2, <1>3, <3>2
      <3> QED
        BY <2>5, <3>1, <3>3, SearchesAfter
    <2>8. CopyInv'
      <3>1. \A u \in Threads \ {t} : Unlinks(u) => edges'[cur[u]] = edges[cur[u]]
        <4> SUFFICES ASSUME NEW u \in Threads \ {t}, Unlinks(u) PROVE edges'[cur[u]] = edges[cur[u]]
          OBVIOUS
        <4>1. pc[u] # "idle" /\ pc[t] # "idle" /\ cur[u] \in Ids
          BY <1>0, <1>1 DEF Unlinks, Base, Basic
        <4>2. edges[cur[u]].end[d] # n
          BY <1>0, <1>3, <4>1 DEF Base, Apart
        <4>3. edges[at[t]].end[d] = n
          BY <2>1 DEF On, Group
        <4> QED
          BY <2>4, <4>1, <4>2, <4>3
      <3>2. edge'[t] = edges'[cur'[t]]
        BY <1>1, <1>5, <2>1, <2>4
      <3>3. \A u \in Threads \ {t} : pc'[u] = pc[u] /\ cur'[u] = cur[u] /\ edge'[u] = edge[u]
        BY <2>5
      <3> QED
        BY <1>5, <3>1, <3>2, <3>3, CopiesAfter
    <2> QED
      BY <2>6, <2>7, <2>8 DEF Inv
  <1>7. CASE ~(at[t] \in Ids /\ edges[at[t]] # Absent /\ edges[at[t]].next[d] = cur[t])
    <2>1. AllKept
      BY <1>2, <1>7, SearchKept
    <2>2. ChainInv'
      BY <2>1, ChainsAfter DEF Inv
    <2>3. /\ UNCHANGED edges
          /\ \A u \in Threads \ {t} : pc'[u] = pc[u] /\ dir'[u] = dir[u] /\ at'[u] = at[u]
          /\ \/ pc'[t] # "search"
             \/ /\ at[t] \in Ids /\ edges[at[t]] # Absent /\ edges[at[t]].next[d] # cur[t]
                /\ at'[t] = edges[at[t]].next[d] /\ dir'[t] = d
      <3>1. \/ /\ at[t] \notin Ids \/ edges[at[t]] = Absent
               /\ Onward(t, "unlink", "log") /\ UNCHANGED <<edges, at>>
            \/ /\ at[t] \in Ids /\ edges[at[t]] \in Edge /\ edges[at[t]].next[dir[t]] # cur[t]
               /\ at' = [at EXCEPT ![t] = edges[at[t]].next[dir[t]]]
               /\ UNCHANGED <<edges, pc, dir>>
        BY <1>0, <1>2, <1>7, SearchIs, AbsentAssumption
      <3>2. CASE /\ at[t] \notin Ids \/ edges[at[t]] = Absent
                 /\ Onward(t, "unlink", "log") /\ UNCHANGED <<edges, at>>
        BY <1>0, <1>1, <3>2, OnwardUnlink
      <3>3. CASE /\ at[t] \in Ids /\ edges[at[t]] \in Edge /\ edges[at[t]].next[dir[t]] # cur[t]
                 /\ at' = [at EXCEPT ![t] = edges[at[t]].next[dir[t]]]
                 /\ UNCHANGED <<edges, pc, dir>>
        BY <1>0, <1>2, <3>3, AbsentAssumption DEF Types
      <3> QED
        BY <3>1, <3>2, <3>3
    <2>4. ASSUME NEW e \in Dirs, NEW m \in Nodes,
                 pc'[t] = "search" /\ dir'[t] = e /\ edges'[cur'[t]].end[e] = m
          PROVE  Sought(Follow(e)', first'[e][m], On(e, m)', at'[t], cur'[t])
      <3>1. /\ at[t] \in Ids /\ edges[at[t]] # Absent /\ edges[at[t]].next[d] # cur[t]
            /\ at'[t] = edges[at[t]].next[d] /\ e = d /\ m = n /\ cur'[t] = cur[t]
        BY <1>1, <1>3, <2>3, <2>4
      <3>2. Follow(d)[at[t]] = at'[t]
        BY <3>1 DEF Follow
      <3>3. Sought(Follow(d), first[d][n], On(d, n), at'[t], cur[t])
        <4>1. Follow(d)[at[t]] # cur[t] => Sought(Follow(d), first[d][n], On(d, n), Follow(d)[at[t]], cur[t])
          BY <1>4, <3>1, SoughtNext, OnIn
        <4> QED
          BY <3>1, <3>2, <4>1
      <3>4. Sought(Follow(d)', first'[d][n], On(d, n)', at'[t], cur[t])
        BY <2>1, <3>3, SoughtKept DEF AllKept
      <3> QED
        BY <3>1, <3>4
    <2>5. SearchInv'
      <3>1. \A u \in Threads \ {t} : pc'[u] = pc[u] /\ dir'[u] = dir[u] /\ cur'[u] = cur[u] /\ at'[u] = at[u]
        BY <1>1, <2>3
      <3>2. \A u \in Threads : pc[u] # "idle" => edges'[cur[u]].end = edges[cur[u]].end
        BY <2>3
      <3> QED
        BY <2>1, <2>4, <3>1, <3>2, SearchesAfter
    <2>6. CopyInv'
      <3>1. \A u \in Threads \ {t} : pc'[u] = pc[u] /\ cur'[u] = cur[u] /\ edge'[u] = edge[u]
        BY <1>1, <2>3
      <3>2. edge'[t] = edges'[cur'[t]] /\ \A u \in Threads \ {t} : Unlinks(u) => edges'[cur[u]] = edges[cur[u]]
        BY <1>1, <1>5, <2>3
      <3> QED
        BY <1>5, <3>1, <3>2, CopiesAfter
    <2> QED
      BY <2>2, <2>5, <2>6 DEF Inv
  <1> QED
    BY <1>6, <1>7

\* Walks change neither chains nor calls.
LEMMA InvSame ==
  ASSUME Inv, UNCHANGED <<edges, first, stored, call, linked>>
  PROVE  Inv' /\ AllKept /\ AllGroupsKept
  <1>1. UNCHANGED <<pc, dir, cur, edge, at, pred>>
    BY DEF call
  <1>2. Base'
    BY <1>1, BaseSame DEF Inv
  <1>3. AllKept /\ AllGroupsKept
    BY <1>1, ChainedSame, StillKept
  <1> QED
    BY <1>1, <1>2, <1>3, InvOutside

\* In the first state all chains are empty.
LEMMA InitInv == Init => Inv
  <1> SUFFICES ASSUME Init PROVE Inv
    OBVIOUS
  <1>1. Base
    BY InitBase
  <1>2. SearchInv /\ CopyInv
    BY DEF Init, SearchInv, CopyInv, Unlinks
  <1>3. ASSUME NEW d \in Dirs, NEW n \in Nodes PROVE \E k, s : Path(Follow(d), first[d][n], On(d, n), k, s)
    <2>1. On(d, n) = {} /\ first[d][n] = NULL_EDGE
      BY DEF Init, On, Group
    <2> DEFINE s == [i \in 1 .. 0 + 1 |-> NULL_EDGE]
    <2>2. 0 \in Nat /\ s \in [1 .. 0 + 1 -> Links] /\ s[1] = NULL_EDGE /\ s[0 + 1] = NULL_EDGE
      BY DEF Links
    <2>3. \A i \in 1 .. 0 : FALSE
      OBVIOUS
    <2> HIDE DEF s
    <2>4. Path(Follow(d), first[d][n], On(d, n), 0, s)
      BY <2>1, <2>2, <2>3 DEF Path
    <2> QED
      BY <2>4
  <1> QED
    BY <1>1, <1>2, <1>3 DEF Inv, ChainInv

\* Every step keeps the chains.
LEMMA InvStep == Inv /\ [Next]_vars => Inv'
  <1> SUFFICES ASSUME Inv, [Next]_vars PROVE Inv'
    OBVIOUS
  <1>0. Base'
    BY BaseStep DEF Inv
  <1>1. CASE \E id \in Ids : (\E ends \in Ends : insert_edge(id, ends[1], ends[2])) \/ hard_delete(id)
    BY <1>0, <1>1, InvMap
  <1>2. CASE \E t \in Threads : (\E id \in Ids : link_into_chains(t, id) \/ unlink_from_chains(t, id)) \/ LinkLog(t) \/ UnlinkLog(t)
    BY <1>0, <1>2, InvStill
  <1>3. CASE \E t \in Threads : LinkOne(t)
    BY <1>0, <1>3, InvLinkOne
  <1>4. CASE \E t \in Threads : UnlinkHead(t)
    BY <1>0, <1>4, InvUnlinkHead
  <1>5. CASE \E t \in Threads : Search(t)
    BY <1>0, <1>5, InvSearch
  <1>6. CASE \E w \in Walkers : (\E d \in Dirs, n \in Nodes : StartWalk(w, d, n)) \/ WalkOn(w) \/ WalkEnd(w)
    <2>1. UNCHANGED <<edges, first, stored, call, linked>>
      BY <1>6, WalksRead
    <2> QED
      BY <2>1, InvSame
  <1>7. CASE UNCHANGED vars
    BY <1>7, InvSame DEF vars
  <1> QED
    BY <1>1, <1>2, <1>3, <1>4, <1>5, <1>6, <1>7 DEF Next

\* In every state the chains are sequences of the edges that the calls have put on them.
THEOREM ChainsStay == Spec => []Inv
  <1>1. Init => Inv
    BY InitInv
  <1>2. Inv /\ [Next]_vars => Inv'
    BY InvStep
  <1> QED
    BY <1>1, <1>2, PTL DEF Spec

-----------------------------------------------------------------------------
(* What Nth computes                                                       *)

\* One turn of a loop along a chain of the map m.
Turn(m, d, a) == IF a \notin {id \in Ids : m[id] # Absent} THEN NULL_EDGE ELSE m[a].next[d]

\* A turn ends at a link.
LEMMA TurnIs ==
  ASSUME NEW m \in [Ids -> Edge \cup {Absent}], NEW d \in Dirs, NEW a
  PROVE  Turn(m, d, a) \in Links
  <1>1. CASE a \in Ids /\ m[a] # Absent
    <2>1. m[a] \in Edge
      BY <1>1
    <2>2. m[a].next[d] \in Links
      BY <2>1, EdgeIs
    <2> QED
      BY <1>1, <2>2 DEF Turn
  <1>2. CASE ~(a \in Ids /\ m[a] # Absent)
    BY <1>2 DEF Turn, Links
  <1> QED
    BY <1>1, <1>2

\* Nth is what its recursion says.
LEMMA NthIs ==
  ASSUME NEW m \in [Ids -> Edge \cup {Absent}], NEW d \in Dirs, NEW h \in Links
  PROVE  /\ Cardinality(Ids) \in Nat /\ Nth(m, d, h) \in [0 .. Cardinality(Ids) -> Links] /\ Nth(m, d, h)[0] = h
         /\ \A n \in 1 .. Cardinality(Ids) : Nth(m, d, h)[n] = Turn(m, d, Nth(m, d, h)[n - 1])
  <1> DEFINE N == Cardinality(Ids)
             Goes(f, n) == f[0] = h /\ \A j \in 1 .. n : f[j] = Turn(m, d, f[j - 1])
             S == {n \in 0 .. N : \E f \in [0 .. n -> Links] : Goes(f, n)}
             Unfold(f) == [n \in 0 .. N |-> IF n = 0 THEN h ELSE Turn(m, d, f[n - 1])]
  <1>0. N \in Nat
    BY IdsAssumption, FS_CardinalityType
  <1> HIDE DEF N
  <1>1. 0 \in S
    <2> DEFINE f == [j \in 0 .. 0 |-> h]
    <2>1. f \in [0 .. 0 -> Links] /\ f[0] = h
      OBVIOUS
    <2>2. 0 \in 0 .. N /\ \A j \in 1 .. 0 : FALSE
      BY <1>0
    <2> HIDE DEF f
    <2>3. Goes(f, 0)
      BY <2>1, <2>2
    <2> QED
      BY <2>1, <2>2, <2>3
  <1>2. ASSUME NEW n \in 0 .. N - 1, n \in S PROVE n + 1 \in S
    <2>1. PICK f \in [0 .. n -> Links] : Goes(f, n)
      BY <1>2
    <2> DEFINE g == [j \in 0 .. n + 1 |-> IF j <= n THEN f[j] ELSE Turn(m, d, f[n])]
    <2>2. n \in 0 .. n /\ n + 1 \in 1 .. N /\ n + 1 \in 0 .. N /\ n \in Nat
      BY <1>0
    <2>3. Turn(m, d, f[n]) \in Links
      BY TurnIs
    <2>4. g \in [0 .. n + 1 -> Links]
      BY <2>1, <2>2, <2>3
    <2>5. \A j \in 0 .. n : j \in 0 .. n + 1 /\ g[j] = f[j]
      BY <2>2
    <2>6. g[n + 1] = Turn(m, d, g[n])
      BY <2>2, <2>5
    <2> HIDE DEF g
    <2>7. ASSUME NEW j \in 1 .. n + 1 PROVE g[j] = Turn(m, d, g[j - 1])
      <3>1. CASE j = n + 1
        BY <2>2, <2>6, <3>1
      <3>2. CASE j # n + 1
        <4>1. j \in 1 .. n /\ j \in 0 .. n /\ j - 1 \in 0 .. n
          BY <2>2, <2>7, <3>2
        <4> QED
          BY <2>1, <2>5, <4>1
      <3> QED
        BY <3>1, <3>2
    <2>8. Goes(g, n + 1)
      BY <2>1, <2>2, <2>5, <2>7
    <2> QED
      BY <2>2, <2>4, <2>8
  <1>3. PICK f \in [0 .. N -> Links] : Goes(f, N)
    <2>1. \A n \in 0 .. N : n \in S
      <3> HIDE DEF S
      <3> QED
        BY <1>0, <1>1, <1>2, UpTo
    <2>2. N \in 0 .. N
      BY <1>0
    <2> QED
      BY <2>1, <2>2
  <1>4. f = Unfold(f)
    <2>1. \A n \in 0 .. N : f[n] = IF n = 0 THEN h ELSE Turn(m, d, f[n - 1])
      BY <1>0, <1>3
    <2> QED
      BY <2>1
  <1>5. Nth(m, d, h) = CHOOSE g : g = Unfold(g)
    BY DEF Nth, N, Turn
  <1>6. Nth(m, d, h) = Unfold(Nth(m, d, h))
    <2> DEFINE P(g) == g = Unfold(g)
    <2>1. P(f) /\ Nth(m, d, h) = CHOOSE g : P(g)
      BY <1>4, <1>5
    <2>2. P(CHOOSE g : P(g))
      <3> HIDE DEF P
      <3> QED
        BY <2>1
    <2> QED
      BY <2>1, <2>2
  <1> DEFINE nth == Nth(m, d, h)
  <1>7. nth = [n \in 0 .. N |-> IF n = 0 THEN h ELSE Turn(m, d, nth[n - 1])]
    BY <1>6
  <1> HIDE DEF nth
  <1>8. nth[0] = h /\ \A n \in 1 .. N : nth[n] = Turn(m, d, nth[n - 1])
    BY <1>0, <1>7
  <1>9. \A n \in 0 .. N : (IF n = 0 THEN h ELSE Turn(m, d, nth[n - 1])) \in Links
    BY TurnIs
  <1>10. nth \in [0 .. N -> Links]
    BY <1>7, <1>9
  <1> QED
    BY <1>0, <1>8, <1>10 DEF N, nth

\* A chain has as many places as edges.
LEMMA PathSize ==
  ASSUME NEW nx, NEW S \in SUBSET Ids, NEW h, NEW k, NEW s, Path(nx, h, S, k, s)
  PROVE  k = Cardinality(S) /\ k <= Cardinality(Ids) /\ Cardinality(Ids) \in Nat
  <1>1. /\ k \in Nat /\ s \in [1 .. k + 1 -> Links] /\ (\A i \in 1 .. k : s[i] \in S)
        /\ (\A x \in S : \E i \in 1 .. k : s[i] = x) /\ (\A i, j \in 1 .. k : s[i] = s[j] => i = j)
    BY DEF Path
  <1> DEFINE f == [i \in 1 .. k |-> s[i]]
  <1>2. f \in [1 .. k -> S] /\ (\A x \in S : \E i \in 1 .. k : f[i] = x) /\ (\A i, j \in 1 .. k : f[i] = f[j] => i = j)
    BY <1>1
  <1> HIDE DEF f
  <1>3. f \in Bijection(1 .. k, S)
    BY <1>2 DEF Bijection, Injection, Surjection, IsInjective
  <1>4. ExistsBijection(1 .. k, S)
    BY <1>3 DEF ExistsBijection
  <1>5. Cardinality(S) = k
    BY <1>1, <1>4, FS_CountingElements
  <1>6. Cardinality(S) <= Cardinality(Ids) /\ Cardinality(Ids) \in Nat
    BY IdsAssumption, FS_Subset, FS_CardinalityType
  <1> QED
    BY <1>5, <1>6

\* Along a chain that is in order, Nth gives its edges one by one.
LEMMA NthPath ==
  ASSUME NEW m \in [Ids -> Edge \cup {Absent}], NEW d \in Dirs, NEW h \in Links, NEW nx, NEW S \in SUBSET Ids,
         NEW k, NEW s, Path(nx, h, S, k, s), \A x \in S : m[x] # Absent /\ m[x].next[d] = nx[x]
  PROVE  {Nth(m, d, h)[j] : j \in 0 .. Cardinality(S) - 1} = S /\ Nth(m, d, h)[Cardinality(S)] = NULL_EDGE
  <1> DEFINE nth == Nth(m, d, h)
             N == Cardinality(Ids)
             T == {j \in 0 .. k : nth[j] = s[j + 1]}
  <1>1. nth[0] = h /\ \A n \in 1 .. N : nth[n] = Turn(m, d, nth[n - 1])
    BY NthIs
  <1>2. k = Cardinality(S) /\ k <= N /\ N \in Nat
    BY PathSize
  <1> HIDE DEF nth, N
  <1>3. k \in Nat /\ s[1] = h /\ s[k + 1] = NULL_EDGE /\ (\A i \in 1 .. k : s[i] \in S /\ nx[s[i]] = s[i + 1])
    BY DEF Path
  <1>4. 0 \in T
    BY <1>1, <1>3
  <1>5. ASSUME NEW j \in 0 .. k - 1, j \in T PROVE j + 1 \in T
    <2>1. j + 1 \in 1 .. k /\ j + 1 \in 1 .. N /\ j + 1 \in 0 .. k /\ (j + 1) - 1 = j
      BY <1>2, <1>3
    <2>2. nth[j] = s[j + 1]
      BY <1>5
    <2>3. s[j + 1] \in S /\ nx[s[j + 1]] = s[(j + 1) + 1]
      BY <1>3, <2>1
    <2>4. Turn(m, d, nth[j]) = s[(j + 1) + 1]
      BY <2>2, <2>3 DEF Turn
    <2>5. nth[j + 1] = Turn(m, d, nth[j])
      BY <1>1, <2>1
    <2> QED
      BY <2>1, <2>4, <2>5
  <1>6. \A j \in 0 .. k : j \in T
    <2> HIDE DEF T
    <2> QED
      BY <1>3, <1>4, <1>5, UpTo
  <1>7. \A j \in 0 .. k : nth[j] = s[j + 1]
    BY <1>6
  <1>8. nth[k] = NULL_EDGE
    BY <1>3, <1>7
  <1>9. ASSUME NEW x \in S PROVE x \in {nth[j] : j \in 0 .. k - 1}
    <2>1. PICK i \in 1 .. k : s[i] = x
      BY DEF Path
    <2>2. i - 1 \in 0 .. k - 1 /\ i - 1 \in 0 .. k /\ (i - 1) + 1 = i
      BY <1>3
    <2>3. nth[i - 1] = x
      BY <1>7, <2>1, <2>2
    <2> QED
      BY <2>2, <2>3
  <1>10. ASSUME NEW j \in 0 .. k - 1 PROVE nth[j] \in S
    <2>1. j + 1 \in 1 .. k /\ j \in 0 .. k
      BY <1>3
    <2> QED
      BY <1>3, <1>7, <2>1
  <1>11. {nth[j] : j \in 0 .. k - 1} = S
    BY <1>9, <1>10
  <1> QED
    BY <1>2, <1>8, <1>11 DEF nth

\* On a chain nobody has borrowed are the linked edges of its node.
LEMMA Unborrowed ==
  ASSUME Base, NEW d \in Dirs, NEW n \in Nodes, <<d, n>> \notin Borrowed
  PROVE  /\ On(d, n) = {id \in linked : edges[id].end[d] = n}
         /\ \A t \in Threads : pc[t] # "idle" => cur[t] \notin On(d, n)
  <1> DEFINE mine == {id \in linked : edges[id].end[d] = n}
  <1>1. ASSUME NEW t \in Threads, pc[t] # "idle" PROVE edges[cur[t]].end[d] # n
    <2>1. t \in InCall /\ Heads(cur[t]) \subseteq Borrowed
      BY <1>1 DEF InCall, Borrowed
    <2>2. <<d, edges[cur[t]].end[d]>> \in Heads(cur[t])
      BY DEF Heads
    <2> QED
      BY <2>1, <2>2
  <1>2. \A x \in Group(d, n) : Chained(d, x) <=> x \in linked
    <2> SUFFICES ASSUME NEW x \in Group(d, n) PROVE \A t \in Threads : cur[t] # x
      BY ChainedNone
    <2>1. x \in Ids /\ edges[x].end[d] = n
      BY DEF Group
    <2> QED
      BY <1>1, <2>1, IdsAssumption DEF Base, Basic
  <1>3. mine \subseteq Group(d, n)
    BY DEF Base, Types, Group
  <1>4. On(d, n) \subseteq mine
    BY <1>2 DEF On, Group
  <1>5. mine \subseteq On(d, n)
    BY <1>2, <1>3 DEF On
  <1> QED
    BY <1>1, <1>4, <1>5

\* A chain nobody has borrowed is as ChainsAreExact says.
LEMMA InvExact == Inv => ChainsAreExact
  <1> SUFFICES ASSUME Inv PROVE ChainsAreExact
    OBVIOUS
  <1>1. TypeOK
    BY TypeOKIs DEF Inv, Base
  <1>2. ASSUME NEW d \in Dirs, NEW n \in Nodes, <<d, n>> \notin Borrowed
        PROVE  LET nth == Nth(edges, d, first[d][n])
                   mine == {id \in linked : edges[id].end[d] = n}
                   size == Cardinality(mine)
               IN  {nth[k] : k \in 0 .. size - 1} = mine /\ nth[size] = NULL_EDGE
    <2> DEFINE mine == {id \in linked : edges[id].end[d] = n}
    <2>3. mine \subseteq Group(d, n) /\ mine \in SUBSET Ids
      BY DEF Inv, Base, Types, Group
    <2>4. On(d, n) = mine
      BY <1>2, Unborrowed DEF Inv
    <2>5. PICK k, s : Path(Follow(d), first[d][n], On(d, n), k, s)
      BY DEF Inv, ChainInv
    <2>6. \A x \in mine : edges[x] # Absent /\ edges[x].next[d] = Follow(d)[x]
      BY <2>3 DEF Group, Follow
    <2>7. first[d][n] \in Links /\ edges \in [Ids -> Edge \cup {Absent}]
      BY DEF Inv, Base, Types
    <2> HIDE DEF mine
    <2>8. /\ {Nth(edges, d, first[d][n])[k1] : k1 \in 0 .. Cardinality(mine) - 1} = mine
          /\ Nth(edges, d, first[d][n])[Cardinality(mine)] = NULL_EDGE
      BY <2>3, <2>4, <2>5, <2>6, <2>7, NthPath
    <2> QED
      BY <2>8 DEF mine
  <1> QED
    BY <1>1, <1>2 DEF ChainsAreExact

(***************************************************************************)
(* A chain whose head nobody has borrowed holds the linked edges of its    *)
(* node and no others, each once, and ends: whatever link_into_chains and  *)
(* unlink_from_chains do to the other chains, and however the entries they *)
(* change are interleaved.                                                 *)
(***************************************************************************)
THEOREM ChainsStayExact == Spec => []ChainsAreExact
  BY ChainsStay, InvExact, PTL

-----------------------------------------------------------------------------
(* Walks                                                                   *)

WalkTypes ==
    /\ walk \in [Walkers -> [on : BOOLEAN, dir : Dirs, node : Nodes \cup {Absent}, at : Links, found : SUBSET Ids]]
    /\ stable \in [Walkers -> SUBSET Ids]
    /\ \A w \in Walkers : /\ walk[w].on => walk[w].node \in Nodes
                          /\ ~walk[w].on => walk[w].found = {}

\* The edges that stay linked are on the chain, no call takes them out, and
\* those that the walk has not found yet are ahead of it.
WalkOf(w, d, n) ==
    /\ stable[w] \subseteq On(d, n)
    /\ \A t \in Threads : Unlinks(t) => cur[t] \notin stable[w]
    /\ walk[w].found \subseteq Group(d, n)
    /\ Ahead(Follow(d), first[d][n], On(d, n), Group(d, n), walk[w].at, stable[w] \ walk[w].found)

WalkInv ==
    \A w \in Walkers, d \in Dirs, n \in Nodes :
        walk[w].on /\ walk[w].dir = d /\ walk[w].node = n => WalkOf(w, d, n)

\* A walk on a chain that is left alone, pushed to, or dropped from by unlink_from_chains.
LEMMA WalkAfter ==
  ASSUME NEW w \in Walkers, NEW d \in Dirs, NEW n \in Nodes, WalkOf(w, d, n),
         walk'[w] = walk[w], stable'[w] \subseteq stable[w],
         \A t \in Threads : Unlinks(t)' => cur'[t] \notin stable'[w],
         \/ Kept(d, n) /\ KeptGroup(d, n)
         \/ \E x \in Ids : Pushes(d, n, x)
         \/ \E x \in Ids : Drops(d, n, x) /\ x \notin stable[w]
  PROVE  WalkOf(w, d, n)'
  <1> DEFINE S == On(d, n)
             G == Group(d, n)
             h == first[d][n]
             g == first'[d][n]
             nx == Follow(d)
             ny == Follow(d)'
             a == walk[w].at
             U == stable[w] \ walk[w].found
             V == stable'[w] \ walk'[w].found
  <1>1. /\ S \in SUBSET Ids /\ G \in SUBSET Ids /\ S \subseteq G /\ Ahead(nx, h, S, G, a, U)
        /\ V \subseteq U /\ walk'[w].at = a /\ stable[w] \subseteq S /\ walk'[w].found \subseteq G
    BY OnIn DEF WalkOf
  <1>2. SUFFICES stable'[w] \subseteq On(d, n)' /\ G \subseteq Group(d, n)' /\ Ahead(ny, g, On(d, n)', Group(d, n)', a, V)
    BY <1>1 DEF WalkOf
  <1>3. CASE Kept(d, n) /\ KeptGroup(d, n)
    <2>1. On(d, n)' = S /\ g = h /\ G \subseteq Group(d, n)' /\ \A x \in G : ny[x] = nx[x]
      BY <1>3 DEF Kept, KeptGroup
    <2> HIDE DEF S, G, h, nx, ny, g, a, U, V
    <2>2. Ahead(ny, h, S, Group(d, n)', a, V)
      BY <1>1, <2>1, AheadFrame
    <2> QED
      BY <1>1, <2>1, <2>2
  <1>4. CASE \E x \in Ids : Pushes(d, n, x)
    <2>1. PICK x \in Ids : Pushes(d, n, x)
      BY <1>4
    <2>2. /\ x \in Ids \ S /\ On(d, n)' = S \cup {x} /\ Group(d, n)' = G /\ g = x /\ ny[x] = h
          /\ \A y \in G \ {x} : ny[y] = nx[y]
      BY <1>1, <2>1 DEF Pushes
    <2> HIDE DEF S, G, h, nx, ny, g, a, U, V
    <2>3. Ahead(ny, x, S \cup {x}, G, a, U)
      BY <1>1, <2>2, AheadPush
    <2>4. S \cup {x} \subseteq G
      BY <1>1, <2>1 DEF Pushes, S, G
    <2>5. Ahead(ny, x, S \cup {x}, G, a, V)
      BY <1>1, <2>3, <2>4, AheadFrame
    <2> QED
      BY <1>1, <2>2, <2>5
  <1>5. CASE \E x \in Ids : Drops(d, n, x) /\ x \notin stable[w]
    <2>1. PICK x \in Ids : Drops(d, n, x) /\ x \notin stable[w]
      BY <1>5
    <2>2. /\ x \in S /\ x \notin U /\ On(d, n)' = S \ {x} /\ Group(d, n)' = G
          /\ TakesOut(nx, ny, h, g, S, G, x)
      BY <2>1 DEF Drops
    <2> HIDE DEF S, G, h, nx, ny, g, a, U, V
    <2>3. Ahead(ny, g, S \ {x}, G, a, U)
      BY <1>1, <2>2, AheadTakeOut
    <2>4. S \ {x} \subseteq G
      BY <1>1
    <2>5. Ahead(ny, g, S \ {x}, G, a, V)
      BY <1>1, <2>3, <2>4, AheadFrame
    <2> QED
      BY <1>1, <2>1, <2>2, <2>5
  <1> QED
    BY <1>3, <1>4, <1>5

\* What a step does to the chains, and that it keeps the walks.
Moves ==
    \/ AllKept /\ AllGroupsKept
    \/ \E d \in Dirs, n \in Nodes, x \in Ids : Pushes(d, n, x)
    \/ \E d \in Dirs, n \in Nodes, t \in Threads : cur[t] \in Ids /\ Drops(d, n, cur[t]) /\ Unlinks(t)

Spares ==
    /\ UNCHANGED walk /\ stable' \in [Walkers -> SUBSET Ids]
    /\ \A w \in Walkers :
         /\ stable'[w] \subseteq stable[w]
         /\ \A t \in Threads : Unlinks(t)' => cur'[t] \notin stable'[w] \/ (Unlinks(t) /\ cur'[t] = cur[t])

\* Such a step leaves every walk in order.
LEMMA WalksAfter ==
  ASSUME WalkTypes, WalkInv, Moves, Spares
  PROVE  WalkTypes' /\ WalkInv'
  <1>1. WalkTypes'
    BY DEF WalkTypes, Spares
  <1>2. ASSUME NEW w \in Walkers, NEW d \in Dirs, NEW n \in Nodes,
               walk'[w].on /\ walk'[w].dir = d /\ walk'[w].node = n
        PROVE  WalkOf(w, d, n)'
    <2>1. WalkOf(w, d, n) /\ walk'[w] = walk[w] /\ stable'[w] \subseteq stable[w]
      BY <1>2 DEF WalkInv, Spares
    <2>2. \A t \in Threads : Unlinks(t)' => cur'[t] \notin stable'[w]
      BY <2>1 DEF Spares, WalkOf
    <2>3. \/ Kept(d, n) /\ KeptGroup(d, n)
          \/ \E x \in Ids : Pushes(d, n, x)
          \/ \E x \in Ids : Drops(d, n, x) /\ x \notin stable[w]
      <3>1. CASE AllKept /\ AllGroupsKept
        BY <3>1 DEF AllKept, AllGroupsKept
      <3>2. CASE \E e \in Dirs, m \in Nodes, x \in Ids : Pushes(e, m, x)
        <4>1. PICK e \in Dirs, m \in Nodes, x \in Ids : Pushes(e, m, x)
          BY <3>2
        <4>2. CASE d = e /\ n = m
          BY <4>1, <4>2
        <4>3. CASE ~(d = e /\ n = m)
          BY <4>1, <4>3 DEF Pushes, Elsewhere
        <4> QED
          BY <4>2, <4>3
      <3>3. CASE \E e \in Dirs, m \in Nodes, t \in Threads : cur[t] \in Ids /\ Drops(e, m, cur[t]) /\ Unlinks(t)
        <4>1. PICK e \in Dirs, m \in Nodes, t \in Threads : cur[t] \in Ids /\ Drops(e, m, cur[t]) /\ Unlinks(t)
          BY <3>3
        <4>2. CASE d = e /\ n = m
          <5>1. cur[t] \notin stable[w]
            BY <2>1, <4>1 DEF WalkOf
          <5> QED
            BY <4>1, <4>2, <5>1
        <4>3. CASE ~(d = e /\ n = m)
          BY <4>1, <4>3 DEF Drops, Elsewhere
        <4> QED
          BY <4>2, <4>3
      <3> QED
        BY <3>1, <3>2, <3>3 DEF Moves
    <2> QED
      BY <2>1, <2>2, <2>3, WalkAfter
  <1> QED
    BY <1>1, <1>2 DEF WalkInv

\* What the calls and insert_edge do, as seen by a walk.
LEMMA CallsMove ==
  ASSUME Inv, WalkTypes, Base', NEW t \in Threads,
         \/ \E id \in Ids : link_into_chains(t, id) \/ unlink_from_chains(t, id)
         \/ LinkOne(t) \/ LinkLog(t) \/ UnlinkHead(t) \/ Search(t) \/ UnlinkLog(t)
  PROVE  Moves /\ Spares
  <1>0. Base /\ Types /\ stable \in [Walkers -> SUBSET Ids]
    BY DEF Inv, Base, WalkTypes
  <1>1. CASE \E id \in Ids : link_into_chains(t, id)
    <2>1. PICK id \in Ids : link_into_chains(t, id)
      BY <1>1
    <2>2. Begin(t, id, "link") /\ UNCHANGED <<walk, stable>>
      BY <2>1 DEF link_into_chains
    <2>3. /\ pc'[t] = "link"
          /\ \A u \in Threads \ {t} : pc'[u] = pc[u] /\ cur'[u] = cur[u]
      BY <1>0, <2>2 DEF Begin, Types
    <2>4. Spares
      BY <1>0, <2>2, <2>3 DEF Spares, Unlinks
    <2>5. AllKept /\ AllGroupsKept
      BY <1>1, InvStill
    <2> QED
      BY <2>4, <2>5 DEF Moves
  <1>2. CASE \E id \in Ids : unlink_from_chains(t, id)
    <2>1. PICK id \in Ids : unlink_from_chains(t, id)
      BY <1>2
    <2>2. Begin(t, id, "unlink") /\ UNCHANGED walk /\ stable' = [w \in Walkers |-> stable[w] \ {id}]
      BY <2>1 DEF unlink_from_chains
    <2>3. /\ cur'[t] = id
          /\ \A u \in Threads \ {t} : pc'[u] = pc[u] /\ cur'[u] = cur[u]
      BY <1>0, <2>2 DEF Begin, Types
    <2>4. stable' \in [Walkers -> SUBSET Ids] /\ \A w \in Walkers : stable'[w] = stable[w] \ {id}
      BY <1>0, <2>2
    <2>5. Spares
      BY <2>2, <2>3, <2>4 DEF Spares, Unlinks
    <2>6. AllKept /\ AllGroupsKept
      BY <1>2, InvStill
    <2> QED
      BY <2>5, <2>6 DEF Moves
  <1>3. CASE LinkOne(t)
    <2>1. /\ pc[t] = "link" /\ cur[t] \in Ids /\ edges[cur[t]] \in Edge /\ dir[t] \in Dirs /\ End(t) \in Nodes
          /\ Onward(t, "link", "link_log") /\ UNCHANGED <<cur, walk, stable>>
      BY <1>0, <1>3, LinkOneIs
    <2>2. /\ \A u \in Threads \ {t} : pc'[u] = pc[u]
          /\ pc'[t] \in {"link", "link_log"}
      <3>1. "link" \in Places /\ "link_log" \in Places
        BY DEF Places
      <3> QED
        BY <1>0, <2>1, <3>1, OnwardIs
    <2>3. Spares
      BY <1>0, <2>1, <2>2 DEF Spares, Unlinks
    <2>4. PICK d \in Dirs : d = dir[t]
      BY <2>1
    <2>5. PICK n \in Nodes : n = edges[cur[t]].end[d]
      BY <2>1, <2>4 DEF End
    <2>6. Pushes(d, n, cur[t])
      BY <1>0, <1>3, <2>4, <2>5, LinkPushes
    <2> QED
      BY <2>1, <2>3, <2>6 DEF Moves
  <1>4. CASE LinkLog(t)
    <2>1. Spares
      BY <1>0, <1>4, LinkLogIs, ReturnIs DEF Spares, Unlinks
    <2>2. AllKept /\ AllGroupsKept
      BY <1>4, InvStill
    <2> QED
      BY <2>1, <2>2 DEF Moves
  <1>5. CASE UnlinkLog(t)
    <2>1. UNCHANGED <<walk, stable>> /\ (Return(t) \/ UNCHANGED <<pc, cur>>)
      BY <1>0, <1>5, UnlinkLogIs
    <2>2. CASE Return(t)
      BY <1>0, <1>5, <2>1, <2>2, ReturnIs, InvStill DEF Spares, Unlinks, Moves
    <2>3. CASE UNCHANGED <<pc, cur>>
      <3>1. Spares
        BY <1>0, <2>1, <2>3 DEF Spares, Unlinks
      <3> QED
        BY <1>5, <3>1, InvStill DEF Moves
    <2> QED
      BY <2>1, <2>2, <2>3
  <1>6. CASE UnlinkHead(t)
    <2>1. /\ pc[t] = "unlink" /\ cur[t] \in Ids /\ edges[cur[t]] \in Edge /\ dir[t] \in Dirs /\ End(t) \in Nodes
          /\ UNCHANGED <<cur, walk, stable>>
          /\ Onward(t, "unlink", "log") \/ pc' = [pc EXCEPT ![t] = "search"]
      BY <1>0, <1>6, UnlinkHeadIs
    <2>2. \A u \in Threads \ {t} : pc'[u] = pc[u]
      BY <1>0, <2>1, OnwardUnlink DEF Types
    <2>3. Unlinks(t)
      BY <2>1 DEF Unlinks
    <2>4. Spares
      BY <1>0, <2>1, <2>2, <2>3 DEF Spares, Unlinks
    <2>5. PICK d \in Dirs : d = dir[t]
      BY <2>1
    <2>6. PICK n \in Nodes : n = edges[cur[t]].end[d]
      BY <2>1, <2>5 DEF End
    <2>7. CASE first[d][n] = cur[t]
      <3>1. Drops(d, n, cur[t])
        BY <1>6, <2>5, <2>6, <2>7, HeadDrops
      <3> QED
        BY <2>1, <2>3, <2>4, <3>1 DEF Moves
    <2>8. CASE first[d][n] # cur[t]
      <3>1. AllKept /\ AllGroupsKept
        BY <1>0, <1>6, <2>5, <2>6, <2>8, HeadKept DEF End
      <3> QED
        BY <2>4, <3>1 DEF Moves
    <2> QED
      BY <2>7, <2>8
  <1>7. CASE Search(t)
    <2>1. /\ pc[t] = "search" /\ cur[t] \in Ids /\ edges[cur[t]] \in Edge /\ dir[t] \in Dirs /\ End(t) \in Nodes
          /\ UNCHANGED <<cur, walk, stable>>
          /\ Onward(t, "unlink", "log") \/ UNCHANGED pc
      BY <1>0, <1>7, SearchIs
    <2>2. \A u \in Threads \ {t} : pc'[u] = pc[u]
      BY <1>0, <2>1, OnwardUnlink DEF Types
    <2>3. Unlinks(t)
      BY <2>1 DEF Unlinks
    <2>4. Spares
      BY <1>0, <2>1, <2>2, <2>3 DEF Spares, Unlinks
    <2>5. PICK d \in Dirs : d = dir[t]
      BY <2>1
    <2>6. PICK n \in Nodes : n = edges[cur[t]].end[d]
      BY <2>1, <2>5 DEF End
    <2>7. CASE at[t] \in Ids /\ edges[at[t]] # Absent /\ edges[at[t]].next[d] = cur[t]
      <3>1. Drops(d, n, cur[t])
        BY <1>7, <2>5, <2>6, <2>7, FoundDrops
      <3> QED
        BY <2>1, <2>3, <2>4, <3>1 DEF Moves
    <2>8. CASE ~(at[t] \in Ids /\ edges[at[t]] # Absent /\ edges[at[t]].next[d] = cur[t])
      <3>1. AllKept /\ AllGroupsKept
        BY <1>7, <2>5, <2>8, SearchKept
      <3> QED
        BY <2>4, <3>1 DEF Moves
    <2> QED
      BY <2>7, <2>8
  <1> QED
    BY <1>1, <1>2, <1>3, <1>4, <1>5, <1>6, <1>7

\* The walk itself: it starts at the head, goes on and returns.
LEMMA WalkSteps ==
  ASSUME Inv, WalkTypes, WalkInv, NEW w \in Walkers,
         (\E d \in Dirs, n \in Nodes : StartWalk(w, d, n)) \/ WalkOn(w) \/ WalkEnd(w)
  PROVE  WalkTypes' /\ WalkInv'
  <1>0. UNCHANGED <<edges, first, stored, call, linked>> /\ UNCHANGED <<pc, dir, cur, edge, at, pred>>
    BY WalksRead DEF call
  <1>1. AllKept /\ AllGroupsKept
    BY <1>0, InvSame
  <1>2. \A t \in Threads : Unlinks(t)' <=> Unlinks(t)
    BY <1>0 DEF Unlinks
  <1>3. ASSUME NEW v \in Walkers, walk'[v] = walk[v], stable'[v] = stable[v],
               NEW d \in Dirs, NEW n \in Nodes, walk'[v].on /\ walk'[v].dir = d /\ walk'[v].node = n
        PROVE  WalkOf(v, d, n)'
    <2>1. WalkOf(v, d, n)
      BY <1>3 DEF WalkInv
    <2>2. \A t \in Threads : Unlinks(t)' => cur'[t] \notin stable'[v]
      BY <1>0, <1>2, <1>3, <2>1 DEF WalkOf
    <2>3. Kept(d, n) /\ KeptGroup(d, n) /\ stable'[v] \subseteq stable[v]
      BY <1>1, <1>3 DEF AllKept, AllGroupsKept
    <2> QED
      BY <1>3, <2>1, <2>2, <2>3, WalkAfter
  <1>4. ASSUME NEW d \in Dirs, NEW n \in Nodes PROVE Group(d, n)' = Group(d, n) /\ On(d, n)' = On(d, n) /\ Follow(d)' = Follow(d)
    BY <1>0, <1>1 DEF Group, Follow, AllKept, Kept
  <1> DEFINE Walk == [on : BOOLEAN, dir : Dirs, node : Nodes \cup {Absent}, at : Links, found : SUBSET Ids]
  <1>5. /\ walk \in [Walkers -> Walk] /\ stable \in [Walkers -> SUBSET Ids]
        /\ \A v \in Walkers : (walk[v].on => walk[v].node \in Nodes) /\ (~walk[v].on => walk[v].found = {})
    BY DEF WalkTypes
  <1>6. CASE \E d \in Dirs, n \in Nodes : StartWalk(w, d, n)
    <2>1. PICK d \in Dirs, n \in Nodes : StartWalk(w, d, n)
      BY <1>6
    <2> DEFINE new == [on |-> TRUE, dir |-> d, node |-> n, at |-> first[d][n], found |-> {}]
               mine == {id \in linked : edges[id].end[d] = n}
    <2>2. /\ <<d, n>> \notin Borrowed /\ walk' = [walk EXCEPT ![w] = new] /\ stable' = [stable EXCEPT ![w] = mine]
      BY <2>1 DEF StartWalk
    <2>3. first[d][n] \in Links /\ mine \in SUBSET Ids
      BY DEF Inv, Base, Types
    <2>4. new \in Walk /\ new.on /\ new.dir = d /\ new.node = n /\ new.at = first[d][n] /\ new.found = {}
      BY <2>3
    <2> HIDE DEF new, mine, Walk
    <2>5. walk'[w] = new /\ stable'[w] = mine /\ \A v \in Walkers \ {w} : walk'[v] = walk[v] /\ stable'[v] = stable[v]
      BY <1>5, <2>2
    <2>6. walk' \in [Walkers -> Walk] /\ stable' \in [Walkers -> SUBSET Ids]
      BY <1>5, <2>2, <2>3, <2>4
    <2>7. WalkTypes'
      <3>1. \A v \in Walkers : (walk'[v].on => walk'[v].node \in Nodes) /\ (~walk'[v].on => walk'[v].found = {})
        BY <1>5, <2>4, <2>5
      <3> QED
        BY <2>6, <3>1 DEF WalkTypes, Walk
    <2>8. WalkOf(w, d, n)'
      <3>1. mine = On(d, n) /\ \A t \in Threads : pc[t] # "idle" => cur[t] \notin On(d, n)
        BY <2>2, Unborrowed DEF Inv, mine
      <3>2. PICK k, s : Path(Follow(d), first[d][n], On(d, n), k, s)
        BY DEF Inv, ChainInv
      <3>3. Ahead(Follow(d), first[d][n], On(d, n), Group(d, n), first[d][n], On(d, n))
        BY <3>2, AheadStart, OnIn
      <3>4. On(d, n) \ {} = On(d, n)
        OBVIOUS
      <3>5. Ahead(Follow(d), first[d][n], On(d, n), Group(d, n), first[d][n], stable'[w] \ walk'[w].found)
        BY <2>4, <2>5, <3>1, <3>3, <3>4
      <3>6. Ahead(Follow(d)', first'[d][n], On(d, n)', Group(d, n)', walk'[w].at, stable'[w] \ walk'[w].found)
        BY <1>0, <1>4, <2>4, <2>5, <3>5
      <3>7. \A t \in Threads : Unlinks(t)' => cur'[t] \notin stable'[w]
        BY <1>0, <1>2, <2>5, <3>1 DEF Unlinks
      <3>8. stable'[w] \subseteq On(d, n)' /\ walk'[w].found \subseteq Group(d, n)'
        BY <1>4, <2>4, <2>5, <3>1
      <3> QED
        BY <3>6, <3>7, <3>8 DEF WalkOf
    <2>9. ASSUME NEW v \in Walkers, NEW e \in Dirs, NEW m \in Nodes, walk'[v].on /\ walk'[v].dir = e /\ walk'[v].node = m
          PROVE  WalkOf(v, e, m)'
      <3>1. CASE v = w
        <4>1. e = d /\ m = n
          BY <2>4, <2>5, <2>9, <3>1
        <4> QED
          BY <2>8, <3>1, <4>1
      <3>2. CASE v # w
        BY <1>3, <2>5, <2>9, <3>2
      <3> QED
        BY <3>1, <3>2
    <2> QED
      BY <2>7, <2>9 DEF WalkInv
  <1>7. CASE WalkOn(w)
    <2> DEFINE a == walk[w].at
               b == edges[walk[w].at].next[walk[w].dir]
    <2>1. /\ walk[w].on /\ a \in Ids /\ edges[a] # Absent /\ UNCHANGED stable
          /\ walk' = [walk EXCEPT ![w].found = @ \cup {a}, ![w].at = b]
      BY <1>7 DEF WalkOn, Over, InMap
    <2>2. walk[w] \in Walk /\ walk[w].dir \in Dirs /\ walk[w].found \in SUBSET Ids
      BY <1>5
    <2>3. b \in Links
      <3>1. edges[a] \in Edge
        BY <2>1 DEF Inv, Base, Types
      <3> QED
        BY <2>2, <3>1, EdgeIs
    <2> DEFINE new == [walk[w] EXCEPT !.found = @ \cup {a}, !.at = b]
    <2> HIDE DEF a, b
    <2>4. /\ new \in Walk /\ new.on = walk[w].on /\ new.dir = walk[w].dir /\ new.node = walk[w].node
          /\ new.at = b /\ new.found = walk[w].found \cup {a}
      BY <2>1, <2>2, <2>3
    <2>5. walk'[w] = new /\ \A v \in Walkers \ {w} : walk'[v] = walk[v]
      BY <1>5, <2>1
    <2>6. walk' = [walk EXCEPT ![w] = new]
      BY <1>5, <2>1
    <2> HIDE DEF new
    <2>7. walk' \in [Walkers -> Walk]
      <3> HIDE DEF Walk
      <3> QED
        BY <1>5, <2>4, <2>6
    <2>8. WalkTypes'
      <3>1. \A v \in Walkers : (walk'[v].on => walk'[v].node \in Nodes) /\ (~walk'[v].on => walk'[v].found = {})
        BY <1>5, <2>1, <2>4, <2>5
      <3> QED
        BY <1>5, <2>1, <2>7, <3>1 DEF WalkTypes
    <2>9. PICK d \in Dirs : d = walk[w].dir
      BY <2>2
    <2>10. PICK n \in Nodes : n = walk[w].node
      BY <1>5, <2>1
    <2>11. WalkOf(w, d, n)'
      <3>1. WalkOf(w, d, n)
        BY <2>1, <2>9, <2>10 DEF WalkInv
      <3>2. Ahead(Follow(d), first[d][n], On(d, n), Group(d, n), a, stable[w] \ walk[w].found)
        BY <3>1 DEF WalkOf, a
      <3>3. /\ a \in Group(d, n)
            /\ Ahead(Follow(d), first[d][n], On(d, n), Group(d, n), Follow(d)[a], (stable[w] \ walk[w].found) \ {a})
        BY <2>1, <3>2, AheadNext, OnIn
      <3>4. Follow(d)[a] = b
        BY <2>1, <2>9 DEF Follow, b, a
      <3>5. (stable[w] \ walk[w].found) \ {a} = stable'[w] \ walk'[w].found
        BY <2>1, <2>4, <2>5
      <3>6. Ahead(Follow(d)', first'[d][n], On(d, n)', Group(d, n)', walk'[w].at, stable'[w] \ walk'[w].found)
        BY <1>0, <1>4, <2>4, <2>5, <3>3, <3>4, <3>5
      <3>7. \A t \in Threads : Unlinks(t)' => cur'[t] \notin stable'[w]
        BY <1>0, <1>2, <2>1, <3>1 DEF WalkOf
      <3>8. stable'[w] \subseteq On(d, n)' /\ walk'[w].found \subseteq Group(d, n)'
        BY <1>4, <2>1, <2>4, <2>5, <3>1, <3>3 DEF WalkOf
      <3> QED
        BY <3>6, <3>7, <3>8 DEF WalkOf
    <2>12. ASSUME NEW v \in Walkers, NEW e \in Dirs, NEW m \in Nodes, walk'[v].on /\ walk'[v].dir = e /\ walk'[v].node = m
          PROVE  WalkOf(v, e, m)'
      <3>1. CASE v = w
        <4>1. e = d /\ m = n
          BY <2>4, <2>5, <2>9, <2>10, <2>12, <3>1
        <4> QED
          BY <2>11, <3>1, <4>1
      <3>2. CASE v # w
        BY <1>3, <2>1, <2>5, <2>12, <3>2
      <3> QED
        BY <3>1, <3>2
    <2> QED
      BY <2>8, <2>12 DEF WalkInv
  <1>8. CASE WalkEnd(w)
    <2>1. walk' = [walk EXCEPT ![w] = NoWalk] /\ stable' = [stable EXCEPT ![w] = {}]
      BY <1>8 DEF WalkEnd
    <2>2. NoWalk \in Walk /\ NoWalk.on = FALSE /\ NoWalk.found = {}
      BY DEF NoWalk, Links, Dirs
    <2> HIDE DEF Walk
    <2>3. walk'[w] = NoWalk /\ \A v \in Walkers \ {w} : walk'[v] = walk[v] /\ stable'[v] = stable[v]
      BY <1>5, <2>1
    <2>4. walk' \in [Walkers -> Walk] /\ stable' \in [Walkers -> SUBSET Ids]
      BY <1>5, <2>1, <2>2
    <2>5. WalkTypes'
      <3>1. \A v \in Walkers : (walk'[v].on => walk'[v].node \in Nodes) /\ (~walk'[v].on => walk'[v].found = {})
        BY <1>5, <2>2, <2>3
      <3> QED
        BY <2>4, <3>1 DEF WalkTypes, Walk
    <2>6. ASSUME NEW v \in Walkers, NEW e \in Dirs, NEW m \in Nodes, walk'[v].on /\ walk'[v].dir = e /\ walk'[v].node = m
          PROVE  WalkOf(v, e, m)'
      <3>1. v # w
        BY <2>2, <2>3, <2>6
      <3> QED
        BY <1>3, <2>3, <2>6, <3>1
    <2> QED
      BY <2>5, <2>6 DEF WalkInv
  <1> QED
    BY <1>6, <1>7, <1>8

\* In the first state nobody walks.
LEMMA InitWalks == Init => WalkTypes /\ WalkInv
  <1> SUFFICES ASSUME Init PROVE WalkTypes /\ WalkInv
    OBVIOUS
  <1>1. NoWalk \in [on : BOOLEAN, dir : Dirs, node : Nodes \cup {Absent}, at : Links, found : SUBSET Ids]
        /\ NoWalk.on = FALSE /\ NoWalk.found = {}
    BY DEF NoWalk, Links, Dirs
  <1>2. \A w \in Walkers : walk[w] = NoWalk
    BY DEF Init
  <1>3. WalkTypes
    BY <1>1, <1>2 DEF Init, WalkTypes
  <1> QED
    BY <1>1, <1>2, <1>3 DEF WalkInv

\* Every step keeps the walks in order.
LEMMA WalkStep == Quiet /\ Inv /\ WalkTypes /\ WalkInv /\ [Next]_vars => WalkTypes' /\ WalkInv'
  <1> SUFFICES ASSUME Quiet, Inv, WalkTypes, WalkInv, [Next]_vars PROVE WalkTypes' /\ WalkInv'
    OBVIOUS
  <1>0. Base'
    BY BaseStep DEF Inv
  <1>1. ASSUME NEW id \in Ids, NEW ends \in Ends, insert_edge(id, ends[1], ends[2]) PROVE WalkTypes' /\ WalkInv'
    <2>1. AllKept /\ AllGroupsKept
      BY <1>1, InsertKept DEF Inv
    <2>2. UNCHANGED <<pc, cur, walk, stable>>
      BY <1>1 DEF insert_edge, call
    <2>3. Spares
      BY <2>2 DEF Spares, Unlinks, WalkTypes
    <2> QED
      BY <2>1, <2>3, WalksAfter DEF Moves
  <1>2. ASSUME NEW id \in Ids, hard_delete(id) PROVE WalkTypes' /\ WalkInv'
    <2>1. UNCHANGED <<walk, stable>> /\ \A w \in Walkers : ~walk[w].on
      BY <1>2, DeleteIs DEF Inv, Base
    <2> QED
      BY <2>1 DEF WalkTypes, WalkInv
  <1>3. ASSUME NEW t \in Threads,
               \/ \E id \in Ids : link_into_chains(t, id) \/ unlink_from_chains(t, id)
               \/ LinkOne(t) \/ LinkLog(t) \/ UnlinkHead(t) \/ Search(t) \/ UnlinkLog(t)
        PROVE  WalkTypes' /\ WalkInv'
    <2>1. Moves /\ Spares
      BY <1>0, <1>3, CallsMove
    <2> QED
      BY <2>1, WalksAfter
  <1>4. ASSUME NEW w \in Walkers, (\E d \in Dirs, n \in Nodes : StartWalk(w, d, n)) \/ WalkOn(w) \/ WalkEnd(w)
        PROVE  WalkTypes' /\ WalkInv'
    BY <1>4, WalkSteps
  <1>5. CASE UNCHANGED vars
    <2>1. AllKept /\ AllGroupsKept
      BY <1>5, InvSame DEF vars
    <2>2. UNCHANGED <<pc, cur, walk, stable>>
      BY <1>5 DEF vars, call
    <2>3. Spares
      BY <2>2 DEF Spares, Unlinks, WalkTypes
    <2> QED
      BY <2>1, <2>3, WalksAfter DEF Moves
  <1> QED
    BY <1>1, <1>2, <1>3, <1>4, <1>5 DEF Next

\* As long as edges are deleted only while nobody walks, all walks are in order.
THEOREM WalksStay == Quiet => (Spec => [](Inv /\ WalkTypes /\ WalkInv))
  <1> SUFFICES ASSUME Quiet PROVE Spec => [](Inv /\ WalkTypes /\ WalkInv)
    OBVIOUS
  <1> DEFINE All == Inv /\ WalkTypes /\ WalkInv
  <1>1. Init => All
    BY InitInv, InitWalks
  <1>2. All /\ [Next]_vars => All'
    BY InvStep, WalkStep
  <1>3. Spec => []All
    <2> HIDE DEF All
    <2> QED
      BY <1>1, <1>2, PTL DEF Spec
  <1> QED
    BY <1>3

\* A walk in order finds what it should, and nothing else.
LEMMA WalksFind == Inv /\ WalkTypes /\ WalkInv => WalkFindsStable /\ WalkStaysInChain
  <1> SUFFICES ASSUME Inv, WalkTypes, WalkInv PROVE WalkFindsStable /\ WalkStaysInChain
    OBVIOUS
  <1>1. ASSUME NEW w \in Walkers, walk[w].on, NEW d \in Dirs, d = walk[w].dir, NEW n \in Nodes, n = walk[w].node
        PROVE  WalkOf(w, d, n)
    BY <1>1 DEF WalkInv
  <1>2. \A w \in Walkers : walk[w].dir \in Dirs /\ (walk[w].on => walk[w].node \in Nodes) /\ (~walk[w].on => walk[w].found = {})
    BY DEF WalkTypes
  <1>3. ASSUME NEW w \in Walkers, walk[w].on, Over(w) PROVE stable[w] \subseteq walk[w].found
    <2>1. PICK d \in Dirs : d = walk[w].dir
      BY <1>2
    <2>2. PICK n \in Nodes : n = walk[w].node
      BY <1>2, <1>3
    <2>3. WalkOf(w, d, n)
      BY <1>1, <1>3, <2>1, <2>2
    <2>4. walk[w].at \notin Group(d, n)
      BY <1>3 DEF Over, InMap, Group
    <2>5. stable[w] \ walk[w].found = {}
      BY <2>3, <2>4, AheadEnd, OnIn DEF WalkOf
    <2> QED
      BY <2>5
  <1>4. ASSUME NEW w \in Walkers, NEW id \in walk[w].found
        PROVE  edges[id] # Absent /\ edges[id].end[walk[w].dir] = walk[w].node
    <2>0. walk[w].on
      BY <1>2
    <2>1. PICK d \in Dirs : d = walk[w].dir
      BY <1>2
    <2>2. PICK n \in Nodes : n = walk[w].node
      BY <1>2, <2>0
    <2>3. WalkOf(w, d, n)
      BY <1>1, <2>0, <2>1, <2>2
    <2> QED
      BY <2>1, <2>2, <2>3 DEF WalkOf, Group
  <1> QED
    BY <1>3, <1>4 DEF WalkFindsStable, WalkStaysInChain

(***************************************************************************)
(* As long as hard_delete is called only while nobody walks: out_edges and *)
(* in_edges return every edge that is linked all the time they run, with   *)
(* any number of links and unlinks on the same chain between two turns of  *)
(* their loop.                                                             *)
(***************************************************************************)
THEOREM WalksFindWhatStays == Quiet => (Spec => []WalkFindsStable)
  <1> SUFFICES ASSUME Quiet PROVE Spec => []WalkFindsStable
    OBVIOUS
  <1>1. Spec => [](Inv /\ WalkTypes /\ WalkInv)
    BY WalksStay
  <1> QED
    BY <1>1, WalksFind, PTL

(***************************************************************************)
(* Under the same condition they return edges of their own node only, also *)
(* when the edge they are at is taken off the chain and put back.          *)
(***************************************************************************)
THEOREM WalksStayOnTheirChain == Quiet => (Spec => []WalkStaysInChain)
  <1> SUFFICES ASSUME Quiet PROVE Spec => []WalkStaysInChain
    OBVIOUS
  <1>1. Spec => [](Inv /\ WalkTypes /\ WalkInv)
    BY WalksStay
  <1> QED
    BY <1>1, WalksFind, PTL

-----------------------------------------------------------------------------
(* What the log replays to                                                 *)

\* A predecessor that a call remembers is linked, on the same chain.
PredOf(t, d) ==
    pred[t][d] \in Ids =>
        /\ Unlinks(t) /\ Left(t, d)
        /\ pred[t][d] \in linked /\ pred[t][d] # cur[t]
        /\ edges[pred[t][d]].end[d] = edges[cur[t]].end[d]

PredInv == \A t \in Threads, d \in Dirs : PredOf(t, d)

\* The link of a linked edge leads to a linked edge of the same node.
NextOf(x, d) ==
    edges[x].next[d] \in Ids =>
        edges[x].next[d] \in linked /\ edges[edges[x].next[d]].end[d] = edges[x].end[d]

NextInv == \A x \in linked, d \in Dirs : NextOf(x, d)

\* The record of a predecessor is older than the entry until UnlinkLog.
Stale(x, d) ==
    \E t \in Threads :
        /\ Unlinks(t) /\ pred[t][d] = x /\ stored[x].next[d] = cur[t]
        /\ ~(pc[t] = "log" /\ dir[t] = "in" /\ d = "out")

StoreOf(x, d) == stored[x] # Absent /\ (stored[x].next[d] = edges[x].next[d] \/ Stale(x, d))

StoreInv == \A x \in linked, d \in Dirs : StoreOf(x, d)

\* The edges can be numbered so that links lead down, the recorded links of
\* all edges and the links of the linked ones, with the linked edges below the
\* others.
Ranks(d, B, r) ==
    /\ B \in Nat /\ r \in [Ids -> Nat]
    /\ \A x \in Ids : x \in linked <=> r[x] <= B
    /\ \A x \in Ids : stored[x] # Absent /\ stored[x].next[d] \in Ids => r[stored[x].next[d]] < r[x]
    /\ \A x \in linked : edges[x].next[d] \in Ids => r[edges[x].next[d]] < r[x]

RankInv == \A d \in Dirs : \E B, r : Ranks(d, B, r)

RecInv == PredInv /\ NextInv /\ StoreInv /\ RankInv

\* A step that changes neither a linked edge nor a record that matters, and
\* takes no call out of unlink_from_chains.
Calm ==
    /\ UNCHANGED <<linked, pred>>
    /\ \A x \in linked : edges'[x] = edges[x] /\ stored'[x] = stored[x]
    /\ \A x \in Ids : \/ stored'[x] = stored[x] \/ stored'[x] = Absent
                      \/ \A d \in Dirs : stored'[x].next[d] \notin Ids
    /\ \A t \in Threads : Unlinks(t) =>
         /\ Unlinks(t)' /\ cur'[t] = cur[t] /\ edges'[cur[t]].end = edges[cur[t]].end
         /\ \A d \in Dirs : Left(t, d) => Left(t, d)'
         /\ pc'[t] = "log" /\ dir'[t] = "in" => pc[t] = "log" /\ dir[t] = "in"

\* Such a step keeps the records in order.
LEMMA RecCalm ==
  ASSUME Types, RecInv, Calm
  PROVE  RecInv'
  <1>0. linked' = linked /\ pred' = pred /\ linked \in SUBSET Ids
    BY DEF Calm, Types
  <1>1. ASSUME NEW t \in Threads, NEW d \in Dirs PROVE PredOf(t, d)'
    <2>1. SUFFICES ASSUME pred[t][d] \in Ids
                   PROVE  /\ Unlinks(t)' /\ Left(t, d)' /\ pred[t][d] \in linked /\ pred[t][d] # cur'[t]
                          /\ edges'[pred[t][d]].end[d] = edges'[cur'[t]].end[d]
      BY <1>0 DEF PredOf
    <2>2. /\ Unlinks(t) /\ Left(t, d) /\ pred[t][d] \in linked /\ pred[t][d] # cur[t]
          /\ edges[pred[t][d]].end[d] = edges[cur[t]].end[d]
      BY <2>1 DEF RecInv, PredInv, PredOf
    <2>3. edges'[pred[t][d]] = edges[pred[t][d]] /\ cur'[t] = cur[t] /\ edges'[cur[t]].end = edges[cur[t]].end
      BY <2>2 DEF Calm
    <2>4. Unlinks(t)' /\ Left(t, d)'
      BY <2>2 DEF Calm
    <2> QED
      BY <2>2, <2>3, <2>4
  <1>2. ASSUME NEW x \in linked, NEW d \in Dirs PROVE NextOf(x, d)'
    <2>1. edges'[x] = edges[x] /\ NextOf(x, d)
      BY DEF Calm, RecInv, NextInv
    <2>2. edges[x].next[d] \in linked => edges'[edges[x].next[d]] = edges[edges[x].next[d]]
      BY DEF Calm
    <2> QED
      BY <1>0, <2>1, <2>2 DEF NextOf
  <1>3. ASSUME NEW x \in linked, NEW d \in Dirs PROVE StoreOf(x, d)'
    <2>1. edges'[x] = edges[x] /\ stored'[x] = stored[x] /\ StoreOf(x, d)
      BY DEF Calm, RecInv, StoreInv
    <2>2. ASSUME Stale(x, d) PROVE Stale(x, d)'
      <3>1. PICK t \in Threads : /\ Unlinks(t) /\ pred[t][d] = x /\ stored[x].next[d] = cur[t]
                                 /\ ~(pc[t] = "log" /\ dir[t] = "in" /\ d = "out")
        BY <2>2 DEF Stale
      <3>2. /\ Unlinks(t)' /\ cur'[t] = cur[t]
            /\ pc'[t] = "log" /\ dir'[t] = "in" => pc[t] = "log" /\ dir[t] = "in"
        BY <3>1 DEF Calm
      <3> QED
        BY <1>0, <2>1, <3>1, <3>2 DEF Stale
    <2> QED
      BY <2>1, <2>2 DEF StoreOf
  <1>4. ASSUME NEW d \in Dirs PROVE \E B, r : Ranks(d, B, r)'
    <2>1. PICK B, r : Ranks(d, B, r)
      BY DEF RecInv, RankInv
    <2>2. ASSUME NEW x \in Ids, stored'[x] # Absent /\ stored'[x].next[d] \in Ids
          PROVE  r[stored'[x].next[d]] < r[x]
      <3>1. stored'[x] = stored[x]
        BY <2>2 DEF Calm
      <3> QED
        BY <2>1, <2>2, <3>1 DEF Ranks
    <2>3. \A x \in linked : edges'[x] = edges[x]
      BY DEF Calm
    <2>4. Ranks(d, B, r)'
      BY <1>0, <2>1, <2>2, <2>3 DEF Ranks
    <2> QED
      BY <2>4
  <1> QED
    BY <1>0, <1>1, <1>2, <1>3, <1>4 DEF RecInv, PredInv, NextInv, StoreInv, RankInv

\* Most steps are like that.
LEMMA CalmSteps ==
  ASSUME Base,
         \/ \E id \in Ids : hard_delete(id) \/ \E ends \in Ends : insert_edge(id, ends[1], ends[2])
         \/ \E t \in Threads : \/ \E id \in Ids : link_into_chains(t, id) \/ unlink_from_chains(t, id)
                               \/ LinkOne(t) \/ UnlinkHead(t)
                               \/ Search(t) /\ ~(at[t] \in Ids /\ edges[at[t]] # Absent /\ edges[at[t]].next[dir[t]] = cur[t])
         \/ UNCHANGED <<edges, first, stored, call, linked>>
  PROVE  Calm
  <1>0. Types /\ Apart /\ Basic /\ linked \in SUBSET Ids
    BY DEF Base, Types
  <1>01. ASSUME NEW u \in Threads, Unlinks(u) PROVE pc[u] # "idle" /\ cur[u] \in Ids /\ edges[cur[u]] # Absent
    BY <1>0, <1>01 DEF Unlinks, Basic
  <1>1. ASSUME NEW id \in Ids, hard_delete(id) PROVE Calm
    <2>1. /\ id \notin linked /\ stored'[id] = Absent
          /\ \A t \in Threads : pc[t] # "idle" => cur[t] # id
          /\ \A j \in Ids \ {id} : edges'[j] = edges[j] /\ stored'[j] = stored[j]
          /\ UNCHANGED <<pc, dir, cur, pred, linked>>
      BY <1>0, <1>1, DeleteIs DEF call
    <2>2. \A u \in Threads : Unlinks(u) => Unlinks(u)' /\ edges'[cur[u]] = edges[cur[u]] /\ \A d \in Dirs : Left(u, d) => Left(u, d)'
      BY <1>01, <2>1 DEF Unlinks, Left
    <2> QED
      BY <1>0, <2>1, <2>2 DEF Calm
  <1>2. ASSUME NEW id \in Ids, NEW ends \in Ends, insert_edge(id, ends[1], ends[2]) PROVE Calm
    <2>1. /\ edges[id] = Absent /\ stored'[id] = edges'[id] /\ \A d \in Dirs : edges'[id].next[d] = NULL_EDGE
          /\ \A j \in Ids \ {id} : edges'[j] = edges[j] /\ stored'[j] = stored[j]
          /\ UNCHANGED <<pc, dir, cur, pred, linked>>
      BY <1>0, <1>2, InsertIs DEF call
    <2>2. \A u \in Threads : Unlinks(u) => Unlinks(u)' /\ edges'[cur[u]] = edges[cur[u]] /\ \A d \in Dirs : Left(u, d) => Left(u, d)'
      BY <1>01, <2>1 DEF Unlinks, Left
    <2>3. id \notin linked /\ \A d \in Dirs : stored'[id].next[d] \notin Ids
      BY <1>0, <2>1, IdsAssumption DEF Types
    <2> QED
      BY <1>0, <2>1, <2>2, <2>3 DEF Calm
  <1>3. ASSUME NEW t \in Threads, NEW id \in Ids, link_into_chains(t, id) \/ unlink_from_chains(t, id) PROVE Calm
    <2>1. PICK where \in {"link", "unlink"} : Begin(t, id, where)
      BY <1>3 DEF link_into_chains, unlink_from_chains
    <2>2. UNCHANGED <<edges, stored, pred, linked>>
      BY <1>3 DEF link_into_chains, unlink_from_chains
    <2>3. /\ pc[t] = "idle"
          /\ pc' = [pc EXCEPT ![t] = where] /\ cur' = [cur EXCEPT ![t] = id] /\ dir' = [dir EXCEPT ![t] = "out"]
      BY <2>1 DEF Begin
    <2>4. \A u \in Threads \ {t} : pc'[u] = pc[u] /\ cur'[u] = cur[u] /\ dir'[u] = dir[u]
      BY <1>0, <2>3 DEF Types
    <2>5. ~Unlinks(t)
      BY <2>3 DEF Unlinks
    <2>6. \A u \in Threads : Unlinks(u) => Unlinks(u)' /\ cur'[u] = cur[u] /\ dir'[u] = dir[u] /\ \A d \in Dirs : Left(u, d) => Left(u, d)'
      BY <2>4, <2>5 DEF Unlinks, Left
    <2>7. \A u \in Threads : Unlinks(u) /\ pc'[u] = "log" /\ dir'[u] = "in" => pc[u] = "log" /\ dir[u] = "in"
      BY <2>4, <2>5
    <2> QED
      BY <2>2, <2>6, <2>7 DEF Calm
  <1>4. ASSUME NEW t \in Threads, LinkOne(t) PROVE Calm
    <2>1. /\ pc[t] = "link" /\ cur[t] \in Ids /\ edges[cur[t]] \in Edge /\ dir[t] \in Dirs /\ End(t) \in Nodes
          /\ first[dir[t]][End(t)] \in Links
          /\ edges' = [edges EXCEPT ![cur[t]].next[dir[t]] = first[dir[t]][End(t)]]
          /\ Onward(t, "link", "link_log") /\ UNCHANGED <<stored, cur, pred, linked>>
      BY <1>4, LinkOneIs
    <2>2. Relinked(cur[t], dir[t], first[dir[t]][End(t)])
      BY <1>0, <2>1, RelinkIs DEF Types
    <2>3. (\A j \in Ids \ {cur[t]} : edges'[j] = edges[j]) /\ (\A j \in Ids : edges'[j].end = edges[j].end)
      BY <2>2 DEF Relinked
    <2>4. cur[t] \notin linked /\ ~Unlinks(t)
      BY <1>0, <2>1 DEF Basic, Unlinks
    <2>5. \A u \in Threads \ {t} : pc'[u] = pc[u] /\ dir'[u] = dir[u]
      <3>1. "link" \in Places /\ "link_log" \in Places
        BY DEF Places
      <3> QED
        BY <1>0, <2>1, <3>1, OnwardIs
    <2>6. \A u \in Threads : Unlinks(u) => /\ Unlinks(u)' /\ edges'[cur[u]].end = edges[cur[u]].end
                                           /\ (\A d \in Dirs : Left(u, d) => Left(u, d)')
                                           /\ pc'[u] = pc[u] /\ dir'[u] = dir[u]
      BY <1>01, <2>3, <2>4, <2>5 DEF Unlinks, Left
    <2>7. \A x \in linked : edges'[x] = edges[x]
      BY <1>0, <2>3, <2>4
    <2> QED
      BY <2>1, <2>6, <2>7 DEF Calm
  <1>5. ASSUME NEW t \in Threads,
               UnlinkHead(t) \/ (Search(t) /\ ~(at[t] \in Ids /\ edges[at[t]] # Absent /\ edges[at[t]].next[dir[t]] = cur[t]))
        PROVE  Calm
    <2>1. /\ pc[t] \in {"unlink", "search"} /\ UNCHANGED <<edges, stored, cur, pred, linked>>
          /\ \/ Onward(t, "unlink", "log")
             \/ pc' = [pc EXCEPT ![t] = "search"] /\ UNCHANGED dir
             \/ UNCHANGED <<pc, dir>>
      BY <1>5, UnlinkHeadIs, SearchIs, AbsentAssumption
    <2>3. /\ \A u \in Threads \ {t} : pc'[u] = pc[u] /\ dir'[u] = dir[u]
          /\ pc'[t] \in {"unlink", "search", "log"}
          /\ pc'[t] = "log" => dir'[t] = "out"
          /\ \A d \in Dirs : Left(t, d) => Left(t, d)'
      <3>1. CASE Onward(t, "unlink", "log")
        BY <1>0, <2>1, <3>1, OnwardUnlink DEF Left, Dirs
      <3>2. CASE pc' = [pc EXCEPT ![t] = "search"] /\ UNCHANGED dir
        BY <1>0, <2>1, <3>2 DEF Left, Types
      <3>3. CASE UNCHANGED <<pc, dir>>
        BY <1>0, <2>1, <3>3 DEF Left, Types
      <3> QED
        BY <2>1, <3>1, <3>2, <3>3
    <2>4. \A u \in Threads : Unlinks(u) => /\ Unlinks(u)'
                                           /\ (\A d \in Dirs : Left(u, d) => Left(u, d)')
                                           /\ (pc'[u] = "log" /\ dir'[u] = "in" => pc[u] = "log" /\ dir[u] = "in")
      BY <2>3 DEF Unlinks, Left
    <2> QED
      BY <2>1, <2>4 DEF Calm
  <1>6. CASE UNCHANGED <<edges, first, stored, call, linked>>
    BY <1>6 DEF Calm, call, Unlinks, Left
  <1> QED
    BY <1>1, <1>2, <1>3, <1>4, <1>5, <1>6

\* No edge of a chain points to itself.
LEMMA PathNoLoop ==
  ASSUME NEW nx, NEW S \in SUBSET Ids, NEW h, NEW k, NEW s, Path(nx, h, S, k, s), NEW a \in S
  PROVE  nx[a] # a
  <1>1. /\ k \in Nat /\ s[k + 1] = NULL_EDGE /\ (\A i \in 1 .. k : s[i] \in S /\ nx[s[i]] = s[i + 1])
        /\ \A i, j \in 1 .. k : s[i] = s[j] => i = j
    BY DEF Path
  <1>2. PICK i \in 1 .. k : s[i] = a
    BY DEF Path
  <1>3. nx[a] = s[i + 1]
    BY <1>1, <1>2
  <1>4. CASE i = k
    BY <1>1, <1>2, <1>3, <1>4, IdsAssumption
  <1>5. CASE i # k
    <2>1. i + 1 \in 1 .. k /\ i + 1 # i
      BY <1>1, <1>5
    <2> QED
      BY <1>1, <1>2, <1>3, <2>1
  <1> QED
    BY <1>4, <1>5

\* The edge that a call is linking points to linked edges of the same nodes.
LEMMA JoinedNext ==
  ASSUME Inv, NEW t \in Threads, NEW d \in Dirs, Joined(t, d), edges[cur[t]].next[d] \in Ids
  PROVE  /\ edges[cur[t]].next[d] \in linked /\ edges[cur[t]].next[d] # cur[t]
         /\ edges[edges[cur[t]].next[d]].end[d] = edges[cur[t]].end[d]
  <1>0. Base /\ pc[t] # "idle" /\ cur[t] \in Ids /\ edges[cur[t]] # Absent /\ edges[cur[t]] \in Edge
    BY DEF Inv, Base, Basic, Types, Joined
  <1>1. PICK n \in Nodes : n = edges[cur[t]].end[d]
    BY <1>0, EdgeIs
  <1>2. cur[t] \in On(d, n)
    BY <1>0, <1>1 DEF On, Group, Chained
  <1>3. Follow(d)[cur[t]] = edges[cur[t]].next[d]
    BY <1>0 DEF Follow
  <1>4. edges[cur[t]].next[d] \in On(d, n)
    BY <1>2, <1>3, ChainOf
  <1>5. edges[cur[t]].next[d] # cur[t]
    <2>1. PICK k, s : Path(Follow(d), first[d][n], On(d, n), k, s)
      BY DEF Inv, ChainInv
    <2> QED
      BY <1>2, <1>3, <2>1, PathNoLoop, OnIn
  <1>6. edges[cur[t]].next[d] \in linked
    BY <1>0, <1>1, <1>4, <1>5, OthersAreLinked
  <1> QED
    BY <1>1, <1>4, <1>5, <1>6 DEF On, Group

\* unlink_from_chains takes its edge out behind a predecessor.
LEMMA RecFound ==
  ASSUME Inv, RecInv, Base', NEW t \in Threads, Search(t),
         at[t] \in Ids, edges[at[t]] # Absent, edges[at[t]].next[dir[t]] = cur[t]
  PROVE  RecInv'
  <1>0. Base /\ Types
    BY DEF Inv, Base
  <1>1. /\ pc[t] = "search" /\ cur[t] \in Ids /\ edges[cur[t]] \in Edge /\ dir[t] \in Dirs /\ End(t) \in Nodes
        /\ edge[t] \in Edge /\ edge[t].next[dir[t]] \in Links /\ edges[at[t]] \in Edge
        /\ edges' = [edges EXCEPT ![at[t]].next[dir[t]] = edge[t].next[dir[t]]]
        /\ pred' = [pred EXCEPT ![t][dir[t]] = at[t]]
        /\ Onward(t, "unlink", "log") /\ UNCHANGED <<stored, cur, linked>>
    BY <1>0, SearchIs
  <1>2. PICK c \in Dirs : c = dir[t]
    BY <1>1
  <1>3. PICK n \in Nodes : n = edges[cur[t]].end[c]
    BY <1>1, <1>2 DEF End
  <1> DEFINE p == at[t]
  <1>4. cur[t] \in On(c, n) /\ p \in On(c, n) /\ p # cur[t]
    BY <1>2, <1>3, FoundDrops DEF Drops
  <1>5. /\ cur[t] \in linked /\ p \in linked /\ p \in Ids /\ edges[p].end[c] = n
        /\ edge[t] = edges[cur[t]] /\ linked \in SUBSET Ids
    <2>1. Unlinks(t) /\ pc[t] # "idle"
      BY <1>1 DEF Unlinks
    <2>2. cur[t] \in linked /\ p \in linked
      BY <1>0, <1>3, <1>4, <2>1, OthersAreLinked
    <2> QED
      BY <1>0, <1>4, <2>1, <2>2 DEF Inv, CopyInv, On, Group, Types
  <1>6. Relinked(p, c, edges[cur[t]].next[c])
    BY <1>0, <1>1, <1>2, <1>5, RelinkIs DEF Types
  <1>7. /\ \A j \in Ids \ {p} : edges'[j] = edges[j]
        /\ \A j \in Ids : edges'[j].end = edges[j].end
        /\ \A e \in Dirs : edges'[p].next[e] = IF e = c THEN edges[cur[t]].next[c] ELSE edges[p].next[e]
    BY <1>6 DEF Relinked
  <1>8. /\ \A u \in Threads \ {t} : pc'[u] = pc[u] /\ dir'[u] = dir[u]
        /\ pc'[t] \in {"unlink", "log"} /\ (pc'[t] = "log" => dir'[t] = "out")
        /\ Left(t, c)' /\ ~Left(t, c) /\ \A d \in Dirs : Left(t, d) => Left(t, d)'
    BY <1>0, <1>1, <1>2, OnwardUnlink DEF Left, Dirs
  <1>9. /\ pred'[t][c] = p /\ \A u \in Threads, d \in Dirs : ~(u = t /\ d = c) => pred'[u][d] = pred[u][d]
    BY <1>0, <1>1, <1>2 DEF Types
  <1> HIDE DEF p
  <1>10. \A u \in Threads : Unlinks(u) => Unlinks(u)' /\ \A d \in Dirs : Left(u, d) => Left(u, d)'
    BY <1>8 DEF Unlinks, Left
  <1>11. ASSUME NEW u \in Threads, NEW d \in Dirs PROVE PredOf(u, d)'
    <2>1. CASE u = t /\ d = c
      BY <1>1, <1>3, <1>4, <1>5, <1>7, <1>8, <1>9, <2>1 DEF PredOf, Unlinks
    <2>2. CASE ~(u = t /\ d = c)
      <3>1. pred'[u][d] = pred[u][d] /\ PredOf(u, d)
        BY <1>9, <2>2 DEF RecInv, PredInv
      <3>2. pc[u] # "idle" => cur[u] \in Ids
        BY <1>0 DEF Base, Basic
      <3>3. Unlinks(u) => cur[u] \in Ids
        BY <3>2 DEF Unlinks
      <3> QED
        BY <1>1, <1>5, <1>7, <1>10, <3>1, <3>3 DEF PredOf
    <2> QED
      BY <2>1, <2>2
  <1>12. ASSUME NEW x \in linked, NEW d \in Dirs PROVE NextOf(x, d)'
    <2>1. NextOf(x, d) /\ NextOf(cur[t], c)
      BY <1>5 DEF RecInv, NextInv
    <2>2. edges'[x].next[d] = IF x = p /\ d = c THEN edges[cur[t]].next[c] ELSE edges[x].next[d]
      BY <1>5, <1>7
    <2>3. x \in Ids /\ edges'[x].end = edges[x].end
      BY <1>5, <1>7
    <2>4. linked' = linked /\ linked \subseteq Ids
      BY <1>1, <1>5
    <2>5. ASSUME NEW y \in Ids, y = edges'[x].next[d] PROVE y \in linked /\ edges[y].end[d] = edges[x].end[d]
      <3>1. CASE x = p /\ d = c
        BY <1>3, <1>5, <2>1, <2>2, <2>5, <3>1 DEF NextOf
      <3>2. CASE ~(x = p /\ d = c)
        BY <2>1, <2>2, <2>5, <3>2 DEF NextOf
      <3> QED
        BY <3>1, <3>2
    <2>6. \A y \in Ids : edges'[y].end = edges[y].end
      BY <1>7
    <2> QED
      BY <2>3, <2>4, <2>5, <2>6 DEF NextOf
  <1>13. ASSUME NEW x \in linked, NEW d \in Dirs PROVE StoreOf(x, d)'
    <2>1. StoreOf(x, d) /\ stored' = stored
      BY <1>1 DEF RecInv, StoreInv
    <2>2. edges'[x].next[d] = IF x = p /\ d = c THEN edges[cur[t]].next[c] ELSE edges[x].next[d]
      BY <1>5, <1>7
    <2>3. CASE stored[x].next[d] = edges[x].next[d] /\ ~(x = p /\ d = c)
      BY <2>1, <2>2, <2>3 DEF StoreOf
    <2>4. CASE stored[x].next[d] = cur[t] /\ x = p /\ d = c
      <3>1. Unlinks(t)'
        BY <1>8 DEF Unlinks
      <3>2. ~(pc'[t] = "log" /\ dir'[t] = "in" /\ d = "out")
        BY <1>8
      <3>3. Stale(x, d)'
        BY <1>1, <1>9, <2>4, <3>1, <3>2 DEF Stale
      <3> QED
        BY <2>1, <3>3 DEF StoreOf
    <2>5. CASE Stale(x, d)
      <3>1. PICK u \in Threads : /\ Unlinks(u) /\ pred[u][d] = x /\ stored[x].next[d] = cur[u]
                                 /\ ~(pc[u] = "log" /\ dir[u] = "in" /\ d = "out")
        BY <2>5 DEF Stale
      <3>2. PredOf(u, d) /\ x \in Ids
        BY <1>5 DEF RecInv, PredInv
      <3>3. ~(u = t /\ d = c)
        BY <1>8, <3>1, <3>2 DEF PredOf
      <3>4. pred'[u][d] = x /\ Unlinks(u)'
        BY <1>9, <1>10, <3>1, <3>3
      <3>5. ~(pc'[u] = "log" /\ dir'[u] = "in" /\ d = "out")
        BY <1>8, <3>1
      <3>6. Stale(x, d)'
        BY <1>1, <3>1, <3>4, <3>5 DEF Stale
      <3> QED
        BY <2>1, <3>6 DEF StoreOf
    <2>6. edges[p].next[c] = cur[t]
      BY <1>2 DEF p
    <2> QED
      BY <2>1, <2>3, <2>4, <2>5, <2>6 DEF StoreOf
  <1>14. ASSUME NEW d \in Dirs PROVE \E B, r : Ranks(d, B, r)'
    <2>1. PICK B, r : Ranks(d, B, r)
      BY DEF RecInv, RankInv
    <2>2. ASSUME NEW x \in linked, edges'[x].next[d] \in Ids PROVE r[edges'[x].next[d]] < r[x]
      <3>1. edges'[x].next[d] = IF x = p /\ d = c THEN edges[cur[t]].next[c] ELSE edges[x].next[d]
        BY <1>5, <1>7
      <3>2. CASE x = p /\ d = c
        <4>1. edges[p].next[c] = cur[t]
          BY <1>2 DEF p
        <4>2. r[cur[t]] < r[p]
          BY <1>1, <1>5, <2>1, <3>2, <4>1 DEF Ranks
        <4>3. r[edges[cur[t]].next[c]] < r[cur[t]] /\ edges'[x].next[d] = edges[cur[t]].next[c]
          BY <1>5, <2>1, <2>2, <3>1, <3>2 DEF Ranks
        <4>4. r[edges[cur[t]].next[c]] \in Nat /\ r[cur[t]] \in Nat /\ r[p] \in Nat
          BY <1>1, <1>5, <2>1, <2>2, <4>3 DEF Ranks
        <4> QED
          BY <3>2, <4>2, <4>3, <4>4
      <3>3. CASE ~(x = p /\ d = c)
        BY <2>1, <2>2, <3>1, <3>3 DEF Ranks
      <3> QED
        BY <3>2, <3>3
    <2>3. Ranks(d, B, r)'
      BY <1>1, <2>1, <2>2 DEF Ranks
    <2> QED
      BY <2>3
  <1> QED
    BY <1>1, <1>11, <1>12, <1>13, <1>14 DEF RecInv, PredInv, NextInv, StoreInv, RankInv

\* link_into_chains stores its edge: it gets the number above all linked ones.
LEMMA RecLinkLog ==
  ASSUME Inv, RecInv, Base', NEW t \in Threads, LinkLog(t)
  PROVE  RecInv'
  <1>0. Base /\ Types /\ linked \in SUBSET Ids
    BY DEF Inv, Base, Types
  <1>1. /\ pc[t] = "link_log" /\ cur[t] \in Ids /\ edges[cur[t]] \in Edge /\ Return(t)
        /\ \A j \in Ids : stored'[j] = IF j = cur[t] THEN edges[j] ELSE stored[j]
        /\ linked' = linked \cup {cur[t]} /\ UNCHANGED edges
    BY <1>0, LinkLogIs
  <1>2. /\ pc'[t] = "idle" /\ (\A d \in Dirs : pred'[t][d] = NULL_EDGE)
        /\ \A u \in Threads \ {t} : pc'[u] = pc[u] /\ dir'[u] = dir[u] /\ cur'[u] = cur[u] /\ pred'[u] = pred[u]
    BY <1>0, <1>1, ReturnIs
  <1>3. cur[t] \notin linked /\ ~Unlinks(t) /\ edges[cur[t]] # Absent
    BY <1>0, <1>1, AbsentAssumption DEF Base, Basic, Unlinks
  <1>4. ASSUME NEW d \in Dirs, edges[cur[t]].next[d] \in Ids
        PROVE  /\ edges[cur[t]].next[d] \in linked
               /\ edges[edges[cur[t]].next[d]].end[d] = edges[cur[t]].end[d]
    BY <1>1, <1>4, JoinedNext DEF Joined
  <1>5. ASSUME NEW u \in Threads, NEW d \in Dirs PROVE PredOf(u, d)'
    <2>1. CASE u = t
      BY <1>2, <2>1, IdsAssumption DEF PredOf
    <2>2. CASE u # t
      <3>1. PredOf(u, d)
        BY DEF RecInv, PredInv
      <3>2. (Unlinks(u)' <=> Unlinks(u)) /\ (Left(u, d)' <=> Left(u, d))
        BY <1>2, <2>2 DEF Unlinks, Left
      <3> QED
        BY <1>1, <1>2, <2>2, <3>1, <3>2 DEF PredOf
    <2> QED
      BY <2>1, <2>2
  <1>6. ASSUME NEW x \in linked', NEW d \in Dirs PROVE NextOf(x, d)'
    <2>1. CASE x = cur[t]
      BY <1>1, <1>4, <2>1 DEF NextOf
    <2>2. CASE x # cur[t]
      <3>1. NextOf(x, d)
        BY <1>1, <2>2 DEF RecInv, NextInv
      <3> QED
        BY <1>1, <3>1 DEF NextOf
    <2> QED
      BY <2>1, <2>2
  <1>7. ASSUME NEW x \in linked', NEW d \in Dirs PROVE StoreOf(x, d)'
    <2>1. CASE x = cur[t]
      BY <1>1, <1>3, <2>1 DEF StoreOf
    <2>2. CASE x # cur[t]
      <3>1. StoreOf(x, d) /\ x \in linked /\ stored'[x] = stored[x]
        BY <1>0, <1>1, <2>2 DEF RecInv, StoreInv
      <3>2. ASSUME Stale(x, d) PROVE Stale(x, d)'
        <4>1. PICK u \in Threads : /\ Unlinks(u) /\ pred[u][d] = x /\ stored[x].next[d] = cur[u]
                                   /\ ~(pc[u] = "log" /\ dir[u] = "in" /\ d = "out")
          BY <3>2 DEF Stale
        <4>2. u # t
          BY <1>3, <4>1
        <4>3. Unlinks(u)'
          BY <1>2, <4>1, <4>2 DEF Unlinks
        <4> QED
          BY <1>2, <3>1, <4>1, <4>2, <4>3 DEF Stale
      <3> QED
        BY <1>1, <3>1, <3>2 DEF StoreOf
    <2> QED
      BY <2>1, <2>2
  <1>8. ASSUME NEW d \in Dirs PROVE \E B, r : Ranks(d, B, r)'
    <2>1. PICK B, r : Ranks(d, B, r)
      BY DEF RecInv, RankInv
    <2>2. /\ B \in Nat /\ r \in [Ids -> Nat] /\ (\A x \in Ids : x \in linked <=> r[x] <= B)
          /\ (\A x \in Ids : stored[x] # Absent /\ stored[x].next[d] \in Ids => r[stored[x].next[d]] < r[x])
          /\ (\A x \in linked : edges[x].next[d] \in Ids => r[edges[x].next[d]] < r[x])
      BY <2>1 DEF Ranks
    <2>0. PICK q : q = [x \in Ids |-> IF x = cur[t] THEN B + 1 ELSE IF r[x] <= B THEN r[x] ELSE r[x] + 1]
      OBVIOUS
    <2>3. q \in [Ids -> Nat] /\ B + 1 \in Nat /\ q[cur[t]] = B + 1
      BY <1>1, <2>0, <2>2
    <2>4. \A x \in Ids : x \in linked => q[x] = r[x] /\ q[x] <= B
      BY <1>3, <2>0, <2>2
    <2>5. \A x \in Ids : x \notin linked /\ x # cur[t] => q[x] = r[x] + 1 /\ q[x] > B + 1
      BY <2>0, <2>2
    <2>6. ASSUME NEW x \in Ids PROVE x \in linked' <=> q[x] <= B + 1
      BY <1>1, <2>2, <2>3, <2>4, <2>5, <2>6
    <2>7. ASSUME NEW x \in Ids, NEW y \in Ids, x # cur[t], r[y] < r[x] PROVE q[y] < q[x]
      <3>1. CASE x \in linked
        <4>1. r[x] \in Nat /\ r[y] \in Nat /\ r[x] <= B
          BY <2>2, <3>1
        <4>2. r[y] <= B
          BY <2>2, <2>7, <4>1
        <4>3. y \in linked
          BY <2>2, <4>2
        <4> QED
          BY <2>4, <2>7, <3>1, <4>3
      <3>2. CASE x \notin linked
        <4>1. q[x] = r[x] + 1 /\ q[x] > B + 1 /\ r[x] \in Nat /\ r[y] \in Nat /\ q[x] \in Nat
          BY <2>2, <2>3, <2>5, <2>7, <3>2
        <4>2. CASE y = cur[t]
          BY <2>3, <4>1, <4>2
        <4>3. CASE y # cur[t] /\ y \in linked
          <5>1. q[y] <= B /\ q[y] \in Nat
            BY <2>3, <2>4, <4>3
          <5> QED
            BY <2>2, <4>1, <5>1
        <4>4. CASE y # cur[t] /\ y \notin linked
          <5>1. q[y] = r[y] + 1
            BY <2>5, <4>4
          <5> QED
            BY <2>7, <4>1, <5>1
        <4> QED
          BY <4>2, <4>3, <4>4
      <3> QED
        BY <3>1, <3>2
    <2>8. ASSUME edges[cur[t]].next[d] \in Ids PROVE q[edges[cur[t]].next[d]] < q[cur[t]]
      <3>1. q[edges[cur[t]].next[d]] <= B /\ q[edges[cur[t]].next[d]] \in Nat
        BY <1>4, <2>3, <2>4, <2>8
      <3> QED
        BY <2>2, <2>3, <3>1
    <2>9. ASSUME NEW x \in Ids, stored'[x] # Absent /\ stored'[x].next[d] \in Ids PROVE q[stored'[x].next[d]] < q[x]
      <3>1. CASE x = cur[t]
        BY <1>1, <2>8, <2>9, <3>1
      <3>2. CASE x # cur[t]
        BY <1>1, <2>2, <2>7, <2>9, <3>2
      <3> QED
        BY <3>1, <3>2
    <2>10. ASSUME NEW x \in linked', edges[x].next[d] \in Ids PROVE q[edges[x].next[d]] < q[x]
      <3>1. CASE x = cur[t]
        BY <2>8, <2>10, <3>1
      <3>2. CASE x # cur[t]
        <4>1. x \in linked /\ x \in Ids
          BY <1>0, <1>1, <3>2
        <4> QED
          BY <2>2, <2>7, <2>10, <3>2, <4>1
      <3> QED
        BY <3>1, <3>2
    <2>11. Ranks(d, B + 1, q)'
      BY <1>1, <2>3, <2>6, <2>9, <2>10 DEF Ranks
    <2> QED
      BY <2>11
  <1> QED
    BY <1>5, <1>6, <1>7, <1>8 DEF RecInv, PredInv, NextInv, StoreInv, RankInv

\* Records that are brought up to date do not disturb the numbers.
LEMMA RankSame ==
  ASSUME RankInv, UNCHANGED <<edges, linked>>,
         \A x \in Ids : stored'[x] = stored[x] \/ (x \in linked /\ stored'[x] = edges[x])
  PROVE  RankInv'
  <1> SUFFICES ASSUME NEW d \in Dirs PROVE \E B, r : Ranks(d, B, r)'
    BY DEF RankInv
  <1>1. PICK B, r : Ranks(d, B, r)
    BY DEF RankInv
  <1>2. ASSUME NEW x \in Ids, stored'[x] # Absent /\ stored'[x].next[d] \in Ids PROVE r[stored'[x].next[d]] < r[x]
    BY <1>1, <1>2 DEF Ranks
  <1>3. Ranks(d, B, r)'
    BY <1>1, <1>2 DEF Ranks
  <1> QED
    BY <1>3

\* An edge that is unlinked gets a number above all linked ones.
LEMMA RankUnlinked ==
  ASSUME RankInv, NEW c \in linked, linked \in SUBSET Ids, edges' = edges, linked' = linked \ {c},
         \A x \in Ids : stored'[x] = stored[x] \/ (x \in linked /\ stored'[x] = edges[x]),
         \A x \in linked', d \in Dirs : edges[x].next[d] # c /\ stored'[x].next[d] # c
  PROVE  RankInv'
  <1> SUFFICES ASSUME NEW d \in Dirs PROVE \E B, r : Ranks(d, B, r)'
    BY DEF RankInv
  <1>1. PICK B, r : Ranks(d, B, r)
    BY DEF RankInv
  <1>2. /\ B \in Nat /\ r \in [Ids -> Nat] /\ (\A x \in Ids : x \in linked <=> r[x] <= B)
        /\ (\A x \in Ids : stored[x] # Absent /\ stored[x].next[d] \in Ids => r[stored[x].next[d]] < r[x])
        /\ (\A x \in linked : edges[x].next[d] \in Ids => r[edges[x].next[d]] < r[x])
    BY <1>1 DEF Ranks
  <1>0. PICK q : q = [x \in Ids |-> IF x = c THEN B + 1 ELSE IF r[x] <= B THEN r[x] ELSE r[x] + 1]
    OBVIOUS
  <1>3. q \in [Ids -> Nat] /\ q[c] = B + 1 /\ c \in Ids
    BY <1>0, <1>2
  <1>4. \A x \in Ids : x \in linked' => q[x] = r[x] /\ q[x] <= B
    BY <1>0, <1>2
  <1>5. \A x \in Ids : x \notin linked => q[x] = r[x] + 1 /\ q[x] > B + 1
    BY <1>0, <1>2
  <1>6. ASSUME NEW x \in Ids PROVE x \in linked' <=> q[x] <= B
    <2>1. CASE x = c
      BY <1>2, <1>3, <2>1
    <2>2. CASE x # c /\ x \in linked
      BY <1>4, <2>2
    <2>3. CASE x \notin linked
      <3>1. q[x] > B + 1 /\ q[x] \in Nat
        BY <1>3, <1>5, <2>3
      <3> QED
        BY <1>2, <2>3, <3>1
    <2> QED
      BY <2>1, <2>2, <2>3
  <1>7. ASSUME NEW x \in Ids, NEW y \in Ids, r[y] < r[x], x \in linked' => y # c PROVE q[y] < q[x]
    <2>0. r[x] \in Nat /\ r[y] \in Nat /\ q[x] \in Nat /\ q[y] \in Nat
      BY <1>2, <1>3
    <2>1. CASE x \in linked
      <3>1. r[x] <= B
        BY <1>2, <2>1
      <3>2. r[y] <= B
        BY <1>2, <1>7, <2>0, <3>1
      <3>3. y \in linked /\ y # x
        BY <1>2, <1>7, <2>0, <3>2
      <3>4. y # c
        BY <1>7, <2>1, <3>3
      <3>5. q[y] = r[y] /\ q[y] <= B
        BY <1>4, <3>3, <3>4
      <3>6. CASE x = c
        BY <1>2, <1>3, <2>0, <3>5, <3>6
      <3>7. CASE x # c
        <4>1. q[x] = r[x]
          BY <1>4, <2>1, <3>7
        <4> QED
          BY <1>7, <3>5, <4>1
      <3> QED
        BY <3>6, <3>7
    <2>2. CASE x \notin linked
      <3>1. q[x] = r[x] + 1 /\ q[x] > B + 1
        BY <1>5, <2>2
      <3>2. CASE y = c
        BY <1>2, <1>3, <2>0, <3>1, <3>2
      <3>3. CASE y # c /\ y \in linked
        <4>1. q[y] <= B
          BY <1>4, <3>3
        <4> QED
          BY <1>2, <2>0, <3>1, <4>1
      <3>4. CASE y \notin linked
        <4>1. q[y] = r[y] + 1
          BY <1>5, <3>4
        <4> QED
          BY <1>7, <2>0, <3>1, <4>1
      <3> QED
        BY <3>2, <3>3, <3>4
    <2> QED
      BY <2>1, <2>2
  <1>8. ASSUME NEW x \in Ids, stored'[x] # Absent /\ stored'[x].next[d] \in Ids PROVE q[stored'[x].next[d]] < q[x]
    <2>1. r[stored'[x].next[d]] < r[x]
      BY <1>2, <1>8
    <2> QED
      BY <1>7, <1>8, <2>1
  <1>9. ASSUME NEW x \in linked', edges[x].next[d] \in Ids PROVE q[edges[x].next[d]] < q[x]
    <2>1. r[edges[x].next[d]] < r[x] /\ x \in Ids
      BY <1>2, <1>9
    <2> QED
      BY <1>7, <1>9, <2>1
  <1>10. Ranks(d, B, q)'
    BY <1>2, <1>3, <1>6, <1>8, <1>9 DEF Ranks
  <1> QED
    BY <1>10

\* unlink_from_chains brings the records of its predecessors up to date.
LEMMA RecUnlinkLog ==
  ASSUME Inv, RecInv, Base', NEW t \in Threads, UnlinkLog(t)
  PROVE  RecInv'
  <1>0. Base /\ Types /\ Apart /\ linked \in SUBSET Ids /\ (\A x \in linked : edges[x] # Absent)
    BY DEF Inv, Base, Types
  <1>1. /\ pc[t] = "log" /\ cur[t] \in Ids /\ edges[cur[t]] \in Edge /\ edges' = edges /\ dir[t] \in Dirs
        /\ \A j \in Ids : stored'[j] = IF j = pred[t][dir[t]] /\ edges[j] # Absent THEN edges[j] ELSE stored[j]
        /\ \/ /\ dir[t] = "out" /\ dir' = [dir EXCEPT ![t] = "in"]
              /\ UNCHANGED <<pc, cur, edge, at, pred, linked>>
           \/ dir[t] = "in" /\ linked' = linked \ {cur[t]} /\ Return(t)
    BY <1>0, UnlinkLogIs DEF Types
  <1>2. Unlinks(t) /\ pc[t] # "idle"
    BY <1>1 DEF Unlinks
  <1>3. ASSUME NEW x \in Ids PROVE stored'[x] = stored[x] \/ (x \in linked /\ stored'[x] = edges[x])
    <2>1. CASE x = pred[t][dir[t]]
      <3>1. x \in linked
        BY <1>1, <2>1 DEF RecInv, PredInv, PredOf
      <3> QED
        BY <1>0, <1>1, <2>1, <3>1
    <2>2. CASE x # pred[t][dir[t]]
      BY <1>1, <2>2
    <2> QED
      BY <2>1, <2>2
  <1>4. \A x \in linked : x = pred[t][dir[t]] => stored'[x] = edges[x]
    BY <1>0, <1>1
  <1>5. CASE dir[t] = "out" /\ dir' = [dir EXCEPT ![t] = "in"] /\ UNCHANGED <<pc, cur, edge, at, pred, linked>>
    <2>1. dir'[t] = "in" /\ \A u \in Threads \ {t} : dir'[u] = dir[u]
      BY <1>0, <1>5 DEF Types
    <2>2. ASSUME NEW u \in Threads, NEW d \in Dirs PROVE (Unlinks(u)' <=> Unlinks(u)) /\ (Left(u, d) => Left(u, d)')
      BY <1>1, <1>5, <2>1 DEF Unlinks, Left
    <2>3. PredInv'
      <3> SUFFICES ASSUME NEW u \in Threads, NEW d \in Dirs PROVE PredOf(u, d)'
        BY DEF PredInv
      <3>1. PredOf(u, d)
        BY DEF RecInv, PredInv
      <3> QED
        BY <1>1, <1>5, <2>2, <3>1 DEF PredOf
    <2>4. NextInv'
      BY <1>1, <1>5 DEF RecInv, NextInv, NextOf
    <2>5. StoreInv'
      <3> SUFFICES ASSUME NEW x \in linked, NEW d \in Dirs PROVE StoreOf(x, d)'
        BY <1>5 DEF StoreInv
      <3>1. StoreOf(x, d) /\ edges[x] # Absent /\ x \in Ids
        BY <1>0 DEF RecInv, StoreInv
      <3>2. CASE stored'[x] = edges[x]
        BY <1>1, <3>1, <3>2 DEF StoreOf
      <3>3. CASE stored'[x] # edges[x]
        <4>1. stored'[x] = stored[x] /\ x # pred[t]["out"]
          BY <1>3, <1>4, <1>5, <3>1, <3>3
        <4>2. ASSUME Stale(x, d) PROVE Stale(x, d)'
          <5>1. PICK u \in Threads : /\ Unlinks(u) /\ pred[u][d] = x /\ stored[x].next[d] = cur[u]
                                     /\ ~(pc[u] = "log" /\ dir[u] = "in" /\ d = "out")
            BY <4>2 DEF Stale
          <5>2. u = t => d # "out"
            BY <4>1, <5>1
          <5>3. ~(pc'[u] = "log" /\ dir'[u] = "in" /\ d = "out")
            BY <1>5, <2>1, <5>1, <5>2
          <5>4. Unlinks(u)'
            BY <2>2, <5>1
          <5> QED
            BY <1>5, <4>1, <5>1, <5>3, <5>4 DEF Stale
        <4> QED
          BY <1>1, <3>1, <4>1, <4>2 DEF StoreOf
      <3> QED
        BY <3>2, <3>3
    <2>6. RankInv'
      BY <1>1, <1>3, <1>5, RankSame DEF RecInv
    <2> QED
      BY <2>3, <2>4, <2>5, <2>6 DEF RecInv
  <1>6. CASE dir[t] = "in" /\ linked' = linked \ {cur[t]} /\ Return(t)
    <2>1. /\ pc'[t] = "idle" /\ (\A d \in Dirs : pred'[t][d] = NULL_EDGE)
          /\ \A u \in Threads \ {t} : pc'[u] = pc[u] /\ dir'[u] = dir[u] /\ cur'[u] = cur[u] /\ pred'[u] = pred[u]
      BY <1>0, <1>6, ReturnIs
    <2>2. \A u \in Threads \ {t}, d \in Dirs : (Unlinks(u)' <=> Unlinks(u)) /\ (Left(u, d)' <=> Left(u, d))
      BY <2>1 DEF Unlinks, Left
    <2>3. ASSUME NEW u \in Threads, NEW d \in Dirs PROVE PredOf(u, d)'
      <3>1. CASE u = t
        BY <2>1, <3>1, IdsAssumption DEF PredOf
      <3>2. CASE u # t
        <4>1. PredOf(u, d)
          BY DEF RecInv, PredInv
        <4>2. Unlinks(u) => edges[cur[u]].end[d] # edges[cur[t]].end[d]
          BY <1>0, <1>2, <3>2 DEF Apart, Unlinks
        <4> QED
          BY <1>1, <1>6, <2>1, <2>2, <3>2, <4>1, <4>2 DEF PredOf
      <3> QED
        BY <3>1, <3>2
    <2>4. ASSUME NEW x \in linked, x # cur[t], NEW d \in Dirs PROVE edges[x].next[d] # cur[t]
      <3>1. SUFFICES ASSUME edges[x].next[d] = cur[t] PROVE FALSE
        OBVIOUS
      <3>2. PICK n \in Nodes : n = edges[cur[t]].end[d]
        BY <1>1, EdgeIs
      <3>3. edges[x].end[d] = n
        BY <1>1, <3>1, <3>2 DEF RecInv, NextInv, NextOf
      <3>4. \A u \in Threads : cur[u] = x => ~Left(u, d)
        <4>1. SUFFICES ASSUME NEW u \in Threads, cur[u] = x, Left(u, d) PROVE FALSE
          OBVIOUS
        <4>2. pc[u] # "idle" /\ u # t
          BY <2>4, <4>1 DEF Left
        <4> QED
          BY <1>0, <1>2, <3>2, <3>3, <4>1, <4>2 DEF Apart
      <3>5. x \in On(d, n)
        BY <1>0, <3>3, <3>4 DEF On, Group, Chained
      <3>6. Follow(d)[x] = cur[t]
        BY <1>0, <3>1 DEF Follow
      <3>7. cur[t] \in On(d, n)
        BY <1>1, <3>5, <3>6, ChainOf
      <3>8. ~Chained(d, cur[t])
        BY <1>0, <1>1, <1>2, ChainedMine DEF Left, Joined
      <3> QED
        BY <3>7, <3>8 DEF On
    <2>5. ASSUME NEW x \in linked', NEW d \in Dirs PROVE NextOf(x, d)'
      <3>1. NextOf(x, d) /\ edges[x].next[d] # cur[t]
        BY <1>6, <2>4 DEF RecInv, NextInv
      <3> QED
        BY <1>1, <1>6, <3>1 DEF NextOf
    <2>6. ASSUME NEW x \in linked', NEW d \in Dirs PROVE StoreOf(x, d)'
      <3>1. StoreOf(x, d) /\ edges[x] # Absent /\ x \in Ids /\ x \in linked
        BY <1>0, <1>6 DEF RecInv, StoreInv
      <3>2. CASE stored'[x] = edges[x]
        BY <1>1, <3>1, <3>2 DEF StoreOf
      <3>3. CASE stored'[x] # edges[x]
        <4>1. stored'[x] = stored[x] /\ x # pred[t]["in"]
          BY <1>3, <1>4, <1>6, <3>1, <3>3
        <4>2. ASSUME Stale(x, d) PROVE Stale(x, d)'
          <5>1. PICK u \in Threads : /\ Unlinks(u) /\ pred[u][d] = x /\ stored[x].next[d] = cur[u]
                                     /\ ~(pc[u] = "log" /\ dir[u] = "in" /\ d = "out")
            BY <4>2 DEF Stale
          <5>2. u # t
            BY <1>1, <1>6, <4>1, <5>1 DEF Dirs
          <5> QED
            BY <2>1, <2>2, <4>1, <5>1, <5>2 DEF Stale
        <4> QED
          BY <1>1, <3>1, <4>1, <4>2 DEF StoreOf
      <3> QED
        BY <3>2, <3>3
    <2>7. RankInv'
      <3>1. CASE cur[t] \notin linked
        <4>1. linked' = linked
          BY <1>6, <3>1
        <4> QED
          BY <1>1, <1>3, <4>1, RankSame DEF RecInv
      <3>2. CASE cur[t] \in linked
        <4>1. ASSUME NEW x \in linked', NEW d \in Dirs PROVE edges[x].next[d] # cur[t] /\ stored'[x].next[d] # cur[t]
          <5>1. edges[x].next[d] # cur[t]
            BY <1>6, <2>4
          <5>2. CASE stored'[x].next[d] = edges'[x].next[d]
            BY <1>1, <5>1, <5>2
          <5>3. CASE Stale(x, d)'
            <6>1. PICK u \in Threads : Unlinks(u)' /\ stored'[x].next[d] = cur'[u]
              BY <5>3 DEF Stale
            <6>2. u # t
              BY <2>1, <6>1 DEF Unlinks
            <6>3. cur'[u] = cur[u] /\ cur[u] # cur[t]
              BY <1>0, <1>2, <2>1, <6>2, CursDiffer
            <6> QED
              BY <5>1, <6>1, <6>3
          <5> QED
            BY <2>6, <5>2, <5>3 DEF StoreOf
        <4> QED
          BY <1>0, <1>1, <1>3, <1>6, <3>2, <4>1, RankUnlinked DEF RecInv
      <3> QED
        BY <3>1, <3>2
    <2> QED
      BY <2>3, <2>5, <2>6, <2>7 DEF RecInv, PredInv, NextInv, StoreInv
  <1> QED
    BY <1>1, <1>5, <1>6

\* In the first state nothing is recorded.
LEMMA InitRec == Init => RecInv
  <1> SUFFICES ASSUME Init PROVE RecInv
    OBVIOUS
  <1>1. PredInv
    BY IdsAssumption DEF Init, PredInv, PredOf, NoPred
  <1>2. NextInv /\ StoreInv
    BY DEF Init, NextInv, StoreInv
  <1>3. ASSUME NEW d \in Dirs PROVE \E B, r : Ranks(d, B, r)
    <2> DEFINE r == [x \in Ids |-> 1]
    <2>1. r \in [Ids -> Nat] /\ (\A x \in Ids : r[x] = 1) /\ 0 \in Nat /\ ~(1 <= 0)
      OBVIOUS
    <2> HIDE DEF r
    <2>2. Ranks(d, 0, r)
      BY <2>1 DEF Init, Ranks
    <2> QED
      BY <2>2
  <1> QED
    BY <1>1, <1>2, <1>3 DEF RecInv, RankInv

\* Every step keeps the records in order.
LEMMA RecStep == Inv /\ RecInv /\ [Next]_vars => RecInv'
  <1> SUFFICES ASSUME Inv, RecInv, [Next]_vars PROVE RecInv'
    OBVIOUS
  <1>0. Base /\ Types /\ Base'
    BY BaseStep DEF Inv, Base
  <1>1. CASE Calm
    BY <1>0, <1>1, RecCalm
  <1>2. CASE ~Calm
    <2>1. CASE \E t \in Threads : LinkLog(t)
      BY <1>0, <2>1, RecLinkLog
    <2>2. CASE \E t \in Threads : UnlinkLog(t)
      BY <1>0, <2>2, RecUnlinkLog
    <2>3. CASE \E t \in Threads : Search(t)
      <3>1. PICK t \in Threads : Search(t)
        BY <2>3
      <3>2. at[t] \in Ids /\ edges[at[t]] # Absent /\ edges[at[t]].next[dir[t]] = cur[t]
        BY <1>0, <1>2, <3>1, CalmSteps
      <3> QED
        BY <1>0, <3>1, <3>2, RecFound
    <2>4. CASE \E w \in Walkers : (\E d \in Dirs, n \in Nodes : StartWalk(w, d, n)) \/ WalkOn(w) \/ WalkEnd(w)
      <3>1. UNCHANGED <<edges, first, stored, call, linked>>
        BY <2>4, WalksRead
      <3> QED
        BY <1>0, <1>2, <3>1, CalmSteps
    <2>5. CASE UNCHANGED vars
      BY <1>0, <1>2, <2>5, CalmSteps DEF vars
    <2>6. CASE \/ \E id \in Ids : hard_delete(id) \/ \E ends \in Ends : insert_edge(id, ends[1], ends[2])
               \/ \E t \in Threads : \/ \E id \in Ids : link_into_chains(t, id) \/ unlink_from_chains(t, id)
                                     \/ LinkOne(t) \/ UnlinkHead(t)
      BY <1>0, <1>2, <2>6, CalmSteps
    <2> QED
      BY <2>1, <2>2, <2>3, <2>4, <2>5, <2>6 DEF Next
  <1> QED
    BY <1>1, <1>2

\* Numbers that fall along the recorded links leave no room for a circle.
LEMMA RecEnds == Types /\ RankInv => RecoveredChainsEnd
  <1> SUFFICES ASSUME Types, RankInv, NEW d \in Dirs, NEW id \in Ids
               PROVE  Nth(stored, d, id)[Cardinality(Ids)] = NULL_EDGE
    BY DEF RecoveredChainsEnd
  <1> DEFINE N == Cardinality(Ids)
             nth == Nth(stored, d, id)
  <1>1. stored \in [Ids -> Edge \cup {Absent}] /\ id \in Links
    BY DEF Types, Links
  <1>2. N \in Nat /\ nth \in [0 .. N -> Links] /\ \A n \in 1 .. N : nth[n] = Turn(stored, d, nth[n - 1])
    BY <1>1, NthIs
  <1> HIDE DEF N, nth
  <1>3. SUFFICES ASSUME nth[N] \in Ids PROVE FALSE
    BY <1>2 DEF Links, N, nth
  <1>4. PICK B, r : Ranks(d, B, r)
    BY DEF RankInv
  <1>5. ASSUME NEW n \in 1 .. N, nth[n] \in Ids
        PROVE  nth[n - 1] \in Ids /\ r[nth[n]] < r[nth[n - 1]]
    <2>1. nth[n] = Turn(stored, d, nth[n - 1])
      BY <1>2
    <2>2. /\ nth[n - 1] \in Ids /\ stored[nth[n - 1]] # Absent
          /\ nth[n] = stored[nth[n - 1]].next[d]
      BY <1>5, <2>1, IdsAssumption DEF Turn
    <2> QED
      BY <1>4, <1>5, <2>2 DEF Ranks
  <1>6. \A n \in 0 .. N : nth[n] \in Ids
    <2> DEFINE T == {n \in 0 .. N : nth[N - n] \in Ids}
    <2>1. 0 \in T
      BY <1>2, <1>3
    <2>2. ASSUME NEW n \in 0 .. N - 1, n \in T PROVE n + 1 \in T
      <3>1. N - n \in 1 .. N /\ (N - n) - 1 = N - (n + 1) /\ n + 1 \in 0 .. N /\ nth[N - n] \in Ids
        BY <1>2, <2>2
      <3>2. nth[N - (n + 1)] \in Ids
        BY <1>5, <3>1
      <3> QED
        BY <3>1, <3>2
    <2>3. \A n \in 0 .. N : n \in T
      <3> HIDE DEF T
      <3> QED
        BY <1>2, <2>1, <2>2, UpTo
    <2>4. ASSUME NEW n \in 0 .. N PROVE nth[n] \in Ids
      <3>1. N - n \in 0 .. N /\ N - (N - n) = n
        BY <1>2
      <3>2. N - n \in T
        BY <2>3, <3>1
      <3>3. nth[N - (N - n)] \in Ids
        BY <3>2
      <3> QED
        BY <3>1, <3>3
    <2> QED
      BY <2>4
  <1>7. \A n \in 0 .. N : r[nth[n]] \in Nat
    BY <1>4, <1>6 DEF Ranks
  <1>8. \A n \in 0 .. N : \A i \in 0 .. n : i < n => r[nth[n]] < r[nth[i]]
    <2> DEFINE T == {n \in 0 .. N : \A i \in 0 .. n : i < n => r[nth[n]] < r[nth[i]]}
    <2>1. 0 \in T
      BY <1>2
    <2>2. ASSUME NEW n \in 0 .. N - 1, n \in T PROVE n + 1 \in T
      <3>1. n \in 0 .. N /\ n + 1 \in 0 .. N /\ n + 1 \in 1 .. N /\ (n + 1) - 1 = n /\ n \in 0 .. n
        BY <1>2
      <3>2. r[nth[n + 1]] < r[nth[n]]
        BY <1>5, <1>6, <3>1
      <3>3. ASSUME NEW i \in 0 .. n + 1, i < n + 1 PROVE r[nth[n + 1]] < r[nth[i]]
        <4>1. i \in 0 .. n /\ i \in 0 .. N /\ (i = n \/ i < n)
          BY <1>2, <3>1, <3>3
        <4>2. CASE i = n
          BY <3>2, <4>2
        <4>3. CASE i < n
          <5>1. r[nth[n]] < r[nth[i]]
            BY <2>2, <4>1, <4>3
          <5> QED
            BY <1>7, <3>1, <3>2, <4>1, <5>1
        <4> QED
          BY <4>1, <4>2, <4>3
      <3> QED
        BY <3>1, <3>3
    <2>3. \A n \in 0 .. N : n \in T
      <3> HIDE DEF T
      <3> QED
        BY <1>2, <2>1, <2>2, UpTo
    <2> QED
      BY <2>3
  <1>9. nth \in [0 .. N -> Ids]
    BY <1>2, <1>6
  <1>10. IsFiniteSet(0 .. N) /\ Cardinality(0 .. N) = N + 1
    BY <1>2, FS_Interval
  <1>11. \E i, j \in 0 .. N : i # j /\ nth[i] = nth[j]
    <2>1. IsFiniteSet(Ids) /\ Cardinality(Ids) < Cardinality(0 .. N)
      BY <1>2, <1>10, IdsAssumption DEF N
    <2> QED
      BY <1>9, <1>10, <2>1, FS_PigeonHole
  <1>12. PICK i \in 0 .. N, j \in 0 .. N : i # j /\ nth[i] = nth[j]
    BY <1>11
  <1>13. (i < j /\ i \in 0 .. j) \/ (j < i /\ j \in 0 .. i)
    BY <1>2, <1>12
  <1>14. r[nth[i]] < r[nth[j]] \/ r[nth[j]] < r[nth[i]]
    BY <1>8, <1>13
  <1> QED
    BY <1>7, <1>12, <1>14

(***************************************************************************)
(* Wherever the process stops, in the middle of any calls, the records     *)
(* that wal_insert has written so far contain no circle of next_out or     *)
(* next_in links: link_into_chains stores an edge after the ones it points *)
(* to, and unlink_from_chains stores the predecessors before it returns,   *)
(* so before the edge may be linked again.                                 *)
(***************************************************************************)
THEOREM RecoveredChainsAlwaysEnd == Spec => []RecoveredChainsEnd
  <1>1. Init => Inv /\ RecInv
    BY InitInv, InitRec
  <1>2. Inv /\ RecInv /\ [Next]_vars => (Inv /\ RecInv)'
    BY InvStep, RecStep
  <1>3. Inv /\ RecInv => RecoveredChainsEnd
    BY RecEnds DEF Inv, Base, RecInv
  <1> QED
    BY <1>1, <1>2, <1>3, PTL DEF Spec

=============================================================================
