---------------------------- MODULE UndergroundLemmas ----------------------------
(***************************************************************************)
(* The lemmas on which the proofs about the node facing an arbitrary       *)
(* student and about the three nodes together rest, for every scenario the *)
(* loader accepts and every budget: induction and definition by recursion  *)
(* on the numbers, what the explorer's search finds, and what the methods  *)
(* of the world object and publish_state do.                               *)
(***************************************************************************)
EXTENDS UndergroundWorldNode, Planner, FiniteSetTheorems, SequenceTheorems, WellFoundedInduction,
        TLAPS

-------------------------------------------------------------------------------
(* Induction on the numbers. *)

(* A set of numbers has a least element. *)
LEMMA Least ==
  ASSUME NEW S, S \subseteq Nat, S # {}
  PROVE  \E j \in S : \A k \in S : j <= k
<1>1. PICK j \in S : \A k \in S : ~ (<<k, j>> \in OpToRel(<, Nat))
  BY WFMin, NatLessThanWellFounded
<1>2. OpToRel(<, Nat) = {p \in Nat \X Nat : p[1] < p[2]}
  BY DEF OpToRel
<1>3. ASSUME NEW k \in S  PROVE j <= k
  <2>1. ~ (<<k, j>> \in {p \in Nat \X Nat : p[1] < p[2]})
    BY <1>1, <1>2
  <2>2. QED  BY <2>1
<1>4. QED  BY <1>3

(* Induction, with the set of the numbers for which the statement holds. *)
LEMMA SetInduction ==
  ASSUME NEW S, 0 \in S, \A n \in Nat : n \in S => n + 1 \in S
  PROVE  \A n \in Nat : n \in S
<1> SUFFICES ASSUME NEW m \in Nat, m \notin S
             PROVE  FALSE
  OBVIOUS
<1> DEFINE Without == {n \in Nat : n \notin S}
<1>1. PICK k \in Without : \A n \in Without : k <= n
  <2>1. Without \subseteq Nat /\ Without # {}
    OBVIOUS
  <2>2. QED  BY <2>1, Least
<1>2. k \in Nat /\ k # 0 /\ k - 1 \in Nat
  OBVIOUS
<1>3. k - 1 \in S
  BY <1>1, <1>2
<1>4. (k - 1) + 1 \in S
  BY <1>2, <1>3
<1>5. QED  BY <1>2, <1>4

(* f is defined by recursion on the numbers. *)
IsRecursive(f, x0, Step) == f = [n \in Nat |-> IF n = 0 THEN x0 ELSE Step[n][f[n - 1]]]

(* There is such a function, when every value lies in X and follows from   *)
(* the one before by a function.                                           *)
LEMMA RecursiveSequence ==
  ASSUME NEW X, NEW x0 \in X, NEW Step \in [Nat -> [X -> X]]
  PROVE  \E f \in [Nat -> X] : IsRecursive(f, x0, Step)
<1> DEFINE Prefix(g, n) == /\ g \in [0 .. n -> X] /\ g[0] = x0
                           /\ \A i \in 1 .. n : g[i] = Step[i][g[i - 1]]
<1>1. \A n \in Nat : \E g : Prefix(g, n)
  <2> DEFINE S == {n \in Nat : \E g : Prefix(g, n)}
  <2>1. 0 \in S
    <3>1. Prefix([i \in 0 .. 0 |-> x0], 0)
      OBVIOUS
    <3>2. QED  BY <3>1
  <2>2. ASSUME NEW n \in Nat, n \in S
        PROVE  n + 1 \in S
    <3>1. PICK g : Prefix(g, n)
      BY <2>2
    <3> DEFINE h == [i \in 0 .. n + 1 |-> IF i = n + 1 THEN Step[n + 1][g[n]] ELSE g[i]]
    <3>2. g[n] \in X /\ Step[n + 1][g[n]] \in X
      BY <3>1
    <3>3. h \in [0 .. n + 1 -> X] /\ h[0] = x0
      BY <3>1, <3>2
    <3>4. ASSUME NEW i \in 1 .. n + 1
          PROVE  h[i] = Step[i][h[i - 1]]
      <4>1. CASE i = n + 1
        BY <4>1
      <4>2. CASE i # n + 1
        BY <3>1, <4>2
      <4>3. QED  BY <4>1, <4>2
    <3>5. Prefix(h, n + 1)
      BY <3>3, <3>4
    <3> HIDE DEF Prefix, h
    <3>6. \E q : Prefix(q, n + 1)
      BY <3>5
    <3>7. QED  BY <3>6
  <2> HIDE DEF S
  <2>3. \A n \in Nat : n \in S
    BY <2>1, <2>2, SetInduction
  <2>4. QED  BY <2>3 DEF S
<1> DEFINE G(n) == CHOOSE g : Prefix(g, n)
<1>2. ASSUME NEW n \in Nat
      PROVE  Prefix(G(n), n)
  BY <1>1
<1>3. ASSUME NEW n \in Nat
      PROVE  G(n + 1)[n] = G(n)[n]
  <2> DEFINE S == {i \in Nat : i <= n => G(n + 1)[i] = G(n)[i]}
  <2> HIDE DEF G
  <2>1. 0 \in S
    BY <1>2
  <2>2. ASSUME NEW i \in Nat, i \in S
        PROVE  i + 1 \in S
    <3>1. CASE i + 1 <= n
      <4>1. G(n + 1)[i] = G(n)[i]
        BY <2>2, <3>1
      <4>2. i + 1 \in 1 .. n /\ i + 1 \in 1 .. n + 1 /\ (i + 1) - 1 = i
        BY <3>1
      <4>3. Prefix(G(n), n) /\ Prefix(G(n + 1), n + 1)
        BY <1>2
      <4>4. G(n)[i + 1] = Step[i + 1][G(n)[(i + 1) - 1]]
        BY <4>2, <4>3
      <4>5. G(n + 1)[i + 1] = Step[i + 1][G(n + 1)[(i + 1) - 1]]
        BY <4>2, <4>3
      <4>6. QED  BY <4>1, <4>2, <4>4, <4>5
    <3>2. CASE ~ (i + 1 <= n)
      BY <3>2
    <3>3. QED  BY <3>1, <3>2
  <2> HIDE DEF S
  <2>3. n \in S
    BY <2>1, <2>2, SetInduction
  <2>4. QED  BY <2>3 DEF S
<1> DEFINE f == [n \in Nat |-> G(n)[n]]
<1> HIDE DEF G
<1>4. f \in [Nat -> X]
  BY <1>2
<1>5. ASSUME NEW n \in Nat
      PROVE  f[n] = IF n = 0 THEN x0 ELSE Step[n][f[n - 1]]
  <2>1. CASE n = 0
    BY <1>2, <2>1
  <2>2. CASE n # 0
    <3>1. n - 1 \in Nat /\ (n - 1) + 1 = n /\ n \in 1 .. n
      BY <2>2
    <3>2. G(n)[n] = Step[n][G(n)[n - 1]]
      BY <1>2, <3>1
    <3>3. G(n)[n - 1] = G(n - 1)[n - 1]
      BY <1>3, <3>1
    <3>4. QED  BY <2>2, <3>1, <3>2, <3>3
  <2>3. QED  BY <2>1, <2>2
<1>6. f = [n \in Nat |-> IF n = 0 THEN x0 ELSE Step[n][f[n - 1]]]
  BY <1>5
<1>7. IsRecursive(f, x0, Step)
  BY <1>6 DEF IsRecursive
<1>8. QED  BY <1>4, <1>7
-------------------------------------------------------------------------------
(* The planner. *)

(* The sequence s holds each element of the set E once and nothing else. *)
Lists(s, E) ==
  /\ s \in Seq(E)
  /\ \A i, j \in 1 .. Len(s) : s[i] = s[j] => i = j
  /\ \A e \in E : \E i \in 1 .. Len(s) : s[i] = e

(* One element more at the end. *)
LEMMA ListsMore ==
  ASSUME NEW s, NEW E, NEW x, Lists(s, E), x \notin E
  PROVE  Lists(s \o << x >>, E \cup {x})
<1> DEFINE t == s \o << x >>
           F == E \cup {x}
<1>1. s \in Seq(F) /\ << x >> \in Seq(F) /\ Len(<< x >>) = 1 /\ << x >>[1] = x
  BY SeqMonotonic DEF Lists
<1>2. Len(s) \in Nat /\ \A i \in 1 .. Len(s) : s[i] \in E
  BY ElementOfSeq, LenProperties DEF Lists
<1>3. /\ t \in Seq(F) /\ Len(t) = Len(s) + 1
      /\ \A i \in 1 .. Len(s) + 1 : t[i] = IF i <= Len(s) THEN s[i] ELSE << x >>[i - Len(s)]
  BY <1>1, ConcatProperties
<1> HIDE DEF t
<1>4. t[Len(s) + 1] = x /\ \A i \in 1 .. Len(s) : t[i] = s[i]
  BY <1>1, <1>2, <1>3
<1>5. ASSUME NEW i \in 1 .. Len(t), NEW j \in 1 .. Len(t), t[i] = t[j]
      PROVE  i = j
  <2>1. i \in 1 .. Len(s) \/ i = Len(s) + 1
    BY <1>2, <1>3
  <2>2. j \in 1 .. Len(s) \/ j = Len(s) + 1
    BY <1>2, <1>3
  <2>3. CASE i \in 1 .. Len(s) /\ j \in 1 .. Len(s)
    BY <1>4, <1>5, <2>3 DEF Lists
  <2>4. QED  BY <1>2, <1>4, <1>5, <2>1, <2>2, <2>3
<1>6. \A e \in F : \E i \in 1 .. Len(t) : t[i] = e
  <2>1. \A e \in E : \E i \in 1 .. Len(s) : s[i] = e
    BY DEF Lists
  <2>2. Len(s) + 1 \in 1 .. Len(t) /\ \A i \in 1 .. Len(s) : i \in 1 .. Len(t)
    BY <1>2, <1>3
  <2>3. QED  BY <1>4, <2>1, <2>2
<1>7. QED  BY <1>3, <1>5, <1>6 DEF Lists, t

(* Where the entries of a concatenation come from. *)
LEMMA ConcatEntries ==
  ASSUME NEW S, NEW s \in Seq(S), NEW u \in Seq(S)
  PROVE  LET t == s \o u IN
         /\ t \in Seq(S) /\ Len(s) \in Nat /\ Len(u) \in Nat /\ Len(t) = Len(s) + Len(u)
         /\ \A i \in 1 .. Len(s) : i \in 1 .. Len(t) /\ t[i] = s[i]
         /\ \A k \in 1 .. Len(u) : Len(s) + k \in 1 .. Len(t) /\ t[Len(s) + k] = u[k]
         /\ \A i \in 1 .. Len(t) : i \notin 1 .. Len(s) =>
              \E k \in 1 .. Len(u) : i = Len(s) + k /\ t[i] = u[k]
<1> DEFINE t == s \o u
           m == Len(s)
           n == Len(u)
<1>1. m \in Nat /\ n \in Nat
  BY LenProperties
<1>2. /\ t \in Seq(S) /\ Len(t) = m + n
      /\ \A i \in 1 .. m + n : t[i] = IF i <= m THEN s[i] ELSE u[i - m]
  BY ConcatProperties
<1> HIDE DEF t, m, n
<1>3. \A i \in 1 .. m : i \in 1 .. m + n /\ t[i] = s[i]
  BY <1>1, <1>2
<1>4. \A k \in 1 .. n : m + k \in 1 .. m + n /\ t[m + k] = u[k]
  <2> SUFFICES ASSUME NEW k \in 1 .. n
               PROVE  m + k \in 1 .. m + n /\ t[m + k] = u[k]
    OBVIOUS
  <2>1. m + k \in 1 .. m + n /\ ~ (m + k <= m) /\ (m + k) - m = k
    BY <1>1
  <2>2. QED  BY <1>2, <2>1
<1>5. ASSUME NEW i \in 1 .. m + n, i \notin 1 .. m
      PROVE  \E k \in 1 .. n : i = m + k /\ t[i] = u[k]
  <2>1. i - m \in 1 .. n /\ i = m + (i - m) /\ ~ (i <= m)
    BY <1>1, <1>5
  <2>2. t[i] = u[i - m]
    BY <1>2, <2>1
  <2>3. QED  BY <2>1, <2>2
<1>6. QED  BY <1>1, <1>2, <1>3, <1>4, <1>5 DEF t, m, n

(* The positions of the plane. *)
Positions == [x : Int, y : Int]

(* The four neighbours of a position, and that they differ. *)
LEMMA NeighborFacts ==
  ASSUME NEW p \in Positions
  PROVE  /\ \A i \in 1 .. 4 : cardinal_neighbors(p)[i] \in Positions
         /\ \A i, j \in 1 .. 4 : cardinal_neighbors(p)[i] = cardinal_neighbors(p)[j] => i = j
BY DEF Positions, cardinal_neighbors

(* The entry with which neighbour i of an entry's cell joins the queue. *)
FreshEntry(from, e, i) ==
  [cell |-> cardinal_neighbors(e.cell)[i],
   step |-> IF e.cell = from THEN cardinal_neighbors(e.cell)[i] ELSE e.step]

(* The neighbours that join. *)
FreshIndices(known, blocked, queued, e) ==
  { i \in 1 .. 4 : /\ is_traversable(known, blocked, cardinal_neighbors(e.cell)[i])
                   /\ \A j \in DOMAIN queued : queued[j].cell # cardinal_neighbors(e.cell)[i] }

(* Fresh lists the entries of the neighbours that join. *)
LEMMA FreshLists ==
  ASSUME NEW known, NEW blocked, NEW from, NEW queued, NEW e, e.cell \in Positions
  PROVE  Lists(Fresh(known, blocked, from, queued, e),
               { FreshEntry(from, e, i) : i \in FreshIndices(known, blocked, queued, e) })
<1> DEFINE near    == cardinal_neighbors(e.cell)
           ok(i)   == /\ is_traversable(known, blocked, near[i])
                      /\ \A j \in DOMAIN queued : queued[j].cell # near[i]
           x(i)    == [cell |-> near[i], step |-> IF e.cell = from THEN near[i] ELSE e.step]
           Take(i) == IF ok(i) THEN << x(i) >> ELSE << >>
           E(n)    == { x(i) : i \in { i \in 1 .. n : ok(i) } }
<1>1. Fresh(known, blocked, from, queued, e) = Take(1) \o Take(2) \o Take(3) \o Take(4)
  BY DEF Fresh
<1>2. \A i, j \in 1 .. 4 : x(i) = x(j) => i = j
  BY NeighborFacts
<1>3. { FreshEntry(from, e, i) : i \in FreshIndices(known, blocked, queued, e) } = E(4)
  BY DEF FreshEntry, FreshIndices
<1> HIDE DEF ok, x
<1>4. Lists(Take(1), E(1))
  <2>1. CASE ok(1)
    <3>1. E(1) = {x(1)} /\ Take(1) = << x(1) >>
      BY <2>1
    <3>2. << x(1) >> \in Seq({x(1)}) /\ Len(<< x(1) >>) = 1 /\ << x(1) >>[1] = x(1)
      OBVIOUS
    <3> HIDE DEF Take, E
    <3>3. Lists(<< x(1) >>, {x(1)})
      BY <3>2 DEF Lists
    <3>4. QED  BY <3>1, <3>3
  <2>2. CASE ~ ok(1)
    <3>1. E(1) = {} /\ Take(1) = << >>
      BY <2>2
    <3>2. QED  BY <3>1 DEF Lists
  <2>3. QED  BY <2>1, <2>2
<1>5. ASSUME NEW s, NEW n \in 1 .. 3, Lists(s, E(n))
      PROVE  Lists(s \o Take(n + 1), E(n + 1))
  <2>1. CASE ok(n + 1)
    <3>1. E(n + 1) = E(n) \cup {x(n + 1)}
      BY <2>1
    <3>2. x(n + 1) \notin E(n)
      BY <1>2
    <3>3. QED  BY <1>5, <2>1, <3>1, <3>2, ListsMore
  <2>2. CASE ~ ok(n + 1)
    <3>1. E(n + 1) = E(n)
      <4>1. \A i \in 1 .. n + 1 : ok(i) => i \in 1 .. n
        BY <2>2
      <4>2. { i \in 1 .. n + 1 : ok(i) } = { i \in 1 .. n : ok(i) }
        BY <4>1
      <4>3. QED  BY <4>2
    <3>2. s \o << >> = s
      BY <1>5, ConcatEmptySeq DEF Lists
    <3>3. QED  BY <1>5, <2>2, <3>1, <3>2
  <2>3. QED  BY <2>1, <2>2
<1> HIDE DEF Take, E
<1>6. Lists(Take(1) \o Take(2), E(2))
  BY <1>4, <1>5
<1>7. Lists(Take(1) \o Take(2) \o Take(3), E(3))
  BY <1>5, <1>6
<1>8. Lists(Take(1) \o Take(2) \o Take(3) \o Take(4), E(4))
  BY <1>5, <1>7
<1>9. QED  BY <1>1, <1>3, <1>8

(* The cells a search from "from" can meet. *)
SearchCells(known, from) == {from} \cup DOMAIN known

(* Where the search is when n entries have been taken off the queue.       *)
Searched(known, blocked, from, s, n) ==
  /\ s \in Seq([cell : SearchCells(known, from), step : SearchCells(known, from)])
  /\ Len(s) >= 1 /\ s[1] = [cell |-> from, step |-> from]
  /\ \A i, j \in 1 .. Len(s) : s[i].cell = s[j].cell => i = j
  /\ \A i \in 2 .. Len(s) : /\ is_traversable(known, blocked, s[i].cell)
                            /\ is_traversable(known, blocked, s[i].step)
                            /\ s[i].step \in Around(from)
  /\ \A i \in 1 .. Len(s) : i <= n =>
       \A q \in Around(s[i].cell) : is_traversable(known, blocked, q) =>
         \E j \in 1 .. Len(s) : s[j].cell = q

(* One more round. *)
LEMMA RoundSearches ==
  ASSUME NEW known, NEW blocked, NEW from \in Positions, DOMAIN known \subseteq Positions,
         NEW s, NEW n \in Nat, Searched(known, blocked, from, s, n), n + 1 \in 1 .. Len(s)
  PROVE  Searched(known, blocked, from, s \o Fresh(known, blocked, from, s, s[n + 1]), n + 1)
<1> DEFINE C == SearchCells(known, from)
           Entry == [cell : C, step : C]
           e == s[n + 1]
           new == Fresh(known, blocked, from, s, e)
           t == s \o new
           I == FreshIndices(known, blocked, s, e)
<1>1. /\ s \in Seq(Entry) /\ Len(s) >= 1 /\ s[1] = [cell |-> from, step |-> from]
      /\ \A i, j \in 1 .. Len(s) : s[i].cell = s[j].cell => i = j
      /\ \A i \in 2 .. Len(s) : /\ is_traversable(known, blocked, s[i].cell)
                                /\ is_traversable(known, blocked, s[i].step)
                                /\ s[i].step \in Around(from)
      /\ \A i \in 1 .. Len(s) : i <= n =>
           \A q \in Around(s[i].cell) : is_traversable(known, blocked, q) =>
             \E j \in 1 .. Len(s) : s[j].cell = q
  BY DEF Searched
<1>2. C \subseteq Positions /\ DOMAIN known \subseteq C
  BY DEF SearchCells
<1>3. e \in Entry /\ e.cell \in Positions /\ Len(s) \in Nat /\ DOMAIN s = 1 .. Len(s)
  <2>1. e \in Entry
    BY <1>1, ElementOfSeq
  <2>2. QED  BY <1>1, <1>2, <2>1, LenProperties
<1>4. ASSUME NEW i \in I
      PROVE  LET f == FreshEntry(from, e, i) IN
             /\ f.cell = cardinal_neighbors(e.cell)[i]
             /\ f.cell \in Around(e.cell)
             /\ is_traversable(known, blocked, f.cell) /\ is_traversable(known, blocked, f.step)
             /\ f.step \in Around(from)
             /\ \A j \in 1 .. Len(s) : s[j].cell # f.cell
             /\ f \in Entry
  <2> DEFINE q == cardinal_neighbors(e.cell)[i]
  <2>1. /\ i \in 1 .. 4 /\ is_traversable(known, blocked, q)
        /\ \A j \in 1 .. Len(s) : s[j].cell # q
    BY <1>3, <1>4 DEF FreshIndices
  <2>2. q \in Around(e.cell)
    BY <2>1 DEF Around
  <2>3. LET st == IF e.cell = from THEN q ELSE e.step
        IN  is_traversable(known, blocked, st) /\ st \in Around(from)
    <3>1. CASE e.cell = from
      BY <2>1, <2>2, <3>1
    <3>2. CASE e.cell # from
      <4>1. n + 1 \in 2 .. Len(s)
        BY <1>1, <3>2
      <4>2. QED  BY <1>1, <3>2, <4>1
    <3>3. QED  BY <3>1, <3>2
  <2>4. \A r : is_traversable(known, blocked, r) => r \in C
    BY <1>2 DEF is_traversable
  <2>5. QED  BY <2>1, <2>2, <2>3, <2>4 DEF FreshEntry
<1>5. Lists(new, {FreshEntry(from, e, i) : i \in I})
  BY <1>3, FreshLists
<1>6. /\ new \in Seq(Entry) /\ Len(new) \in Nat
      /\ \A k \in 1 .. Len(new) : \E i \in I : new[k] = FreshEntry(from, e, i)
      /\ \A k, l \in 1 .. Len(new) : new[k] = new[l] => k = l
      /\ \A i \in I : \E k \in 1 .. Len(new) : new[k] = FreshEntry(from, e, i)
  <2> DEFINE E == {FreshEntry(from, e, i) : i \in I}
  <2>1. E \subseteq Entry
    BY <1>4
  <2> HIDE DEF new, I
  <2>2. new \in Seq(E) /\ new \in Seq(Entry) /\ Len(new) \in Nat
    BY <1>5, <2>1, SeqMonotonic, LenProperties DEF Lists
  <2>3. \A k \in 1 .. Len(new) : new[k] \in E
    BY <2>2, ElementOfSeq
  <2>4. QED  BY <1>5, <2>2, <2>3 DEF Lists
<1> HIDE DEF new, e, I
<1>7. /\ t \in Seq(Entry) /\ Len(t) = Len(s) + Len(new)
      /\ \A i \in 1 .. Len(s) : i \in 1 .. Len(t) /\ t[i] = s[i]
      /\ \A k \in 1 .. Len(new) : Len(s) + k \in 1 .. Len(t) /\ t[Len(s) + k] = new[k]
      /\ \A i \in 1 .. Len(t) : i \notin 1 .. Len(s) =>
           \E k \in 1 .. Len(new) : i = Len(s) + k /\ t[i] = new[k]
  BY <1>1, <1>6, ConcatEntries
<1> HIDE DEF t, Entry
<1>8. /\ \A i \in 1 .. Len(s) : i \in 1 .. Len(t) /\ t[i] = s[i]
      /\ \A k \in 1 .. Len(new) : Len(s) + k \in 1 .. Len(t) /\ t[Len(s) + k] = new[k]
  BY <1>7
<1>9. ASSUME NEW i \in 1 .. Len(t), i \notin 1 .. Len(s)
      PROVE  \E k \in 1 .. Len(new) : i = Len(s) + k /\ t[i] = new[k]
  BY <1>7, <1>9
<1>10. ASSUME NEW i \in 1 .. Len(t), NEW j \in 1 .. Len(t), t[i].cell = t[j].cell
       PROVE  i = j
  <2>1. ASSUME NEW k \in 1 .. Len(new)
        PROVE  \A m \in 1 .. Len(s) : s[m].cell # new[k].cell
    BY <1>4, <1>6
  <2>2. ASSUME NEW k \in 1 .. Len(new), NEW l \in 1 .. Len(new), new[k].cell = new[l].cell
        PROVE  k = l
    <3>1. PICK a \in I : new[k] = FreshEntry(from, e, a)
      BY <1>6
    <3>2. PICK b \in I : new[l] = FreshEntry(from, e, b)
      BY <1>6
    <3>3. cardinal_neighbors(e.cell)[a] = cardinal_neighbors(e.cell)[b]
      BY <1>4, <2>2, <3>1, <3>2
    <3>4. a = b
      BY <1>3, <3>3, NeighborFacts DEF I, FreshIndices
    <3>5. QED  BY <1>6, <3>1, <3>2, <3>4
  <2>3. CASE i \in 1 .. Len(s) /\ j \in 1 .. Len(s)
    BY <1>1, <1>8, <1>10, <2>3
  <2>4. CASE i \in 1 .. Len(s) /\ j \notin 1 .. Len(s)
    <3>1. PICK k \in 1 .. Len(new) : t[j] = new[k]
      BY <1>9, <2>4
    <3>2. t[i] = s[i]
      BY <1>8, <2>4
    <3>3. QED  BY <1>10, <2>1, <2>4, <3>1, <3>2
  <2>5. CASE i \notin 1 .. Len(s) /\ j \in 1 .. Len(s)
    <3>1. PICK k \in 1 .. Len(new) : t[i] = new[k]
      BY <1>9, <2>5
    <3>2. t[j] = s[j]
      BY <1>8, <2>5
    <3>3. QED  BY <1>10, <2>1, <2>5, <3>1, <3>2
  <2>6. CASE i \notin 1 .. Len(s) /\ j \notin 1 .. Len(s)
    BY <1>9, <1>10, <2>2, <2>6, ZenonT(30)
  <2>7. QED  BY <2>3, <2>4, <2>5, <2>6
<1>11. ASSUME NEW i \in 2 .. Len(t)
       PROVE  /\ is_traversable(known, blocked, t[i].cell)
              /\ is_traversable(known, blocked, t[i].step)
              /\ t[i].step \in Around(from)
  <2>1. i \in 1 .. Len(t)
    BY <1>11
  <2>2. CASE i \in 1 .. Len(s)
    BY <1>1, <1>8, <2>2
  <2>3. CASE i \notin 1 .. Len(s)
    <3>1. PICK k \in 1 .. Len(new) : t[i] = new[k]
      BY <1>9, <2>1, <2>3
    <3>2. PICK a \in I : new[k] = FreshEntry(from, e, a)
      BY <1>6
    <3>3. QED  BY <1>4, <3>1, <3>2
  <2>4. QED  BY <2>2, <2>3
<1>12. ASSUME NEW i \in 1 .. Len(t), i <= n + 1, NEW q \in Around(t[i].cell),
              is_traversable(known, blocked, q)
       PROVE  \E j \in 1 .. Len(t) : t[j].cell = q
  <2>1. i \in 1 .. Len(s) /\ t[i] = s[i]
    BY <1>8, <1>12
  <2>2. CASE i <= n
    BY <1>1, <1>8, <1>12, <2>1, <2>2
  <2>3. CASE i = n + 1
    <3>1. PICK a \in 1 .. 4 : q = cardinal_neighbors(e.cell)[a]
      BY <1>12, <2>1, <2>3 DEF e, Around
    <3>2. CASE a \in I
      <4>1. PICK k \in 1 .. Len(new) : new[k] = FreshEntry(from, e, a)
        BY <1>6, <3>2
      <4>2. new[k].cell = q
        BY <1>4, <3>1, <3>2, <4>1
      <4>3. QED  BY <1>8, <4>2
    <3>3. CASE a \notin I
      BY <1>3, <1>8, <1>12, <3>1, <3>3 DEF I, FreshIndices
    <3>4. QED  BY <3>2, <3>3
  <2>4. QED  BY <1>12, <2>2, <2>3
<1>13. Len(t) >= 1 /\ t[1] = [cell |-> from, step |-> from]
  BY <1>1, <1>3, <1>6, <1>7, <1>8
<1>14. QED
  BY <1>7, <1>10, <1>11, <1>12, <1>13 DEF Searched, t, new, e, Entry

(* What joins the queue are entries. *)
LEMMA FreshType ==
  ASSUME NEW known, NEW blocked, NEW from \in Positions, DOMAIN known \subseteq Positions,
         NEW queued,
         NEW e \in [cell : SearchCells(known, from), step : SearchCells(known, from)]
  PROVE  Fresh(known, blocked, from, queued, e)
           \in Seq([cell : SearchCells(known, from), step : SearchCells(known, from)])
<1> DEFINE E == { FreshEntry(from, e, i) : i \in FreshIndices(known, blocked, queued, e) }
<1>1. e.cell \in Positions
  BY DEF SearchCells
<1>2. Fresh(known, blocked, from, queued, e) \in Seq(E)
  BY <1>1, FreshLists DEF Lists
<1>3. E \subseteq [cell : SearchCells(known, from), step : SearchCells(known, from)]
  BY DEF FreshEntry, FreshIndices, is_traversable, SearchCells
<1>4. QED  BY <1>2, <1>3, SeqMonotonic

(* The queue from round to round.                                          *)
IsOrder(known, blocked, from, order) ==
  /\ order[0] = << [cell |-> from, step |-> from] >>
  /\ \A n \in Nat :
       /\ order[n] \in Seq([cell : SearchCells(known, from), step : SearchCells(known, from)])
       /\ order[n + 1] = IF n + 1 \in 1 .. Len(order[n])
                         THEN order[n] \o Fresh(known, blocked, from, order[n], order[n][n + 1])
                         ELSE order[n]

(* There are such queues, and the search is the last of them.              *)
LEMMA SearchOrder ==
  ASSUME NEW known, NEW blocked, NEW from \in Positions, DOMAIN known \subseteq Positions,
         IsFiniteSet(DOMAIN known)
  PROVE  /\ Cardinality(SearchCells(known, from)) \in Nat
         /\ \E order : /\ IsOrder(known, blocked, from, order)
                       /\ SearchFrom(known, blocked, from) = order[Cardinality(SearchCells(known, from))]
<1> DEFINE cells == {from} \cup DOMAIN known
           Entry == [cell : cells, step : cells]
           Round == [n \in Nat |-> [queued \in Seq(Entry) |->
                       IF n \in DOMAIN queued
                       THEN queued \o Fresh(known, blocked, from, queued, queued[n]) ELSE queued]]
           first == << [cell |-> from, step |-> from] >>
           Order(f) == [n \in Nat |-> IF n = 0 THEN first ELSE Round[n][f[n - 1]]]
           order == CHOOSE f : f = Order(f)
           N == Cardinality(cells)
<1>1. SearchFrom(known, blocked, from) = order[N]
  BY DEF SearchFrom
<1>2. first \in Seq(Entry) /\ cells = SearchCells(known, from)
  BY DEF SearchCells
<1>3. ASSUME NEW q \in Seq(Entry), NEW n \in Nat
      PROVE  /\ Round[n][q] \in Seq(Entry)
             /\ n \in 1 .. Len(q) => Round[n][q] = q \o Fresh(known, blocked, from, q, q[n])
             /\ n \notin 1 .. Len(q) => Round[n][q] = q
  <2>0. DOMAIN q = 1 .. Len(q)
    BY LenProperties
  <2>1. CASE n \in DOMAIN q
    <3>1. Fresh(known, blocked, from, q, q[n]) \in Seq(Entry)
      BY <2>1, FreshType, ElementOfSeq, LenProperties, ZenonT(30) DEF SearchCells
    <3>2. QED  BY <2>0, <2>1, <3>1, ConcatProperties
  <2>2. CASE n \notin DOMAIN q
    BY <2>0, <2>2
  <2>3. QED  BY <2>1, <2>2
<1>4. order = Order(order)
  <2>1. Round \in [Nat -> [Seq(Entry) -> Seq(Entry)]]
    BY <1>3
  <2> DEFINE X == Seq(Entry)
  <2>2. first \in X /\ Round \in [Nat -> [X -> X]]
    BY <1>2, <2>1
  <2> HIDE DEF Round, first, X
  <2>3. PICK f \in [Nat -> X] : IsRecursive(f, first, Round)
    BY <2>2, RecursiveSequence
  <2>4. QED  BY <2>3 DEF IsRecursive
<1> HIDE DEF order, Round
<1>5. order[0] = first /\ \A n \in Nat : order[n + 1] = Round[n + 1][order[n]]
  <2>1. ASSUME NEW n \in Nat  PROVE order[n + 1] = Round[n + 1][order[n]]
    <3>1. n + 1 \in Nat /\ n + 1 # 0 /\ (n + 1) - 1 = n
      OBVIOUS
    <3>2. QED  BY <1>4, <3>1
  <2>2. order[0] = first
    BY <1>4
  <2>3. QED  BY <2>1, <2>2
<1> HIDE DEF first, Entry, cells
<1>6. \A n \in Nat : order[n] \in Seq(Entry)
  <2> DEFINE S == {n \in Nat : order[n] \in Seq(Entry)}
  <2>1. 0 \in S
    BY <1>2, <1>5
  <2>2. ASSUME NEW n \in Nat, n \in S
        PROVE  n + 1 \in S
    <3>1. n + 1 \in Nat /\ order[n] \in Seq(Entry)
      BY <2>2
    <3>2. QED  BY <1>3, <1>5, <3>1
  <2> HIDE DEF S
  <2>3. \A n \in Nat : n \in S
    BY <2>1, <2>2, SetInduction
  <2>4. QED  BY <2>3 DEF S
<1>7. ASSUME NEW n \in Nat
      PROVE  order[n + 1] = IF n + 1 \in 1 .. Len(order[n])
                            THEN order[n] \o Fresh(known, blocked, from, order[n], order[n][n + 1])
                            ELSE order[n]
  <2>1. n + 1 \in Nat
    OBVIOUS
  <2>2. order[n] \in Seq(Entry) /\ order[n + 1] = Round[n + 1][order[n]]
    BY <1>5, <1>6, Zenon
  <2>3. QED  BY <1>3, <2>1, <2>2
<1>8. IsOrder(known, blocked, from, order)
  BY <1>2, <1>5, <1>6, <1>7 DEF IsOrder, first, Entry
<1>9. N \in Nat
  <2>1. IsFiniteSet(cells)
    BY FS_AddElement DEF cells
  <2>2. QED  BY <2>1, FS_CardinalityType
<1>10. QED  BY <1>1, <1>2, <1>8, <1>9

(* Round by round the search is where it should be.                        *)
LEMMA OrderSearches ==
  ASSUME NEW known, NEW blocked, NEW from \in Positions, DOMAIN known \subseteq Positions,
         NEW order, IsOrder(known, blocked, from, order)
  PROVE  \A n \in Nat : Searched(known, blocked, from, order[n], n)
<1> DEFINE S == {n \in Nat : Searched(known, blocked, from, order[n], n)}
           C == SearchCells(known, from)
           first == << [cell |-> from, step |-> from] >>
<1>1. 0 \in S
  <2>1. order[0] = first
    BY DEF IsOrder
  <2>2. first \in Seq([cell : C, step : C]) /\ Len(first) = 1 /\ first[1] = [cell |-> from, step |-> from]
    BY DEF SearchCells
  <2> HIDE DEF first
  <2>3. Searched(known, blocked, from, first, 0)
    BY <2>2 DEF Searched
  <2>4. QED  BY <2>1, <2>3
<1>2. ASSUME NEW n \in Nat, n \in S
      PROVE  n + 1 \in S
  <2> DEFINE q == order[n]
  <2>1. /\ Searched(known, blocked, from, q, n) /\ q \in Seq([cell : C, step : C])
        /\ order[n + 1] = IF n + 1 \in 1 .. Len(q)
                          THEN q \o Fresh(known, blocked, from, q, q[n + 1]) ELSE q
    BY <1>2 DEF IsOrder
  <2> HIDE DEF q
  <2>2. CASE n + 1 \in 1 .. Len(q)
    <3>1. Searched(known, blocked, from, q \o Fresh(known, blocked, from, q, q[n + 1]), n + 1)
      BY <2>1, <2>2, RoundSearches
    <3>2. order[n + 1] = q \o Fresh(known, blocked, from, q, q[n + 1])
      BY <2>1, <2>2
    <3>3. Searched(known, blocked, from, order[n + 1], n + 1)
      BY <3>1, <3>2
    <3>4. QED  BY <3>3
  <2>3. CASE n + 1 \notin 1 .. Len(q)
    <3>1. Len(q) \in Nat
      BY <2>1, LenProperties
    <3>2. \A i \in 1 .. Len(q) : i <= n
      BY <2>3, <3>1
    <3>3. order[n + 1] = q
      BY <2>1, <2>3
    <3>4. Searched(known, blocked, from, q, n + 1)
      BY <2>1, <3>2 DEF Searched
    <3>5. QED  BY <3>3, <3>4
  <2>4. QED  BY <2>2, <2>3
<1> HIDE DEF S
<1>3. \A n \in Nat : n \in S
  BY <1>1, <1>2, SetInduction
<1>4. QED  BY <1>3 DEF S

(* No cell is queued twice, so the last queue is no longer than there are  *)
(* rounds: the search ends with an empty queue.                            *)
LEMMA SearchEnds ==
  ASSUME NEW known, NEW blocked, NEW from \in Positions, DOMAIN known \subseteq Positions,
         IsFiniteSet(DOMAIN known), NEW s, NEW n, Searched(known, blocked, from, s, n)
  PROVE  Len(s) \in Nat /\ Len(s) <= Cardinality(SearchCells(known, from))
<1> DEFINE C == SearchCells(known, from)
           Entry == [cell : C, step : C]
           N == Cardinality(C)
           g == [i \in 1 .. Len(s) |-> s[i].cell]
<1>1. IsFiniteSet(C) /\ N \in Nat
  <2>1. IsFiniteSet({from} \cup DOMAIN known)
    BY FS_AddElement
  <2>2. C = {from} \cup DOMAIN known
    BY DEF SearchCells
  <2> HIDE DEF C
  <2>3. QED  BY <2>1, <2>2, FS_CardinalityType
<1>2. s \in Seq(Entry) /\ Len(s) \in Nat
  BY LenProperties DEF Searched
<1>3. \A i \in 1 .. Len(s) : s[i].cell \in C
  <2>1. \A i \in 1 .. Len(s) : s[i] \in Entry
    BY <1>2, ElementOfSeq
  <2>2. QED  BY <2>1
<1>4. \A i, j \in 1 .. Len(s) : s[i].cell = s[j].cell => i = j
  BY DEF Searched
<1> HIDE DEF C
<1>5. g \in Injection(1 .. Len(s), C)
  BY <1>3, <1>4 DEF Injection, IsInjective
<1>6. Cardinality(1 .. Len(s)) <= N
  BY <1>1, <1>5, FS_Injection
<1>7. Cardinality(1 .. Len(s)) = Len(s)
  <2>1. 1 \in Int /\ Len(s) \in Int
    BY <1>2
  <2>2. Cardinality(1 .. Len(s)) = IF 1 > Len(s) THEN 0 ELSE Len(s) - 1 + 1
    BY <2>1, FS_Interval
  <2>3. QED  BY <1>2, <2>2
<1>8. QED  BY <1>2, <1>6, <1>7 DEF C

LEMMA SearchFacts ==
  ASSUME NEW known, NEW blocked, NEW from \in Positions, DOMAIN known \subseteq Positions,
         IsFiniteSet(DOMAIN known)
  PROVE  LET s == SearchFrom(known, blocked, from)
         IN  Searched(known, blocked, from, s, Len(s))
<1> DEFINE N == Cardinality(SearchCells(known, from))
           s == SearchFrom(known, blocked, from)
<1>1. N \in Nat /\ Searched(known, blocked, from, s, N)
  BY SearchOrder, OrderSearches
<1>2. Len(s) \in Nat /\ Len(s) <= N
  BY <1>1, SearchEnds
<1> HIDE DEF s, N
<1>3. \A i \in 1 .. Len(s) : i <= N
  BY <1>1, <1>2
<1>4. Searched(known, blocked, from, s, Len(s))
  BY <1>1, <1>2, <1>3 DEF Searched
<1>5. QED  BY <1>4 DEF s

-------------------------------------------------------------------------------
(* How far the search has come to a cell, and by which first step. *)

(* Neighbours are neighbours of each other. *)
LEMMA AroundSymmetric ==
  ASSUME NEW p \in Positions, NEW q \in Around(p)
  PROVE  q \in Positions /\ p \in Around(q)
<1>1. PICK i \in 1 .. 4 : q = cardinal_neighbors(p)[i]
  BY DEF Around
<1>2. p.x \in Int /\ p.y \in Int /\ p = [x |-> p.x, y |-> p.y]
  BY DEF Positions
<1>3. \/ q = [x |-> p.x, y |-> p.y - 1]
      \/ q = [x |-> p.x, y |-> p.y + 1]
      \/ q = [x |-> p.x - 1, y |-> p.y]
      \/ q = [x |-> p.x + 1, y |-> p.y]
  BY <1>1 DEF cardinal_neighbors
<1>4. \E j \in 1 .. 4 : p = cardinal_neighbors(q)[j]
  <2>1. CASE q = [x |-> p.x, y |-> p.y - 1]
    <3>1. q.y + 1 = p.y /\ q.x = p.x
      BY <1>2, <2>1
    <3>2. cardinal_neighbors(q)[2] = p
      BY <1>2, <3>1 DEF cardinal_neighbors
    <3>3. QED  BY <3>2
  <2>2. CASE q = [x |-> p.x, y |-> p.y + 1]
    <3>1. q.y - 1 = p.y /\ q.x = p.x
      BY <1>2, <2>2
    <3>2. cardinal_neighbors(q)[1] = p
      BY <1>2, <3>1 DEF cardinal_neighbors
    <3>3. QED  BY <3>2
  <2>3. CASE q = [x |-> p.x - 1, y |-> p.y]
    <3>1. q.x + 1 = p.x /\ q.y = p.y
      BY <1>2, <2>3
    <3>2. cardinal_neighbors(q)[4] = p
      BY <1>2, <3>1 DEF cardinal_neighbors
    <3>3. QED  BY <3>2
  <2>4. CASE q = [x |-> p.x + 1, y |-> p.y]
    <3>1. q.x - 1 = p.x /\ q.y = p.y
      BY <1>2, <2>4
    <3>2. cardinal_neighbors(q)[3] = p
      BY <1>2, <3>1 DEF cardinal_neighbors
    <3>3. QED  BY <3>2
  <2>5. QED  BY <1>3, <2>1, <2>2, <2>3, <2>4
<1>5. q \in Positions
  BY <1>1, NeighborFacts
<1>6. QED  BY <1>4, <1>5 DEF Around

(* Within is what its definition says. *)
LEMMA WithinFacts ==
  ASSUME NEW known, NEW blocked, NEW p
  PROVE  LET b == Within(known, blocked, p) IN
         /\ b[0] = {p}
         /\ \A k \in Nat : b[k + 1] = b[k] \cup { q \in DOMAIN known :
                                                    /\ is_traversable(known, blocked, q)
                                                    /\ Around(q) \cap b[k] # {} }
<1> DEFINE More(near) == near \cup { q \in DOMAIN known : /\ is_traversable(known, blocked, q)
                                                          /\ Around(q) \cap near # {} }
           X == SUBSET (DOMAIN known \cup {p})
           Grow == [near \in X |-> More(near)]
           Order(f) == [k \in Nat |-> IF k = 0 THEN {p} ELSE Grow[f[k - 1]]]
           b == CHOOSE f : f = Order(f)
           Step == [k \in Nat |-> Grow]
<1>1. Within(known, blocked, p) = b
  BY DEF Within
<1>2. \A near \in X : More(near) \in X /\ Grow[near] = More(near)
  OBVIOUS
<1>3. Step \in [Nat -> [X -> X]] /\ {p} \in X /\ \A k \in Nat : Step[k] = Grow
  BY <1>2
<1> HIDE DEF X, Grow, Step, More
<1>4. PICK f \in [Nat -> X] : IsRecursive(f, {p}, Step)
  BY <1>3, RecursiveSequence
<1>5. b = Order(b)
  <2>1. f = [k \in Nat |-> IF k = 0 THEN {p} ELSE Step[k][f[k - 1]]]
    BY <1>4 DEF IsRecursive
  <2>2. f = Order(f)
    BY <1>3, <2>1
  <2>3. QED  BY <2>2
<1> HIDE DEF b
<1>6. b[0] = {p} /\ \A k \in Nat : b[k + 1] = Grow[b[k]]
  <2>1. ASSUME NEW k \in Nat  PROVE b[k + 1] = Grow[b[k]]
    <3>1. k + 1 \in Nat /\ k + 1 # 0 /\ (k + 1) - 1 = k
      OBVIOUS
    <3>2. QED  BY <1>5, <3>1
  <2>2. b[0] = {p}
    BY <1>5
  <2>3. QED  BY <2>1, <2>2
<1>7. \A k \in Nat : b[k] \in X
  <2> DEFINE S == {k \in Nat : b[k] \in X}
  <2>1. 0 \in S
    BY <1>3, <1>6
  <2>2. ASSUME NEW k \in Nat, k \in S  PROVE k + 1 \in S
    BY <1>2, <1>6, <2>2
  <2> HIDE DEF S
  <2>3. \A k \in Nat : k \in S
    BY <2>1, <2>2, SetInduction
  <2>4. QED  BY <2>3 DEF S
<1>8. \A k \in Nat : b[k + 1] = More(b[k])
  BY <1>2, <1>6, <1>7
<1>9. QED  BY <1>1, <1>6, <1>8 DEF More

(* s holds some of the first m elements of E, in their order.              *)
InOrder(s, E, m) ==
  \E idx \in [1 .. Len(s) -> 1 .. m] :
    /\ \A j \in 1 .. Len(s) : s[j] = E[idx[j]]
    /\ \A j, l \in 1 .. Len(s) : j <= l => idx[j] <= idx[l]

LEMMA InOrderMore ==
  ASSUME NEW X, NEW s \in Seq(X), NEW E, NEW m \in Nat, InOrder(s, E, m),
         NEW t \in Seq(X), t = << >> \/ t = << E[m + 1] >>
  PROVE  s \o t \in Seq(X) /\ InOrder(s \o t, E, m + 1)
<1> DEFINE u == s \o t
           n == Len(s)
<1>1. PICK idx \in [1 .. n -> 1 .. m] :
        /\ \A j \in 1 .. n : s[j] = E[idx[j]]
        /\ \A j, l \in 1 .. n : j <= l => idx[j] <= idx[l]
  BY DEF InOrder
<1>2. /\ u \in Seq(X) /\ n \in Nat /\ Len(t) \in Nat /\ Len(u) = n + Len(t)
      /\ \A i \in 1 .. n : u[i] = s[i]
      /\ \A k \in 1 .. Len(t) : u[n + k] = t[k]
  BY ConcatEntries
<1>3. CASE t = << >>
  <2>1. Len(u) = n
    BY <1>2, <1>3
  <2>2. idx \in [1 .. n -> 1 .. m + 1]
    BY <1>1
  <2> HIDE DEF u, n
  <2>3. InOrder(u, E, m + 1)
    <3>1. /\ idx \in [1 .. Len(u) -> 1 .. m + 1]
          /\ \A j \in 1 .. Len(u) : u[j] = E[idx[j]]
          /\ \A j, l \in 1 .. Len(u) : j <= l => idx[j] <= idx[l]
      BY <1>1, <1>2, <2>1, <2>2
    <3>2. QED  BY <3>1, Zenon DEF InOrder
  <2>4. QED  BY <1>2, <2>3 DEF u
<1>4. CASE t = << E[m + 1] >>
  <2>1. Len(t) = 1 /\ t[1] = E[m + 1]
    BY <1>4
  <2> HIDE DEF u, n
  <2>2. Len(u) = n + 1 /\ u[n + 1] = E[m + 1]
    <3>1. 1 \in 1 .. Len(t)
      BY <2>1
    <3>2. QED  BY <1>2, <2>1, <3>1
  <2> DEFINE jdx == [j \in 1 .. n + 1 |-> IF j = n + 1 THEN m + 1 ELSE idx[j]]
  <2>3. \A j \in 1 .. n + 1 : j = n + 1 \/ (j \in 1 .. n /\ j # n + 1)
    BY <1>2
  <2>4. \A j \in 1 .. n : jdx[j] = idx[j] /\ idx[j] \in 1 .. m
    <3>1. \A j \in 1 .. n : j \in 1 .. n + 1 /\ j # n + 1
      BY <1>2
    <3>2. \A j \in 1 .. n : idx[j] \in 1 .. m
      BY <1>1
    <3>3. \A j \in 1 .. n : jdx[j] = idx[j]
      BY <3>1
    <3>4. QED  BY <3>2, <3>3
  <2>5. jdx[n + 1] = m + 1
    BY <1>2
  <2>6. jdx \in [1 .. n + 1 -> 1 .. m + 1]
    BY <1>1, <1>2, <2>3
  <2> HIDE DEF jdx
  <2>7. \A j \in 1 .. n + 1 : u[j] = E[jdx[j]]
    BY <1>1, <1>2, <2>2, <2>3, <2>4, <2>5
  <2>8. ASSUME NEW j \in 1 .. n + 1, NEW l \in 1 .. n + 1, j <= l
        PROVE  jdx[j] <= jdx[l]
    <3>1. CASE l = n + 1
      BY <2>3, <2>4, <2>5, <3>1
    <3>2. CASE l \in 1 .. n
      <4>1. j \in 1 .. n
        BY <1>2, <2>8, <3>2
      <4>2. QED  BY <1>1, <2>4, <2>8, <3>2, <4>1
    <3>3. QED  BY <2>3, <3>1, <3>2
  <2>9. InOrder(u, E, m + 1)
    BY <2>2, <2>6, <2>7, <2>8 DEF InOrder
  <2>10. QED  BY <1>2, <2>9 DEF u
<1>5. QED  BY <1>3, <1>4

(* The neighbours join the queue in their order. *)
LEMMA FreshInOrder ==
  ASSUME NEW known, NEW blocked, NEW from, NEW queued, NEW e
  PROVE  InOrder(Fresh(known, blocked, from, queued, e), [i \in 1 .. 4 |-> FreshEntry(from, e, i)], 4)
<1> DEFINE near    == cardinal_neighbors(e.cell)
           ok(i)   == /\ is_traversable(known, blocked, near[i])
                      /\ \A j \in DOMAIN queued : queued[j].cell # near[i]
           x(i)    == [cell |-> near[i], step |-> IF e.cell = from THEN near[i] ELSE e.step]
           Take(i) == IF ok(i) THEN << x(i) >> ELSE << >>
           E       == [i \in 1 .. 4 |-> FreshEntry(from, e, i)]
           X       == {E[i] : i \in 1 .. 4}
<1>1. Fresh(known, blocked, from, queued, e) = Take(1) \o Take(2) \o Take(3) \o Take(4)
  BY DEF Fresh
<1>2. \A i \in 1 .. 4 : E[i] = x(i)
  BY DEF FreshEntry
<1> HIDE DEF E, x, ok
<1>3. \A i \in 1 .. 4 : (Take(i) = << >> \/ Take(i) = << E[i] >>) /\ Take(i) \in Seq(X)
  <2>1. \A i \in 1 .. 4 : << E[i] >> \in Seq(X)
    OBVIOUS
  <2>2. << >> \in Seq(X)
    OBVIOUS
  <2>3. QED  BY <1>2, <2>1, <2>2
<1> HIDE DEF Take, X
<1>4. Take(1) \in Seq(X) /\ InOrder(Take(1), E, 1)
  <2>1. CASE Take(1) = << >>
    <3>1. [j \in {} |-> 1] \in [1 .. 0 -> 1 .. 1]
      OBVIOUS
    <3>2. Len(Take(1)) = 0
      BY <2>1
    <3>3. QED  BY <1>3, <3>1, <3>2 DEF InOrder
  <2>2. CASE Take(1) = << E[1] >>
    <3>1. Len(Take(1)) = 1 /\ Take(1)[1] = E[1]
      BY <2>2
    <3> DEFINE idx == [j \in 1 .. 1 |-> 1]
    <3>2. idx \in [1 .. 1 -> 1 .. 1] /\ idx[1] = 1
      OBVIOUS
    <3> HIDE DEF idx
    <3>3. InOrder(Take(1), E, 1)
      <4>1. /\ idx \in [1 .. Len(Take(1)) -> 1 .. 1]
            /\ \A j \in 1 .. Len(Take(1)) : Take(1)[j] = E[idx[j]]
            /\ \A j, l \in 1 .. Len(Take(1)) : j <= l => idx[j] <= idx[l]
        <5>1. \A j \in 1 .. 1 : j = 1
          OBVIOUS
        <5>2. /\ idx \in [1 .. 1 -> 1 .. 1]
              /\ \A j \in 1 .. 1 : Take(1)[j] = E[idx[j]]
              /\ \A j, l \in 1 .. 1 : j <= l => idx[j] <= idx[l]
          BY <3>1, <3>2, <5>1
        <5>3. QED  BY <3>1, <5>2, Zenon
      <4>2. QED  BY <4>1, Zenon DEF InOrder
    <3>4. QED  BY <1>3, <3>3
  <2>3. QED  BY <1>3, <2>1, <2>2
<1>5. ASSUME NEW s \in Seq(X), NEW n \in 1 .. 3, InOrder(s, E, n), NEW k, k = n + 1
      PROVE  s \o Take(k) \in Seq(X) /\ InOrder(s \o Take(k), E, k)
  <2>1. n \in Nat /\ k \in 1 .. 4
    BY <1>5
  <2>2. Take(k) \in Seq(X) /\ (Take(k) = << >> \/ Take(k) = << E[n + 1] >>)
    BY <1>3, <1>5, <2>1
  <2>3. QED  BY <1>5, <2>1, <2>2, InOrderMore
<1>6. Take(1) \o Take(2) \in Seq(X) /\ InOrder(Take(1) \o Take(2), E, 2)
  <2>1. 1 \in 1 .. 3 /\ 2 = 1 + 1
    OBVIOUS
  <2>2. QED  BY <1>4, <1>5, <2>1
<1>7. Take(1) \o Take(2) \o Take(3) \in Seq(X) /\ InOrder(Take(1) \o Take(2) \o Take(3), E, 3)
  <2>1. 2 \in 1 .. 3 /\ 3 = 2 + 1
    OBVIOUS
  <2>2. QED  BY <1>5, <1>6, <2>1, Zenon
<1>8. InOrder(Take(1) \o Take(2) \o Take(3) \o Take(4), E, 4)
  <2>1. 3 \in 1 .. 3 /\ 4 = 3 + 1
    OBVIOUS
  <2>2. QED  BY <1>5, <1>7, <2>1, Zenon
<1>9. QED  BY <1>1, <1>8 DEF E

(* No position is its own neighbour. *)
LEMMA NotAround ==
  ASSUME NEW p \in Positions
  PROVE  p \notin Around(p)
<1>1. p.x \in Int /\ p.y \in Int
  BY DEF Positions
<1>2. \A i \in 1 .. 4 : cardinal_neighbors(p)[i].x # p.x \/ cardinal_neighbors(p)[i].y # p.y
  BY <1>1 DEF cardinal_neighbors
<1>3. QED  BY <1>2 DEF Around

(* The rank of an entry orders the queue by the length of the path to its  *)
(* cell, and entries as far away by its first step: the number of that     *)
(* step, and four for every other.                                         *)
Reached(known, blocked, from, e, rank) ==
  \E a \in 1 .. 4, k \in Nat :
    /\ rank = a + 4 * k
    /\ e.step = cardinal_neighbors(from)[a]
    /\ is_traversable(known, blocked, cardinal_neighbors(from)[a])
    /\ e.cell \in Within(known, blocked, cardinal_neighbors(from)[a])[k]

(* The cell q is queued with at most that rank. *)
QueuedBy(s, r, q, rank) == \E j \in 1 .. Len(s) : s[j].cell = q /\ r[j] <= rank

(* r gives the ranks when n entries have been taken off the queue.         *)
Ranked(known, blocked, from, s, r, n) ==
  /\ r \in [1 .. Len(s) -> Nat] /\ r[1] = 0
  /\ \A i, j \in 1 .. Len(s) : i <= j => r[i] <= r[j]
  /\ \A i \in 1 .. Len(s) : r[i] <= 4 * (i - 1)
  /\ n \in 1 .. Len(s) => \A j \in 1 .. Len(s) : r[j] <= r[n] + 4
  /\ n = 0 => Len(s) = 1
  /\ \A i \in 2 .. Len(s) : Reached(known, blocked, from, s[i], r[i])
  /\ n >= 1 => \A a \in 1 .. 4 : LET q == cardinal_neighbors(from)[a] IN
       is_traversable(known, blocked, q) => QueuedBy(s, r, q, a)
  /\ \A i \in 2 .. Len(s) : i <= n =>
       \A q \in Around(s[i].cell) : is_traversable(known, blocked, q) => QueuedBy(s, r, q, r[i] + 4)

(* w gives the ranks of what entry n + 1 adds to the queue.                *)
AddedRanks(known, blocked, from, s, r, n, new, w) ==
  /\ w \in [1 .. Len(new) -> Nat]
  /\ \A k, l \in 1 .. Len(new) : k <= l => w[k] <= w[l]
  /\ \A k \in 1 .. Len(new) :
       /\ \A j \in 1 .. Len(s) : r[j] <= w[k]
       /\ w[k] <= r[n + 1] + 4
       /\ Reached(known, blocked, from, new[k], w[k])
  /\ \A q \in Around(s[n + 1].cell) : is_traversable(known, blocked, q) =>
       \/ \E j \in 1 .. Len(s) : s[j].cell = q
       \/ \E k \in 1 .. Len(new) : new[k].cell = q
  /\ n = 0 => \A a \in 1 .. 4 : \A k \in 1 .. Len(new) :
       new[k].cell = cardinal_neighbors(from)[a] => w[k] = a

(* There are such ranks.                                                   *)
LEMMA FreshRanks ==
  ASSUME NEW known, NEW blocked, NEW from \in Positions, DOMAIN known \subseteq Positions,
         NEW s, NEW r, NEW n \in Nat, Searched(known, blocked, from, s, n),
         Ranked(known, blocked, from, s, r, n), n + 1 \in 1 .. Len(s)
  PROVE  \E w : AddedRanks(known, blocked, from, s, r, n,
                           Fresh(known, blocked, from, s, s[n + 1]), w)
<1> DEFINE near == cardinal_neighbors(from)
           e == s[n + 1]
           new == Fresh(known, blocked, from, s, e)
           I == FreshIndices(known, blocked, s, e)
           E == [i \in 1 .. 4 |-> FreshEntry(from, e, i)]
           C == SearchCells(known, from)
<1>1. /\ s \in Seq([cell : C, step : C]) /\ Len(s) \in Nat /\ DOMAIN s = 1 .. Len(s)
      /\ s[1] = [cell |-> from, step |-> from] /\ Len(s) >= 1
      /\ \A i, j \in 1 .. Len(s) : s[i].cell = s[j].cell => i = j
  BY LenProperties DEF Searched
<1>2. e \in [cell : C, step : C] /\ e.cell \in Positions
  <2>1. e \in [cell : C, step : C]
    BY <1>1, ElementOfSeq
  <2>2. QED  BY <2>1 DEF SearchCells
<1>3. /\ \A k \in 1 .. Len(new) : \E i \in I : new[k] = FreshEntry(from, e, i)
      /\ \A i \in I : \E k \in 1 .. Len(new) : new[k] = FreshEntry(from, e, i)
  <2> DEFINE F == {FreshEntry(from, e, i) : i \in I}
  <2>1. Lists(new, F)
    BY <1>2, FreshLists
  <2> HIDE DEF new, I
  <2>2. \A k \in 1 .. Len(new) : new[k] \in F
    BY <2>1, ElementOfSeq DEF Lists
  <2>3. QED  BY <2>1, <2>2 DEF Lists
<1>4. PICK idx \in [1 .. Len(new) -> 1 .. 4] :
        /\ \A k \in 1 .. Len(new) : new[k] = FreshEntry(from, e, idx[k])
        /\ \A k, l \in 1 .. Len(new) : k <= l => idx[k] <= idx[l]
  <2>1. InOrder(new, E, 4)
    BY FreshInOrder
  <2> HIDE DEF new
  <2>2. QED  BY <2>1 DEF InOrder
<1>5. \A i \in I : /\ i \in 1 .. 4 /\ is_traversable(known, blocked, cardinal_neighbors(e.cell)[i])
                   /\ \A j \in 1 .. Len(s) : s[j].cell # cardinal_neighbors(e.cell)[i]
  BY <1>1 DEF FreshIndices
<1> HIDE DEF new
<1>6. ASSUME NEW k \in 1 .. Len(new)
      PROVE  idx[k] \in I
  <2>1. PICK i \in I : new[k] = FreshEntry(from, e, i)
    BY <1>3
  <2>2. new[k] = FreshEntry(from, e, idx[k]) /\ idx[k] \in 1 .. 4 /\ i \in 1 .. 4
    BY <1>4, <1>5
  <2>3. cardinal_neighbors(e.cell)[i] = cardinal_neighbors(e.cell)[idx[k]]
    BY <2>1, <2>2 DEF FreshEntry
  <2>4. i = idx[k]
    BY <1>2, <2>2, <2>3, NeighborFacts
  <2>5. QED  BY <2>4
<1> DEFINE w == [k \in 1 .. Len(new) |-> IF n = 0 THEN idx[k] ELSE r[n + 1] + 4]
<1>7. ASSUME NEW q \in Around(e.cell), is_traversable(known, blocked, q)
      PROVE  \/ \E j \in 1 .. Len(s) : s[j].cell = q
             \/ \E k \in 1 .. Len(new) : new[k].cell = q
  <2>1. PICK i \in 1 .. 4 : q = cardinal_neighbors(e.cell)[i]
    BY DEF Around
  <2>2. CASE i \in I
    <3>1. PICK k \in 1 .. Len(new) : new[k] = FreshEntry(from, e, i)
      BY <1>3, <2>2
    <3>2. new[k].cell = q
      BY <2>1, <3>1 DEF FreshEntry
    <3>3. QED  BY <3>2
  <2>3. CASE i \notin I
    BY <1>1, <1>7, <2>1, <2>3 DEF FreshIndices
  <2>4. QED  BY <2>2, <2>3
<1>8. /\ r \in [1 .. Len(s) -> Nat] /\ r[1] = 0
      /\ \A i, j \in 1 .. Len(s) : i <= j => r[i] <= r[j]
      /\ n \in 1 .. Len(s) => \A j \in 1 .. Len(s) : r[j] <= r[n] + 4
      /\ n = 0 => Len(s) = 1
      /\ \A i \in 2 .. Len(s) : Reached(known, blocked, from, s[i], r[i])
  BY DEF Ranked
<1> HIDE DEF I, E, C
<1>9. CASE n = 0
  <2>1. e.cell = from /\ Len(s) = 1 /\ r[n + 1] = 0
    <3>1. n + 1 = 1
      BY <1>9
    <3>2. e = [cell |-> from, step |-> from]
      BY <1>1, <3>1
    <3>3. r[n + 1] = 0
      BY <1>8, <3>1
    <3> HIDE DEF e
    <3>4. e.cell = from
      BY <3>2
    <3>5. QED  BY <1>8, <1>9, <3>3, <3>4
  <2>2. w = [k \in 1 .. Len(new) |-> idx[k]] /\ w \in [1 .. Len(new) -> Nat]
    BY <1>4, <1>9
  <2>3. ASSUME NEW k \in 1 .. Len(new)
        PROVE  /\ \A j \in 1 .. Len(s) : r[j] <= w[k]
               /\ w[k] <= r[n + 1] + 4
               /\ Reached(known, blocked, from, new[k], w[k])
               /\ new[k].cell = near[w[k]]
    <3>1. w[k] = idx[k] /\ idx[k] \in 1 .. 4 /\ idx[k] \in I
      BY <1>4, <1>6, <2>2
    <3>2. \A j \in 1 .. Len(s) : r[j] = 0
      <4>1. \A j \in 1 .. Len(s) : j = 1
        BY <2>1
      <4>2. QED  BY <1>8, <4>1
    <3> DEFINE a == idx[k]
    <3>3. new[k].cell = near[a] /\ new[k].step = near[a] /\ is_traversable(known, blocked, near[a])
      <4>1. new[k] = FreshEntry(from, e, a) /\ near = cardinal_neighbors(e.cell)
        BY <1>4, <2>1, Zenon
      <4>2. is_traversable(known, blocked, cardinal_neighbors(e.cell)[a])
        BY <1>5, <3>1
      <4> HIDE DEF near, a, e
      <4>3. new[k] = [cell |-> near[a], step |-> near[a]]
        BY <2>1, <4>1 DEF FreshEntry
      <4>4. QED  BY <4>1, <4>2, <4>3
    <3>4. near[a] \in Within(known, blocked, near[a])[0]
      BY WithinFacts
    <3> HIDE DEF a, near, w
    <3>5. a = a + 4 * 0 /\ 0 \in Nat /\ a \in 1 .. 4
      BY <3>1 DEF a
    <3>6. Reached(known, blocked, from, new[k], a)
      BY <3>3, <3>4, <3>5 DEF Reached, near
    <3>7. QED  BY <2>1, <3>1, <3>2, <3>3, <3>6 DEF a
  <2>4. \A k, l \in 1 .. Len(new) : k <= l => w[k] <= w[l]
    BY <1>4, <2>2
  <2>5. ASSUME NEW a \in 1 .. 4, NEW k \in 1 .. Len(new), new[k].cell = near[a]
        PROVE  w[k] = a
    <3>1. w[k] \in 1 .. 4 /\ near[w[k]] = near[a]
      BY <1>4, <2>2, <2>3, <2>5
    <3> HIDE DEF w
    <3>2. QED  BY <3>1, NeighborFacts
  <2> HIDE DEF w
  <2>6. AddedRanks(known, blocked, from, s, r, n, new, w)
    BY <1>7, <2>2, <2>3, <2>4, <2>5 DEF AddedRanks
  <2>7. QED  BY <2>6 DEF new
<1>10. CASE n # 0
  <2>1. /\ n \in 1 .. Len(s) /\ n + 1 \in 2 .. Len(s) /\ n <= n + 1
        /\ \A k \in 1 .. Len(new) : w[k] = r[n + 1] + 4
    BY <1>1, <1>10
  <2>2. r[n + 1] \in Nat /\ r[n] \in Nat /\ r[n] <= r[n + 1] /\ \A j \in 1 .. Len(s) : r[j] \in Nat /\ r[j] <= r[n] + 4
    BY <1>8, <2>1
  <2>3. w \in [1 .. Len(new) -> Nat] /\ \A k, l \in 1 .. Len(new) : w[k] <= w[l]
    BY <1>10, <2>1, <2>2
  <2>4. e.cell # from
    BY <1>1, <1>10
  <2>5. PICK a \in 1 .. 4, k \in Nat :
          /\ r[n + 1] = a + 4 * k
          /\ e.step = near[a] /\ is_traversable(known, blocked, near[a])
          /\ e.cell \in Within(known, blocked, near[a])[k]
    BY <1>8, <2>1 DEF Reached
  <2>6. ASSUME NEW l \in 1 .. Len(new)
        PROVE  Reached(known, blocked, from, new[l], w[l])
    <3>1. idx[l] \in I /\ new[l] = FreshEntry(from, e, idx[l])
      BY <1>4, <1>6
    <3> DEFINE q == cardinal_neighbors(e.cell)[idx[l]]
    <3>2. new[l].cell = q /\ new[l].step = near[a] /\ is_traversable(known, blocked, q) /\ q \in Around(e.cell)
      BY <1>5, <2>4, <2>5, <3>1 DEF FreshEntry, Around
    <3> HIDE DEF q, near, e
    <3>3. q \in DOMAIN known /\ e.cell \in Around(q)
      BY <1>2, <3>2, AroundSymmetric DEF is_traversable
    <3>4. q \in Within(known, blocked, near[a])[k + 1]
      BY <2>5, <3>2, <3>3, WithinFacts
    <3> HIDE DEF w
    <3>5. w[l] = a + 4 * (k + 1) /\ k + 1 \in Nat
      <4>1. w[l] = (a + 4 * k) + 4
        BY <2>1, <2>5
      <4>2. (a + 4 * k) + 4 = a + 4 * (k + 1)
        OBVIOUS
      <4>3. QED  BY <4>1, <4>2
    <3>6. QED  BY <2>5, <3>2, <3>4, <3>5 DEF Reached, near
  <2> HIDE DEF w
  <2>7. ASSUME NEW l \in 1 .. Len(new)
        PROVE  /\ \A j \in 1 .. Len(s) : r[j] <= w[l]
               /\ w[l] <= r[n + 1] + 4
    BY <2>1, <2>2
  <2>8. AddedRanks(known, blocked, from, s, r, n, new, w)
    BY <1>7, <1>10, <2>3, <2>6, <2>7 DEF AddedRanks
  <2>9. QED  BY <2>8 DEF new
<1>11. QED  BY <1>9, <1>10

(* One more round keeps the queue ranked. *)
LEMMA RoundRanks ==
  ASSUME NEW known, NEW blocked, NEW from \in Positions, DOMAIN known \subseteq Positions,
         NEW s, NEW r, NEW n \in Nat, Searched(known, blocked, from, s, n),
         Ranked(known, blocked, from, s, r, n), n + 1 \in 1 .. Len(s)
  PROVE  \E rr : Ranked(known, blocked, from,
                        s \o Fresh(known, blocked, from, s, s[n + 1]), rr, n + 1)
<1> DEFINE e == s[n + 1]
           new == Fresh(known, blocked, from, s, e)
           t == s \o new
           m == Len(s)
           C == SearchCells(known, from)
<1>1. /\ s \in Seq([cell : C, step : C]) /\ m \in Nat
      /\ s[1] = [cell |-> from, step |-> from] /\ m >= 1
  BY LenProperties DEF Searched
<1>2. PICK w : AddedRanks(known, blocked, from, s, r, n, new, w)
  BY FreshRanks
<1>3. e \in [cell : C, step : C]
  BY <1>1, ElementOfSeq
<1>4. new \in Seq([cell : C, step : C])
  BY <1>3, FreshType
<1> HIDE DEF new
<1>5. /\ Len(new) \in Nat /\ Len(t) = m + Len(new)
      /\ \A i \in 1 .. m : i \in 1 .. Len(t) /\ t[i] = s[i]
      /\ \A k \in 1 .. Len(new) : m + k \in 1 .. Len(t) /\ t[m + k] = new[k]
      /\ \A i \in 1 .. Len(t) : i \notin 1 .. m => \E k \in 1 .. Len(new) : i = m + k
  BY <1>1, <1>4, ConcatEntries
<1> DEFINE rr == [i \in 1 .. Len(t) |-> IF i <= m THEN r[i] ELSE w[i - m]]
<1> HIDE DEF t, C, m
<1>6. \A i \in 1 .. m : i \in 1 .. Len(t) /\ rr[i] = r[i]
  BY <1>1, <1>5
<1>7. \A k \in 1 .. Len(new) : m + k \in 1 .. Len(t) /\ rr[m + k] = w[k]
  <2>1. ASSUME NEW k \in 1 .. Len(new)
        PROVE  m + k \in 1 .. Len(t) /\ ~ (m + k <= m) /\ (m + k) - m = k
    BY <1>1, <1>5
  <2>2. QED  BY <2>1
<1>8. \A i \in 1 .. Len(t) : i \in 1 .. m \/ \E k \in 1 .. Len(new) : i = m + k
  BY <1>5
<1>9. DOMAIN rr = 1 .. Len(t) /\ rr = [i \in 1 .. Len(t) |-> rr[i]]
  OBVIOUS
<1> HIDE DEF rr
<1>10. /\ r \in [1 .. m -> Nat] /\ r[1] = 0
       /\ \A i, j \in 1 .. m : i <= j => r[i] <= r[j]
       /\ \A i \in 1 .. m : r[i] <= 4 * (i - 1)
       /\ n \in 1 .. m => \A j \in 1 .. m : r[j] <= r[n] + 4
       /\ n = 0 => m = 1
       /\ \A i \in 2 .. m : Reached(known, blocked, from, s[i], r[i])
  BY DEF Ranked, m
<1>11. n + 1 \in 1 .. m /\ 1 \in 1 .. m
  BY <1>1 DEF m
<1>12. \A j \in 1 .. m : r[j] \in Nat
  BY <1>10
<1>13. \A k \in 1 .. Len(new) : /\ w[k] \in Nat /\ w[k] <= r[n + 1] + 4
                                /\ \A j \in 1 .. m : r[j] <= w[k]
  BY <1>2 DEF AddedRanks, m
<1>14. \A i \in 1 .. Len(t) : rr[i] \in Nat
  BY <1>6, <1>7, <1>8, <1>12, <1>13
<1>15. rr \in [1 .. Len(t) -> Nat] /\ rr[1] = 0
  BY <1>6, <1>9, <1>10, <1>11, <1>14
<1>16. ASSUME NEW i \in 1 .. Len(t), NEW j \in 1 .. Len(t), i <= j
       PROVE  rr[i] <= rr[j]
  <2>1. CASE i \in 1 .. m /\ j \in 1 .. m
    BY <1>6, <1>10, <1>16, <2>1
  <2>2. CASE i \in 1 .. m /\ j \notin 1 .. m
    <3>1. PICK k \in 1 .. Len(new) : j = m + k
      BY <1>8, <2>2
    <3>2. QED  BY <1>6, <1>7, <1>13, <2>2, <3>1
  <2>3. CASE i \notin 1 .. m /\ j \in 1 .. m
    BY <1>1, <1>5, <1>16, <2>3
  <2>4. CASE i \notin 1 .. m /\ j \notin 1 .. m
    <3>1. PICK k \in 1 .. Len(new) : i = m + k
      BY <1>8, <2>4
    <3>2. PICK l \in 1 .. Len(new) : j = m + l
      BY <1>8, <2>4
    <3>3. k <= l
      BY <1>1, <1>5, <1>16, <3>1, <3>2
    <3>4. QED  BY <1>2, <1>7, <3>1, <3>2, <3>3 DEF AddedRanks
  <2>5. QED  BY <2>1, <2>2, <2>3, <2>4
<1>17. ASSUME NEW i \in 1 .. Len(t)
       PROVE  rr[i] <= 4 * (i - 1)
  <2>1. CASE i \in 1 .. m
    BY <1>6, <1>10, <2>1
  <2>2. CASE i \notin 1 .. m
    <3>1. PICK k \in 1 .. Len(new) : i = m + k
      BY <1>8, <2>2
    <3>2. rr[i] <= r[n + 1] + 4 /\ r[n + 1] <= 4 * ((n + 1) - 1) /\ rr[i] \in Nat /\ r[n + 1] \in Nat
      BY <1>7, <1>10, <1>11, <1>12, <1>13, <3>1
    <3>3. n + 1 <= m /\ m + 1 <= i
      BY <1>1, <1>5, <1>11, <3>1
    <3>4. QED  BY <1>1, <3>2, <3>3
  <2>3. QED  BY <2>1, <2>2
<1>18. \A j \in 1 .. m : r[j] <= r[n + 1] + 4
  <2>1. CASE n = 0
    <3>1. \A j \in 1 .. m : j = 1
      BY <1>10, <2>1
    <3>2. r[n + 1] \in Nat
      BY <1>11, <1>12
    <3>3. QED  BY <1>10, <3>1, <3>2
  <2>2. CASE n # 0
    <3>1. n \in 1 .. m /\ n <= n + 1
      BY <1>1, <1>11, <2>2
    <3>2. r[n] <= r[n + 1] /\ r[n] \in Nat /\ r[n + 1] \in Nat
      BY <1>10, <1>11, <1>12, <3>1
    <3>3. QED  BY <1>10, <1>12, <3>1, <3>2
  <2>3. QED  BY <2>1, <2>2
<1>19. \A j \in 1 .. Len(t) : rr[j] <= rr[n + 1] + 4
  <2>1. rr[n + 1] = r[n + 1]
    BY <1>6, <1>11
  <2>2. QED  BY <1>6, <1>7, <1>8, <1>13, <1>18, <2>1
<1>20. ASSUME NEW i \in 2 .. Len(t)
       PROVE  Reached(known, blocked, from, t[i], rr[i])
  <2>1. i \in 1 .. Len(t)
    BY <1>20
  <2>2. CASE i \in 1 .. m
    <3>1. i \in 2 .. m
      BY <1>20, <2>2
    <3>2. QED  BY <1>5, <1>6, <1>10, <2>2, <3>1
  <2>3. CASE i \notin 1 .. m
    <3>1. PICK k \in 1 .. Len(new) : i = m + k
      BY <1>8, <2>1, <2>3
    <3>2. Reached(known, blocked, from, new[k], w[k])
      BY <1>2 DEF AddedRanks
    <3>3. QED  BY <1>5, <1>7, <3>1, <3>2
  <2>4. QED  BY <2>2, <2>3
<1>21. ASSUME NEW q, NEW b \in Nat, QueuedBy(s, r, q, b)
       PROVE  QueuedBy(t, rr, q, b)
  BY <1>5, <1>6, <1>21 DEF QueuedBy, m
<1>22. ASSUME NEW a \in 1 .. 4, is_traversable(known, blocked, cardinal_neighbors(from)[a])
       PROVE  QueuedBy(t, rr, cardinal_neighbors(from)[a], a)
  <2> DEFINE q == cardinal_neighbors(from)[a]
  <2>1. CASE n = 0
    <3>1. n + 1 = 1
      BY <2>1
    <3>2. s[n + 1].cell = from
      BY <1>1, <3>1
    <3>3. q \in Around(from) /\ q # from
      BY NotAround DEF Around
    <3> HIDE DEF q
    <3>4. ~ \E j \in 1 .. Len(s) : s[j].cell = q
      <4>1. \A j \in 1 .. m : j = 1
        BY <1>10, <2>1
      <4>2. s[1].cell = from
        BY <1>1
      <4>3. \A j \in 1 .. m : s[j].cell = from
        BY <4>1, <4>2
      <4>4. QED  BY <3>3, <4>3 DEF m
    <3>5. PICK k \in 1 .. Len(new) : new[k].cell = q
      BY <1>2, <1>22, <3>2, <3>3, <3>4 DEF AddedRanks, q
    <3>6. w[k] = a
      BY <1>2, <2>1, <3>5 DEF AddedRanks, q
    <3>7. t[m + k].cell = q /\ m + k \in 1 .. Len(t) /\ rr[m + k] <= a
      BY <1>5, <1>7, <3>5, <3>6
    <3>8. QED  BY <3>7 DEF QueuedBy, q
  <2>2. CASE n # 0
    <3>1. n >= 1
      BY <2>2
    <3>2. QueuedBy(s, r, q, a)
      BY <1>22, <3>1 DEF Ranked
    <3>3. QED  BY <1>21, <3>2
  <2>3. QED  BY <2>1, <2>2
<1>23. ASSUME NEW i \in 2 .. Len(t), i <= n + 1,
              NEW q \in Around(t[i].cell), is_traversable(known, blocked, q)
       PROVE  QueuedBy(t, rr, q, rr[i] + 4)
  <2>1. i \in 1 .. m /\ i \in 2 .. m
    BY <1>1, <1>11, <1>23
  <2>2. t[i] = s[i] /\ rr[i] = r[i] /\ r[i] \in Nat
    BY <1>5, <1>6, <1>12, <2>1
  <2>3. CASE i <= n
    <3>1. QueuedBy(s, r, q, r[i] + 4)
      BY <1>23, <2>1, <2>2, <2>3 DEF Ranked, m
    <3>2. r[i] + 4 \in Nat
      BY <2>2
    <3>3. QED  BY <1>21, <2>2, <3>1, <3>2
  <2>4. CASE i = n + 1
    <3>1. q \in Around(s[n + 1].cell)
      BY <1>23, <2>2, <2>4
    <3>2. CASE \E j \in 1 .. Len(s) : s[j].cell = q
      <4>1. PICK j \in 1 .. m : s[j].cell = q
        BY <3>2 DEF m
      <4>2. t[j].cell = q /\ j \in 1 .. Len(t) /\ rr[j] <= rr[i] + 4
        BY <1>5, <1>6, <1>18, <2>2, <2>4, <4>1
      <4>3. QED  BY <4>2 DEF QueuedBy
    <3>3. CASE \E k \in 1 .. Len(new) : new[k].cell = q
      <4>1. PICK k \in 1 .. Len(new) : new[k].cell = q
        BY <3>3
      <4>2. t[m + k].cell = q /\ m + k \in 1 .. Len(t) /\ rr[m + k] <= rr[i] + 4
        BY <1>5, <1>7, <1>13, <2>2, <2>4, <4>1
      <4>3. QED  BY <4>2 DEF QueuedBy
    <3>4. QED  BY <1>2, <1>23, <3>1, <3>2, <3>3 DEF AddedRanks
  <2>5. QED  BY <1>23, <2>3, <2>4
<1>24. n + 1 # 0
  OBVIOUS
<1>25. Ranked(known, blocked, from, t, rr, n + 1)
  BY <1>15, <1>16, <1>17, <1>19, <1>20, <1>22, <1>23, <1>24, Zenon DEF Ranked
<1>26. QED  BY <1>25 DEF t, new

(* Round by round the queue is ranked.                                     *)
LEMMA OrderRanks ==
  ASSUME NEW known, NEW blocked, NEW from \in Positions, DOMAIN known \subseteq Positions,
         NEW order, IsOrder(known, blocked, from, order)
  PROVE  \A n \in Nat : \E r : Ranked(known, blocked, from, order[n], r, n)
<1> DEFINE S == {n \in Nat : \E r : Ranked(known, blocked, from, order[n], r, n)}
           C == SearchCells(known, from)
           first == << [cell |-> from, step |-> from] >>
           zero == [i \in 1 .. 1 |-> 0]
<1>1. 0 \in S
  <2>1. order[0] = first
    BY DEF IsOrder
  <2>2. Len(first) = 1 /\ zero \in [1 .. 1 -> Nat] /\ zero[1] = 0
    OBVIOUS
  <2> HIDE DEF first, zero
  <2>3. Ranked(known, blocked, from, first, zero, 0)
    <3>1. \A i \in 1 .. 1 : i = 1
      OBVIOUS
    <3>2. \A i \in 2 .. Len(first) : FALSE
      BY <2>2
    <3>3. /\ zero \in [1 .. Len(first) -> Nat]
          /\ \A i, j \in 1 .. Len(first) : i <= j => zero[i] <= zero[j]
          /\ \A i \in 1 .. Len(first) : zero[i] <= 4 * (i - 1)
      BY <2>2, <3>1
    <3>4. 0 \notin 1 .. Len(first)
      OBVIOUS
    <3>5. QED  BY <2>2, <3>2, <3>3, <3>4 DEF Ranked
  <2>4. QED  BY <2>1, <2>3
<1>2. ASSUME NEW n \in Nat, n \in S
      PROVE  n + 1 \in S
  <2> DEFINE q == order[n]
  <2>1. /\ Searched(known, blocked, from, q, n) /\ q \in Seq([cell : C, step : C])
        /\ order[n + 1] = IF n + 1 \in 1 .. Len(q)
                          THEN q \o Fresh(known, blocked, from, q, q[n + 1]) ELSE q
    BY OrderSearches DEF IsOrder
  <2>2. PICK r : Ranked(known, blocked, from, q, r, n)
    BY <1>2
  <2> HIDE DEF q
  <2>3. CASE n + 1 \in 1 .. Len(q)
    <3>1. \E rr : Ranked(known, blocked, from, q \o Fresh(known, blocked, from, q, q[n + 1]), rr, n + 1)
      BY <2>1, <2>2, <2>3, RoundRanks
    <3>2. order[n + 1] = q \o Fresh(known, blocked, from, q, q[n + 1])
      BY <2>1, <2>3
    <3>3. \E rr : Ranked(known, blocked, from, order[n + 1], rr, n + 1)
      BY <3>1, <3>2
    <3>4. QED  BY <3>3
  <2>4. CASE n + 1 \notin 1 .. Len(q)
    <3>1. Len(q) \in Nat /\ Len(q) >= 1
      BY <2>1, LenProperties DEF Searched
    <3>2. n # 0 /\ \A i \in 1 .. Len(q) : i <= n
      BY <2>4, <3>1
    <3>3. n >= 1 /\ n + 1 # 0
      BY <3>2
    <3>4. Ranked(known, blocked, from, q, r, n + 1)
      BY <2>2, <2>4, <3>2, <3>3 DEF Ranked
    <3>5. order[n + 1] = q
      BY <2>1, <2>4
    <3>6. QED  BY <3>4, <3>5
  <2>5. QED  BY <2>3, <2>4
<1> HIDE DEF S
<1>3. \A n \in Nat : n \in S
  BY <1>1, <1>2, SetInduction
<1>4. QED  BY <1>3 DEF S

(* What the ranks of the whole search are: every entry is as far away as   *)
(* its rank says, and no cell comes later than the shortest path to it     *)
(* asks for.                                                               *)
RankedSearch(known, blocked, from, s, r) ==
  /\ Searched(known, blocked, from, s, Len(s))
  /\ Len(s) \in Nat
  /\ r \in [1 .. Len(s) -> Nat]
  /\ \A i, j \in 1 .. Len(s) : i <= j => r[i] <= r[j]
  /\ \A i \in 1 .. Len(s) : r[i] <= 4 * (i - 1)
  /\ \A i \in 2 .. Len(s) : Reached(known, blocked, from, s[i], r[i])
  /\ \A a \in 1 .. 4 : \A k \in Nat :
       LET p == cardinal_neighbors(from)[a] IN
       is_traversable(known, blocked, p) =>
         \A q \in Within(known, blocked, p)[k] : QueuedBy(s, r, q, a + 4 * k)

LEMMA SearchRanks ==
  ASSUME NEW known, NEW blocked, NEW from \in Positions, DOMAIN known \subseteq Positions,
         IsFiniteSet(DOMAIN known)
  PROVE  \E r : RankedSearch(known, blocked, from, SearchFrom(known, blocked, from), r)
<1> DEFINE N == Cardinality(SearchCells(known, from))
           s == SearchFrom(known, blocked, from)
           m == Len(s)
<1>1. PICK order : IsOrder(known, blocked, from, order) /\ s = order[N]
  BY SearchOrder
<1>2. N \in Nat
  BY SearchOrder
<1>3. Searched(known, blocked, from, s, m)
  BY SearchFacts
<1>4. m \in Nat /\ m <= N
  BY <1>3, SearchEnds
<1> HIDE DEF s, N
<1>5. PICK r : Ranked(known, blocked, from, s, r, N)
  BY <1>1, <1>2, OrderRanks
<1>6. /\ s \in Seq([cell : SearchCells(known, from), step : SearchCells(known, from)])
      /\ m >= 1 /\ s[1] = [cell |-> from, step |-> from] /\ N >= 1
  BY <1>2, <1>3, <1>4 DEF Searched
<1> HIDE DEF m
<1>7. /\ r \in [1 .. m -> Nat] /\ r[1] = 0
      /\ \A i, j \in 1 .. m : i <= j => r[i] <= r[j]
      /\ \A i \in 1 .. m : r[i] <= 4 * (i - 1)
      /\ \A i \in 2 .. m : Reached(known, blocked, from, s[i], r[i])
      /\ \A a \in 1 .. 4 : is_traversable(known, blocked, cardinal_neighbors(from)[a]) =>
           QueuedBy(s, r, cardinal_neighbors(from)[a], a)
      /\ \A i \in 2 .. m : \A q \in Around(s[i].cell) :
           is_traversable(known, blocked, q) => QueuedBy(s, r, q, r[i] + 4)
  <2>1. \A i \in 2 .. m : i <= N
    BY <1>2, <1>4
  <2>2. QED  BY <1>5, <1>6, <2>1 DEF Ranked, m
<1>8. ASSUME NEW a \in 1 .. 4, is_traversable(known, blocked, cardinal_neighbors(from)[a])
      PROVE  \A k \in Nat : \A q \in Within(known, blocked, cardinal_neighbors(from)[a])[k] :
               QueuedBy(s, r, q, a + 4 * k)
  <2> DEFINE p == cardinal_neighbors(from)[a]
             B == Within(known, blocked, p)
             S == {k \in Nat : \A q \in B[k] : QueuedBy(s, r, q, a + 4 * k)}
  <2>1. B[0] = {p} /\ \A k \in Nat : B[k + 1] = B[k] \cup { q \in DOMAIN known :
                                                    /\ is_traversable(known, blocked, q)
                                                    /\ Around(q) \cap B[k] # {} }
    BY WithinFacts
  <2> HIDE DEF B
  <2>2. 0 \in S
    <3>1. QueuedBy(s, r, p, a)
      BY <1>7, <1>8
    <3> HIDE DEF p
    <3>2. a + 4 * 0 = a
      OBVIOUS
    <3>3. QED  BY <2>1, <3>1, <3>2
  <2>3. ASSUME NEW k \in Nat, k \in S
        PROVE  k + 1 \in S
    <3>1. a + 4 * (k + 1) = (a + 4 * k) + 4 /\ a + 4 * k \in Nat
      OBVIOUS
    <3>2. ASSUME NEW q \in B[k]
          PROVE  QueuedBy(s, r, q, a + 4 * (k + 1))
      <4>1. PICK j \in 1 .. m : s[j].cell = q /\ r[j] <= a + 4 * k
        BY <2>3 DEF QueuedBy, m
      <4>2. r[j] <= a + 4 * (k + 1)
        BY <1>7, <3>1, <4>1
      <4>3. QED  BY <4>1, <4>2 DEF QueuedBy, m
    <3>3. ASSUME NEW q \in DOMAIN known, is_traversable(known, blocked, q), Around(q) \cap B[k] # {}
          PROVE  QueuedBy(s, r, q, a + 4 * (k + 1))
      <4>1. PICK c \in B[k] : c \in Around(q)
        BY <3>3
      <4>2. q \in Around(c)
        BY <3>3, <4>1, AroundSymmetric
      <4>3. PICK j \in 1 .. m : s[j].cell = c /\ r[j] <= a + 4 * k
        BY <2>3 DEF QueuedBy, m
      <4>4. CASE j = 1
        <5>1. c = from
          BY <1>6, <4>3, <4>4
        <5>2. PICK b \in 1 .. 4 : q = cardinal_neighbors(from)[b]
          BY <4>2, <5>1 DEF Around
        <5>3. PICK l \in 1 .. m : s[l].cell = q /\ r[l] <= b
          BY <1>7, <3>3, <5>2 DEF QueuedBy, m
        <5>4. r[l] <= a + 4 * (k + 1)
          BY <1>7, <5>3
        <5>5. QED  BY <5>3, <5>4 DEF QueuedBy, m
      <4>5. CASE j # 1
        <5>1. j \in 2 .. m
          BY <1>4, <4>5
        <5>2. PICK l \in 1 .. m : s[l].cell = q /\ r[l] <= r[j] + 4
          BY <1>7, <3>3, <4>2, <4>3, <5>1 DEF QueuedBy, m
        <5>3. r[l] \in Nat /\ r[j] \in Nat
          BY <1>7
        <5>4. r[l] <= a + 4 * (k + 1)
          BY <3>1, <4>3, <5>2, <5>3
        <5>5. QED  BY <5>2, <5>4 DEF QueuedBy, m
      <4>6. QED  BY <4>4, <4>5
    <3>4. \A q \in B[k + 1] : QueuedBy(s, r, q, a + 4 * (k + 1))
      BY <2>1, <3>2, <3>3
    <3>5. QED  BY <3>4
  <2> HIDE DEF S
  <2>4. \A k \in Nat : k \in S
    BY <2>2, <2>3, SetInduction
  <2>5. QED  BY <2>4 DEF S, B
<1>9. RankedSearch(known, blocked, from, s, r)
  BY <1>3, <1>4, <1>7, <1>8, Zenon DEF RankedSearch, m
<1>10. QED  BY <1>9 DEF s

(* The cells that may be entered can be counted, and the queue holds no    *)
(* more than those and the start.                                          *)
LEMMA FarFacts ==
  ASSUME NEW known, NEW blocked, IsFiniteSet(DOMAIN known)
  PROVE  /\ Far(known, blocked) \in Nat
         /\ \A p : is_traversable(known, blocked, p) => Far(known, blocked) >= 1
         /\ \A from, s, n : Searched(known, blocked, from, s, n) /\ Len(s) \in Nat =>
              Len(s) <= Far(known, blocked) + 1
<1> DEFINE T == { q \in DOMAIN known : is_traversable(known, blocked, q) }
           F == Far(known, blocked)
<1>1. T \subseteq DOMAIN known /\ F = Cardinality(T)
  BY DEF Far
<1>2. IsFiniteSet(T) /\ F \in Nat
  BY <1>1, FS_Subset, FS_CardinalityType
<1>3. ASSUME NEW p, is_traversable(known, blocked, p)
      PROVE  F >= 1
  <2>1. p \in T
    BY <1>3 DEF is_traversable
  <2> HIDE DEF T, F
  <2>2. F # 0
    BY <1>1, <1>2, <2>1, FS_EmptySet
  <2>3. QED  BY <1>2, <2>2
<1>4. ASSUME NEW from, NEW s, NEW n, Searched(known, blocked, from, s, n), Len(s) \in Nat
      PROVE  Len(s) <= F + 1
  <2> DEFINE m == Len(s)
             g == [i \in 2 .. m |-> s[i].cell]
  <2>1. \A i \in 2 .. m : s[i].cell \in T
    BY <1>4 DEF Searched, is_traversable
  <2>2. \A i, j \in 2 .. m : s[i].cell = s[j].cell => i = j
    BY <1>4 DEF Searched
  <2>3. m \in Nat /\ m >= 1
    BY <1>4 DEF Searched
  <2> HIDE DEF T, F, m
  <2>4. g \in Injection(2 .. m, T)
    BY <2>1, <2>2 DEF Injection, IsInjective
  <2>5. Cardinality(2 .. m) <= F
    BY <1>1, <1>2, <2>4, FS_Injection
  <2>6. Cardinality(2 .. m) = IF 2 > m THEN 0 ELSE m - 2 + 1
    BY <2>3, FS_Interval
  <2>7. QED  BY <1>2, <2>3, <2>5, <2>6 DEF m
<1>5. QED  BY <1>2, <1>3, <1>4

(* What StepsToFrontier says of a position.                                *)
LEMMA StepsFacts ==
  ASSUME NEW known, NEW blocked, IsFiniteSet(DOMAIN known), NEW p
  PROVE  LET d == StepsToFrontier(known, blocked, p) IN
         /\ d \in 0 .. Far(known, blocked)
         /\ d < Far(known, blocked) => /\ is_traversable(known, blocked, p)
                                       /\ d \in Hits(known, blocked, p)
         /\ is_traversable(known, blocked, p) =>
              \A k \in Hits(known, blocked, p) : d <= k
<1> DEFINE H == Hits(known, blocked, p)
           F == Far(known, blocked)
           d == StepsToFrontier(known, blocked, p)
           least == CHOOSE k \in H : \A j \in H : k <= j
<1>1. F \in Nat
  BY FarFacts
<1>2. H \subseteq 0 .. F - 1
  BY DEF Hits
<1>3. d = IF is_traversable(known, blocked, p) /\ H # {} THEN least ELSE F
  BY DEF StepsToFrontier
<1> HIDE DEF H, F, d
<1>4. CASE is_traversable(known, blocked, p) /\ H # {}
  <2>1. H \subseteq Nat
    BY <1>1, <1>2
  <2>2. \E k \in H : \A j \in H : k <= j
    BY <1>4, <2>1, Least
  <2>3. least \in H /\ \A j \in H : least <= j
    BY <2>2
  <2>4. d \in H /\ \A j \in H : d <= j
    BY <1>3, <1>4, <2>3
  <2>5. d \in 0 .. F
    BY <1>1, <1>2, <2>4
  <2>6. QED  BY <1>4, <2>4, <2>5 DEF H, F, d
<1>5. CASE ~ (is_traversable(known, blocked, p) /\ H # {})
  <2>1. d = F /\ d \in 0 .. F /\ ~ (d < F)
    BY <1>1, <1>3, <1>5
  <2>2. QED  BY <1>5, <2>1 DEF H, F, d
<1>6. QED  BY <1>4, <1>5

(* When there is no first frontier there is none.                          *)
LEMMA FirstFrontierFacts ==
  ASSUME NEW known, NEW blocked, NEW n \in Nat, NEW c, DOMAIN c = 1 .. n
  PROVE  /\ FirstFrontier(known, blocked, c) = {} =>
              \A i \in 1 .. n : ~ is_frontier(known, blocked, c[i])
         /\ \A i \in FirstFrontier(known, blocked, c) :
              /\ i \in 1 .. n /\ is_frontier(known, blocked, c[i])
              /\ \A j \in 1 .. n : is_frontier(known, blocked, c[j]) => i <= j
<1> DEFINE At == {i \in 1 .. n : is_frontier(known, blocked, c[i])}
<1>1. ASSUME At # {}  PROVE FirstFrontier(known, blocked, c) # {}
  <2>1. At \subseteq Nat
    OBVIOUS
  <2> HIDE DEF At
  <2>2. PICK i \in At : \A k \in At : i <= k
    BY <1>1, <2>1, Least
  <2>3. i \in 1 .. n /\ is_frontier(known, blocked, c[i])
    BY DEF At
  <2>4. \A j \in 1 .. i - 1 : j \in 1 .. n /\ ~ (i <= j)
    BY <2>3
  <2>5. \A j \in 1 .. i - 1 : ~ is_frontier(known, blocked, c[j])
    BY <2>2, <2>4 DEF At
  <2>6. i \in FirstFrontier(known, blocked, c)
    BY <2>3, <2>5 DEF FirstFrontier
  <2>7. QED  BY <2>6
<1>2. ASSUME NEW i \in FirstFrontier(known, blocked, c)
      PROVE  /\ i \in 1 .. n /\ is_frontier(known, blocked, c[i])
             /\ \A j \in 1 .. n : is_frontier(known, blocked, c[j]) => i <= j
  <2>1. /\ i \in 1 .. n /\ is_frontier(known, blocked, c[i])
        /\ \A j \in 1 .. i - 1 : ~ is_frontier(known, blocked, c[j])
    BY DEF FirstFrontier
  <2>2. \A j \in 1 .. n : i <= j \/ j \in 1 .. i - 1
    BY <2>1
  <2>3. QED  BY <2>1, <2>2
<1>3. QED  BY <1>1, <1>2

(* The distances of the four neighbours, and which of them will do.        *)
Distances(known, blocked, from, d, enough) ==
  /\ d = [i \in 1 .. 4 |-> StepsToFrontier(known, blocked, cardinal_neighbors(from)[i])]
  /\ enough = IF is_frontier(known, blocked, from) THEN {0} ELSE 0 .. Far(known, blocked) - 1

(* NearestNeighbor answers none of them when none will do.                 *)
LEMMA NoneNearest ==
  ASSUME NEW known, NEW blocked, NEW from, NEW d, NEW enough,
         Distances(known, blocked, from, d, enough), \A i \in 1 .. 4 : d[i] \notin enough
  PROVE  NearestNeighbor(known, blocked, from) = {}
BY DEF NearestNeighbor, Distances

(* Else it answers the first of the nearest.                               *)
LEMMA OneNearest ==
  ASSUME NEW known, NEW blocked, NEW from, NEW d, NEW enough,
         Distances(known, blocked, from, d, enough), \A i \in 1 .. 4 : d[i] \in Nat,
         NEW a \in 1 .. 4, d[a] \in enough,
         \A j \in 1 .. 4 : d[a] < d[j] \/ (d[a] = d[j] /\ a <= j)
  PROVE  NearestNeighbor(known, blocked, from) = {cardinal_neighbors(from)[a]}
<1> DEFINE n == cardinal_neighbors(from)
           best == { i \in 1 .. 4 : /\ d[i] \in enough
                                    /\ \A j \in 1 .. 4 : d[i] < d[j] \/ (d[i] = d[j] /\ i <= j) }
<1>1. NearestNeighbor(known, blocked, from) = { n[i] : i \in best }
  BY DEF NearestNeighbor, Distances
<1> HIDE DEF n
<1>2. a \in best
  OBVIOUS
<1>3. ASSUME NEW b \in best
      PROVE  b = a
  <2>1. /\ b \in 1 .. 4 /\ d[a] \in Nat /\ d[b] \in Nat
        /\ d[b] < d[a] \/ (d[b] = d[a] /\ b <= a)
        /\ d[a] < d[b] \/ (d[a] = d[b] /\ a <= b)
    OBVIOUS
  <2>2. QED  BY <2>1
<1> HIDE DEF best
<1>4. best = {a}
  BY <1>2, <1>3
<1>5. QED  BY <1>1, <1>4 DEF n

-------------------------------------------------------------------------------
(* The planner computes what it should. *)

(* Whatever the map known and the contacts believed active: plan_next_step *)
(* of mission_explorer.cpp (lines 198-254) answers the first step of a     *)
(* shortest path to a frontier, ties broken by the order up, down, left,   *)
(* right, and gives up exactly when no frontier can be reached; on a       *)
(* frontier cell only a neighbour that is one too will do.  The ranks      *)
(* order the queue: no frontier is nearer than the first one in it, and    *)
(* its first step is the first of the steps to one as near.                *)
THEOREM PlansNearestFrontier ==
  ASSUME NEW known, NEW blocked, NEW from \in Positions, DOMAIN known \subseteq Positions,
         IsFiniteSet(DOMAIN known)
  PROVE  plan_next_step(known, blocked, from) = NearestNeighbor(known, blocked, from)
<1> DEFINE near == cardinal_neighbors(from)
           F == Far(known, blocked)
           d == [i \in 1 .. 4 |-> StepsToFrontier(known, blocked, near[i])]
           enough == IF is_frontier(known, blocked, from) THEN {0} ELSE 0 .. F - 1
           plan == plan_next_step(known, blocked, from)
           nearest == NearestNeighbor(known, blocked, from)
<1>1. F \in Nat /\ \A p : is_traversable(known, blocked, p) => F >= 1
  BY FarFacts
<1>2. \A i \in 1 .. 4 :
        /\ d[i] \in 0 .. F /\ d[i] \in Nat
        /\ d[i] < F => /\ is_traversable(known, blocked, near[i])
                       /\ d[i] \in Hits(known, blocked, near[i])
        /\ is_traversable(known, blocked, near[i]) =>
             \A k \in Hits(known, blocked, near[i]) : d[i] <= k
  BY <1>1, StepsFacts
<1>3. /\ (\A i \in 1 .. 4 : d[i] \notin enough) => nearest = {}
      /\ \A a \in 1 .. 4 :
           /\ d[a] \in enough
           /\ \A j \in 1 .. 4 : d[a] < d[j] \/ (d[a] = d[j] /\ a <= j)
           => nearest = {near[a]}
  <2>1. Distances(known, blocked, from, d, enough) /\ \A i \in 1 .. 4 : d[i] \in Nat
    BY <1>2 DEF Distances
  <2> HIDE DEF d, enough
  <2>2. (\A i \in 1 .. 4 : d[i] \notin enough) => nearest = {}
    BY <2>1, NoneNearest
  <2>3. ASSUME NEW a \in 1 .. 4, d[a] \in enough,
               \A j \in 1 .. 4 : d[a] < d[j] \/ (d[a] = d[j] /\ a <= j)
        PROVE  nearest = {near[a]}
    BY <2>1, <2>3, OneNearest
  <2>4. QED  BY <2>2, <2>3
<1>4. \A p : \A k : k \in Hits(known, blocked, p) <=>
        k \in 0 .. F - 1 /\ \E q \in Within(known, blocked, p)[k] : is_frontier(known, blocked, q)
  BY DEF Hits
<1> HIDE DEF F, d, nearest
<1>5. CASE is_frontier(known, blocked, from)
  <2> DEFINE first == FirstFrontier(known, blocked, near)
  <2>1. plan = {near[i] : i \in first}
    BY <1>5 DEF plan_next_step
  <2>2. F >= 1 /\ enough = {0}
    BY <1>1, <1>5 DEF is_frontier
  <2>3. DOMAIN near = 1 .. 4
    BY DEF cardinal_neighbors
  <2> HIDE DEF enough, plan
  <2>4. ASSUME NEW i \in 1 .. 4
        PROVE  d[i] = 0 <=> is_frontier(known, blocked, near[i])
    <3>1. Within(known, blocked, near[i])[0] = {near[i]}
      BY WithinFacts
    <3>2. 0 \in Hits(known, blocked, near[i]) <=> is_frontier(known, blocked, near[i])
      BY <1>1, <1>4, <2>2, <3>1
    <3>3. ASSUME d[i] = 0  PROVE is_frontier(known, blocked, near[i])
      BY <1>1, <1>2, <2>2, <3>2, <3>3
    <3>4. ASSUME is_frontier(known, blocked, near[i])  PROVE d[i] = 0
      <4>1. is_traversable(known, blocked, near[i])
        BY <3>4 DEF is_frontier
      <4>2. d[i] <= 0 /\ d[i] \in Nat
        BY <1>2, <3>2, <3>4, <4>1
      <4>3. QED  BY <4>2
    <3>5. QED  BY <3>3, <3>4
  <2> HIDE DEF near, first
  <2>5. /\ first = {} => \A i \in 1 .. 4 : ~ is_frontier(known, blocked, near[i])
        /\ \A i \in first : /\ i \in 1 .. 4 /\ is_frontier(known, blocked, near[i])
                            /\ \A j \in 1 .. 4 : is_frontier(known, blocked, near[j]) => i <= j
    <3>1. 4 \in Nat
      OBVIOUS
    <3>2. QED  BY <2>3, <3>1, FirstFrontierFacts DEF first
  <2>6. CASE first = {}
    BY <1>3, <2>1, <2>2, <2>4, <2>5, <2>6 DEF plan, nearest
  <2>7. CASE first # {}
    <3>1. PICK a \in first : TRUE
      BY <2>7
    <3>2. a \in 1 .. 4 /\ d[a] = 0 /\ \A j \in 1 .. 4 : d[j] = 0 => a <= j
      BY <2>4, <2>5, <3>1
    <3>3. first = {a}
      <4>1. \A i \in first : i \in 1 .. 4 /\ i <= a /\ a <= i
        BY <2>5, <3>1
      <4>2. \A i \in first : i = a
        BY <3>2, <4>1
      <4>3. QED  BY <3>1, <4>2
    <3>4. \A j \in 1 .. 4 : d[a] < d[j] \/ (d[a] = d[j] /\ a <= j)
      BY <1>2, <3>2
    <3>5. nearest = {near[a]}
      BY <1>3, <2>2, <3>2, <3>4
    <3>6. plan = {near[a]}
      BY <2>1, <3>3
    <3>7. QED  BY <3>5, <3>6 DEF plan, nearest
  <2>8. QED  BY <2>6, <2>7
<1>6. CASE ~ is_frontier(known, blocked, from)
  <2> DEFINE s == SearchFrom(known, blocked, from)
             m == Len(s)
             cells == [j \in DOMAIN s |-> s[j].cell]
             first == FirstFrontier(known, blocked, cells)
  <2>1. plan = {s[i].step : i \in first}
    BY <1>6 DEF plan_next_step
  <2>2. PICK r : RankedSearch(known, blocked, from, s, r)
    BY SearchRanks
  <2> HIDE DEF s
  <2>3. /\ Searched(known, blocked, from, s, m) /\ m \in Nat
        /\ r \in [1 .. m -> Nat]
        /\ \A i, j \in 1 .. m : i <= j => r[i] <= r[j]
        /\ \A i \in 1 .. m : r[i] <= 4 * (i - 1)
        /\ \A i \in 2 .. m : Reached(known, blocked, from, s[i], r[i])
    BY <2>2 DEF RankedSearch
  <2>4. /\ DOMAIN s = 1 .. m /\ s[1].cell = from
        /\ m <= F + 1
    <3>1. /\ s \in Seq([cell : SearchCells(known, from), step : SearchCells(known, from)])
          /\ s[1] = [cell |-> from, step |-> from]
      BY <2>3 DEF Searched
    <3>2. m <= F + 1
      BY <2>3, FarFacts DEF F
    <3>3. QED  BY <3>1, <3>2, LenProperties
  <2>5. enough = 0 .. F - 1
    BY <1>6
  <2>6. ASSUME NEW b \in 1 .. 4, d[b] < F
        PROVE  \E j \in 1 .. m : is_frontier(known, blocked, s[j].cell) /\ r[j] <= b + 4 * d[b]
    <3>1. is_traversable(known, blocked, near[b]) /\ d[b] \in Hits(known, blocked, near[b]) /\ d[b] \in Nat
      BY <1>2, <2>6
    <3>2. PICK q \in Within(known, blocked, near[b])[d[b]] : is_frontier(known, blocked, q)
      BY <1>4, <3>1
    <3>3. QueuedBy(s, r, q, b + 4 * d[b])
      BY <2>2, <3>1, <3>2 DEF RankedSearch
    <3>4. QED  BY <3>2, <3>3 DEF QueuedBy
  <2>7. DOMAIN cells = 1 .. m /\ \A i \in 1 .. m : cells[i] = s[i].cell
    BY <2>4
  <2> HIDE DEF m, cells, enough, plan, first
  <2>8. /\ first = {} => \A i \in 1 .. m : ~ is_frontier(known, blocked, s[i].cell)
        /\ \A i \in first : /\ i \in 1 .. m /\ is_frontier(known, blocked, s[i].cell)
                            /\ \A j \in 1 .. m : is_frontier(known, blocked, s[j].cell) => i <= j
    <3>1. /\ first = {} => \A i \in 1 .. m : ~ is_frontier(known, blocked, cells[i])
          /\ \A i \in first : /\ i \in 1 .. m /\ is_frontier(known, blocked, cells[i])
                              /\ \A j \in 1 .. m : is_frontier(known, blocked, cells[j]) => i <= j
      BY <2>3, <2>7, FirstFrontierFacts DEF first
    <3>2. QED  BY <2>7, <3>1
  <2>9. CASE first = {}
    <3>1. \A i \in 1 .. 4 : ~ (d[i] < F)
      BY <2>6, <2>8, <2>9
    <3>2. \A i \in 1 .. 4 : d[i] \notin enough
      BY <1>1, <1>2, <2>5, <3>1
    <3>3. QED  BY <1>3, <2>1, <2>9, <3>2 DEF plan, nearest
  <2>10. CASE first # {}
    <3>1. PICK i \in first : TRUE
      BY <2>10
    <3>2. /\ i \in 1 .. m /\ is_frontier(known, blocked, s[i].cell)
          /\ \A j \in 1 .. m : is_frontier(known, blocked, s[j].cell) => i <= j
      BY <2>8
    <3>3. first = {i}
      <4>1. \A j \in first : j \in 1 .. m /\ j <= i /\ i <= j
        BY <2>8, <3>2
      <4>2. \A j \in first : j = i
        BY <2>3, <3>2, <4>1
      <4>3. QED  BY <3>1, <4>2
    <3>4. i \in 2 .. m
      <4>1. i # 1
        BY <1>6, <2>4, <3>2
      <4>2. QED  BY <2>3, <3>2, <4>1
    <3>5. PICK a \in 1 .. 4, k \in Nat :
            /\ r[i] = a + 4 * k
            /\ s[i].step = near[a] /\ is_traversable(known, blocked, near[a])
            /\ s[i].cell \in Within(known, blocked, near[a])[k]
      BY <2>3, <3>4 DEF Reached
    <3>6. k < F
      <4>1. r[i] <= 4 * (i - 1) /\ i <= m
        BY <2>3, <3>2
      <4>2. QED  BY <1>1, <2>3, <2>4, <3>4, <3>5, <4>1
    <3>7. d[a] <= k
      <4>1. k \in 0 .. F - 1
        BY <1>1, <3>5, <3>6
      <4>2. k \in Hits(known, blocked, near[a])
        BY <1>4, <3>2, <3>5, <4>1
      <4>3. QED  BY <1>2, <3>5, <4>2
    <3>8. ASSUME NEW b \in 1 .. 4, d[b] < F
          PROVE  a + 4 * k <= b + 4 * d[b]
      <4>1. PICK j \in 1 .. m : is_frontier(known, blocked, s[j].cell) /\ r[j] <= b + 4 * d[b]
        BY <2>6, <3>8
      <4>2. i <= j
        BY <3>2, <4>1
      <4>3. r[i] <= r[j] /\ r[i] \in Nat /\ r[j] \in Nat /\ d[b] \in Nat
        BY <1>2, <2>3, <3>2, <4>2
      <4>4. QED  BY <3>5, <4>1, <4>3
    <3>9. d[a] = k
      <4>1. d[a] \in Nat /\ d[a] < F
        BY <1>1, <1>2, <3>5, <3>6, <3>7
      <4>2. a + 4 * k <= a + 4 * d[a]
        BY <3>8, <4>1
      <4>3. QED  BY <3>5, <3>7, <4>1, <4>2
    <3>10. ASSUME NEW b \in 1 .. 4
           PROVE  d[a] < d[b] \/ (d[a] = d[b] /\ a <= b)
      <4>1. d[b] \in Nat
        BY <1>2
      <4>2. CASE d[b] < F
        <5>1. a + 4 * k <= b + 4 * d[b]
          BY <3>8, <4>2
        <5>2. QED  BY <3>5, <3>9, <4>1, <5>1
      <4>3. CASE ~ (d[b] < F)
        BY <1>1, <3>5, <3>6, <3>9, <4>1, <4>3
      <4>4. QED  BY <4>2, <4>3
    <3>11. d[a] \in enough
      BY <1>1, <2>5, <3>5, <3>6, <3>9
    <3>12. nearest = {near[a]}
      BY <1>3, <3>10, <3>11
    <3>13. plan = {near[a]}
      BY <2>1, <3>3, <3>5
    <3>14. QED  BY <3>12, <3>13 DEF plan, nearest
  <2>11. QED  BY <2>9, <2>10
<1>7. QED  BY <1>5, <1>6

-------------------------------------------------------------------------------
(* What the explorer needs to know of a plan. *)

(* V holds what can be reached from "from" over the cells that may be      *)
(* entered, and no frontier is among it: nothing is left to explore.       *)
Explored(known, blocked, from, V) ==
  /\ from \in V /\ V \subseteq Positions
  /\ \A p \in V : /\ p = from \/ is_traversable(known, blocked, p)
                  /\ ~ is_frontier(known, blocked, p)
                  /\ \A q \in Around(p) : is_traversable(known, blocked, q) => q \in V

(* What the planner answers: a neighbour that may be entered, or nothing,  *)
(* and then nothing is left to explore.                                    *)
LEMMA PlanFacts ==
  ASSUME NEW known, NEW blocked, NEW from \in Positions, DOMAIN known \subseteq Positions,
         IsFiniteSet(DOMAIN known)
  PROVE  /\ \A to \in plan_next_step(known, blocked, from) :
              is_traversable(known, blocked, to) /\ to \in Around(from)
         /\ plan_next_step(known, blocked, from) = {} /\ ~ is_frontier(known, blocked, from) =>
              \E V : Explored(known, blocked, from, V)
<1> DEFINE s == SearchFrom(known, blocked, from)
           near == cardinal_neighbors(from)
           cells == [j \in DOMAIN s |-> s[j].cell]
           F == FirstFrontier(known, blocked, cells)
           Entry == [cell : SearchCells(known, from), step : SearchCells(known, from)]
<1>1. plan_next_step(known, blocked, from) =
        IF is_frontier(known, blocked, from)
        THEN {near[i] : i \in FirstFrontier(known, blocked, near)}
        ELSE {s[i].step : i \in F}
  BY DEF plan_next_step
<1>2. Searched(known, blocked, from, s, Len(s))
  BY SearchFacts
<1>3. s \in Seq(Entry) /\ Len(s) \in Nat /\ DOMAIN s = 1 .. Len(s)
  BY <1>2, LenProperties DEF Searched
<1>4. \A i \in 1 .. Len(s) : s[i].cell \in Positions
  <2>1. \A i \in 1 .. Len(s) : s[i] \in Entry
    BY <1>3, ElementOfSeq
  <2>2. QED  BY <2>1 DEF SearchCells
<1> HIDE DEF s
<1>5. CASE is_frontier(known, blocked, from)
  <2>1. ASSUME NEW i \in FirstFrontier(known, blocked, near)
        PROVE  is_traversable(known, blocked, near[i]) /\ near[i] \in Around(from)
    <3>1. i \in 1 .. 4 /\ is_frontier(known, blocked, near[i])
      BY DEF FirstFrontier, cardinal_neighbors
    <3>2. QED  BY <3>1 DEF is_frontier, Around
  <2>2. QED  BY <1>1, <1>5, <2>1
<1>6. CASE ~ is_frontier(known, blocked, from)
  <2>1. ASSUME NEW i \in F
        PROVE  is_traversable(known, blocked, s[i].step) /\ s[i].step \in Around(from)
    <3>1. i \in 1 .. Len(s) /\ is_frontier(known, blocked, s[i].cell)
      BY <1>3 DEF FirstFrontier
    <3>2. i # 1
      BY <1>2, <1>6, <3>1 DEF Searched
    <3>3. i \in 2 .. Len(s)
      BY <3>1, <3>2
    <3>4. QED  BY <1>2, <3>3 DEF Searched
  <2>2. ASSUME F = {}
        PROVE  \A i \in 1 .. Len(s) : ~ is_frontier(known, blocked, s[i].cell)
    <3>1. DOMAIN cells = 1 .. Len(s) /\ \A i \in 1 .. Len(s) : cells[i] = s[i].cell
      BY <1>3
    <3> HIDE DEF cells
    <3>2. QED  BY <1>3, <2>2, <3>1, FirstFrontierFacts
  <2>3. ASSUME F = {}
        PROVE  \E V : Explored(known, blocked, from, V)
    <3> DEFINE V == {s[i].cell : i \in 1 .. Len(s)}
    <3>1. V \in SUBSET Positions
      BY <1>4
    <3>2. 1 \in 1 .. Len(s) /\ s[1].cell = from
      BY <1>2, <1>3 DEF Searched
    <3>3. ASSUME NEW i \in 1 .. Len(s)
          PROVE  /\ s[i].cell = from \/ is_traversable(known, blocked, s[i].cell)
                 /\ ~ is_frontier(known, blocked, s[i].cell)
                 /\ \A q \in Around(s[i].cell) : is_traversable(known, blocked, q) => q \in V
      <4>1. i = 1 \/ i \in 2 .. Len(s)
        OBVIOUS
      <4>2. s[i].cell = from \/ is_traversable(known, blocked, s[i].cell)
        BY <1>2, <3>2, <4>1 DEF Searched
      <4>3. i <= Len(s)
        BY <1>3
      <4>4. \A q \in Around(s[i].cell) : is_traversable(known, blocked, q) => q \in V
        BY <1>2, <4>3 DEF Searched
      <4>5. QED  BY <2>2, <2>3, <4>2, <4>4
    <3>4. from \in V
      BY <3>2
    <3>5. Explored(known, blocked, from, V)
      BY <3>1, <3>3, <3>4 DEF Explored
    <3>6. QED  BY <3>5
  <2> HIDE DEF F
  <2>4. plan_next_step(known, blocked, from) = {s[i].step : i \in F}
    BY <1>1, <1>6
  <2>5. plan_next_step(known, blocked, from) = {} => F = {}
    BY <2>4
  <2>6. QED  BY <2>1, <2>3, <2>4, <2>5
<1>7. QED  BY <1>5, <1>6

-------------------------------------------------------------------------------
(* The scenario. *)

(* The conjuncts of the assumption about the scenario. *)
LEMMA ScenarioFacts ==
  /\ Grid \in Seq(Seq({"#", ".", "S", "C"}))
  /\ Len(Grid) > 0
  /\ \A i \in 1 .. Len(Grid) : Len(Grid[i]) = Len(Grid[1])
  /\ \E s \in Cells : \A p \in Cells : GridAt(p) = "S" <=> p = s
  /\ ScanRadius \in Nat \ {0}
  /\ MaxSteps \in Nat \ {0}
BY ScenarioAssumption DEF ValidScenario

(* Every cell of the rectangular grid holds one of the four characters. *)
LEMMA GridAtType ==
  ASSUME NEW p \in Cells
  PROVE  GridAt(p) \in {"#", ".", "S", "C"}
<1>1. p.y + 1 \in 1 .. Len(Grid) /\ p.x + 1 \in 1 .. Len(Grid[1])
  BY ScenarioFacts, SMTT(20) DEF Cells, Width, Height
<1>2. Grid[p.y + 1] \in Seq({"#", ".", "S", "C"}) /\ Len(Grid[p.y + 1]) = Len(Grid[1])
  BY <1>1, ScenarioFacts
<1>3. QED  BY <1>1, <1>2 DEF GridAt

(* The cells of the grid are in bounds. *)
LEMMA CellsInBounds ==
  ASSUME NEW p \in Cells
  PROVE  in_bounds(p)
<1>1. Width \in Nat /\ Height \in Nat
  BY ScenarioFacts DEF Width, Height
<1>2. QED  BY <1>1 DEF Cells, in_bounds

(* The start is a passable cell without a contact. *)
LEMMA StartFacts ==
  /\ start \in Cells
  /\ start \notin contacts
  /\ start \in PassableCells
<1>1. start \in Cells /\ GridAt(start) = "S"
  BY ScenarioFacts DEF start
<1>2. QED
  BY <1>1, CellsInBounds DEF contacts, PassableCells, is_passable, base_cell

(* The positions with coordinates in two finite sets are finitely many. *)
LEMMA RectangleFinite ==
  ASSUME NEW X, IsFiniteSet(X), NEW Y, IsFiniteSet(Y)
  PROVE  IsFiniteSet([x : X, y : Y])
<1> DEFINE f == [t \in X \X Y |-> [x |-> t[1], y |-> t[2]]]
<1>1. IsFiniteSet(X \X Y)
  BY FS_Product
<1>2. f \in Surjection(X \X Y, [x : X, y : Y])
  <2>1. ASSUME NEW p \in [x : X, y : Y]
        PROVE  \E t \in X \X Y : f[t] = p
    <3>1. <<p.x, p.y>> \in X \X Y /\ f[<<p.x, p.y>>] = p
      OBVIOUS
    <3>2. QED  BY <3>1
  <2>2. f \in [X \X Y -> [x : X, y : Y]]
    OBVIOUS
  <2>3. QED  BY <2>1, <2>2 DEF Surjection
<1>3. QED  BY <1>1, <1>2, FS_Surjection

(* A grid is finite. *)
LEMMA CellsFinite == IsFiniteSet(Cells)
<1>1. Width \in Nat /\ Height \in Nat
  BY ScenarioFacts DEF Width, Height
<1>2. IsFiniteSet(0 .. Width - 1) /\ IsFiniteSet(0 .. Height - 1)
  BY <1>1, FS_Interval
<1>3. QED  BY <1>2, RectangleFinite DEF Cells

(* So are the sets the mission counts, and their sizes are numbers. *)
LEMMA CountsFinite ==
  /\ IsFiniteSet(PassableCells) /\ passable_cell_count \in Nat /\ passable_cell_count > 0
  /\ IsFiniteSet(contacts)
<1>1. IsFiniteSet(PassableCells) /\ IsFiniteSet(contacts)
  BY CellsFinite, FS_Subset DEF PassableCells, contacts
<1>2. Cardinality(PassableCells) \in Nat /\ Cardinality(PassableCells) # 0
  BY <1>1, StartFacts, FS_CardinalityType, FS_EmptySet
<1>3. QED  BY <1>1, <1>2 DEF passable_cell_count

(* The four directions lead to the four neighbours, and back.              *)
LEMMA DirectionFacts ==
  ASSUME NEW p \in Positions
  PROVE  LET near == cardinal_neighbors(p) IN
         /\ Neighbor(p, UP) = near[1] /\ Neighbor(p, DOWN) = near[2]
         /\ Neighbor(p, LEFT) = near[3] /\ Neighbor(p, RIGHT) = near[4]
         /\ cardinal_neighbors(near[1])[2] = p /\ cardinal_neighbors(near[2])[1] = p
         /\ cardinal_neighbors(near[3])[4] = p /\ cardinal_neighbors(near[4])[3] = p
<1>1. p.x \in Int /\ p.y \in Int /\ p = [x |-> p.x, y |-> p.y]
  BY DEF Positions
<1>2. /\ delta_for_direction(UP) = [x |-> 0, y |-> -1]
      /\ delta_for_direction(DOWN) = [x |-> 0, y |-> 1]
      /\ delta_for_direction(LEFT) = [x |-> -1, y |-> 0]
      /\ delta_for_direction(RIGHT) = [x |-> 1, y |-> 0]
  BY DEF delta_for_direction, UP, DOWN, LEFT, RIGHT
<1>3. /\ Neighbor(p, UP) = [x |-> p.x, y |-> p.y - 1]
      /\ Neighbor(p, DOWN) = [x |-> p.x, y |-> p.y + 1]
      /\ Neighbor(p, LEFT) = [x |-> p.x - 1, y |-> p.y]
      /\ Neighbor(p, RIGHT) = [x |-> p.x + 1, y |-> p.y]
  BY <1>1, <1>2 DEF Neighbor
<1>4. QED  BY <1>1, <1>3 DEF cardinal_neighbors

(* A step in a direction goes to a neighbour and can be taken back. *)
LEMMA NeighborIsAround ==
  ASSUME NEW p \in Positions, NEW d \in Direction
  PROVE  Neighbor(p, d) \in Around(p) /\ p \in Around(Neighbor(p, d))
<1>1. 1 \in 1 .. 4 /\ 2 \in 1 .. 4 /\ 3 \in 1 .. 4 /\ 4 \in 1 .. 4
  OBVIOUS
<1>2. d = UP \/ d = DOWN \/ d = LEFT \/ d = RIGHT
  BY DEF Direction
<1>3. QED  BY <1>1, <1>2, DirectionFacts DEF Around

(* The command for a step to a neighbour takes the robot there. *)
LEMMA StepDirection ==
  ASSUME NEW p \in Positions, NEW q \in Around(p)
  PROVE  /\ direction_from_step(p, q) \in Direction
         /\ Neighbor(p, direction_from_step(p, q)) = q
<1> DEFINE near == cardinal_neighbors(p)
<1>1. q = near[1] \/ q = near[2] \/ q = near[3] \/ q = near[4]
  BY DEF Around
<1>2. /\ direction_from_step(p, near[1]) = UP /\ direction_from_step(p, near[2]) = DOWN
      /\ direction_from_step(p, near[3]) = LEFT /\ direction_from_step(p, near[4]) = RIGHT
  BY DEF Positions, cardinal_neighbors, direction_from_step, UP, DOWN, LEFT, RIGHT
<1> HIDE DEF near
<1>3. QED  BY <1>1, <1>2, DirectionFacts DEF Direction, near

(* Cells are positions, and a robot sees the cells next to its own. *)
LEMMA NextToWindow ==
  ASSUME NEW p \in Cells
  PROVE  /\ p \in Positions /\ p \in Window(p)
         /\ Around(p) \cap Cells \subseteq Window(p)
<1>1. Width \in Nat /\ Height \in Nat /\ ScanRadius \in Nat /\ ScanRadius >= 1
  BY ScenarioFacts DEF Width, Height
<1>2. p.x \in Int /\ p.y \in Int /\ p \in Positions
  BY <1>1 DEF Cells, Positions
<1>3. p \in Window(p)
  BY <1>1, <1>2 DEF Window
<1>4. ASSUME NEW q \in Around(p), q \in Cells
      PROVE  q \in Window(p)
  <2>1. PICK i \in 1 .. 4 : q = cardinal_neighbors(p)[i]
    BY DEF Around
  <2>2. q.x - p.x \in -1 .. 1 /\ q.y - p.y \in -1 .. 1
    BY <1>2, <2>1 DEF cardinal_neighbors
  <2>3. q.x - p.x \in -ScanRadius .. ScanRadius /\ q.y - p.y \in -ScanRadius .. ScanRadius
    BY <1>1, <2>2
  <2>4. QED  BY <1>4, <2>3 DEF Window
<1>5. QED  BY <1>2, <1>3, <1>4

-------------------------------------------------------------------------------
(* The object. *)

(* A window lies inside the grid, the robot's own cell included. *)
LEMMA WindowType ==
  ASSUME NEW p
  PROVE  Window(p) \subseteq Cells
BY DEF Window

(* A cell is reported "C" exactly when a contact on it is active, and "#"  *)
(* exactly when it is a wall.                                              *)
LEMMA KindFacts ==
  ASSUME NEW w \in WorldState, NEW p \in Cells
  PROVE  /\ ObservedKind(w, p) = "C" <=> p \in contacts \ w.contacts_down
         /\ ObservedKind(w, p) # "#" <=> p \in PassableCells
<1>1. GridAt(p) \in {"#", ".", "S", "C"} /\ in_bounds(p)
  BY GridAtType, CellsInBounds
<1>2. p \in contacts <=> GridAt(p) = "C"
  BY DEF contacts
<1>3. p \in PassableCells <=> base_cell(p) # "#"
  BY <1>1 DEF PassableCells, is_passable
<1>4. CASE p \in contacts
  BY <1>1, <1>2, <1>3, <1>4 DEF ObservedKind, contact_is_down, base_cell
<1>5. CASE p \notin contacts
  BY <1>1, <1>2, <1>3, <1>5 DEF ObservedKind, base_cell
<1>6. QED  BY <1>4, <1>5

(* make_scan leaves everything alone but the two sets it adds to. *)
LEMMA ScanFacts ==
  ASSUME NEW w \in WorldState
  PROVE  /\ make_scan(w) \in WorldState
         /\ make_scan(w).robot = w.robot
         /\ make_scan(w).steps_taken = w.steps_taken
         /\ make_scan(w).invalid_moves = w.invalid_moves
         /\ make_scan(w).total_commands = w.total_commands
         /\ make_scan(w).invalid_triggers = w.invalid_triggers
         /\ make_scan(w).duplicate_triggers = w.duplicate_triggers
         /\ make_scan(w).contacts_down = w.contacts_down
         /\ make_scan(w).contacts_seen =
              w.contacts_seen \cup (Window(w.robot) \cap (contacts \ w.contacts_down))
         /\ make_scan(w).visible_passable_cells =
              w.visible_passable_cells \cup (Window(w.robot) \cap PassableCells)
<1> DEFINE A == {p \in Window(w.robot) : ObservedKind(w, p) = "C"}
           B == {p \in Window(w.robot) : ObservedKind(w, p) # "#"}
<1>1. A = Window(w.robot) \cap (contacts \ w.contacts_down)
  BY WindowType, KindFacts
<1>2. B = Window(w.robot) \cap PassableCells
  BY WindowType, KindFacts
<1>3. make_scan(w) = [w EXCEPT !.contacts_seen = @ \cup A, !.visible_passable_cells = @ \cup B]
  BY DEF make_scan
<1> HIDE DEF A, B
<1>4. QED  BY <1>1, <1>2, <1>3 DEF WorldState

(* Scanning twice from the same place is scanning once. *)
LEMMA ScanIdempotent ==
  ASSUME NEW w \in WorldState
  PROVE  make_scan(make_scan(w)) = make_scan(w)
<1> DEFINE v == make_scan(w)
           u == make_scan(v)
<1>1. v \in WorldState /\ u \in WorldState
  BY ScanFacts
<1>2. /\ v.contacts_seen = v.contacts_seen \cup (Window(v.robot) \cap (contacts \ v.contacts_down))
      /\ v.visible_passable_cells = v.visible_passable_cells \cup (Window(v.robot) \cap PassableCells)
  BY ScanFacts
<1>3. /\ u.contacts_seen = v.contacts_seen
      /\ u.visible_passable_cells = v.visible_passable_cells
  BY <1>1, <1>2, ScanFacts
<1>4. \E A, B : u = [v EXCEPT !.contacts_seen = A, !.visible_passable_cells = B]
  BY DEF make_scan
<1> HIDE DEF u, v
<1>5. u = v
  BY <1>1, <1>3, <1>4 DEF WorldState
<1>6. QED  BY <1>5 DEF u, v

(* A mission starts running. *)
LEMMA NewWorldFacts ==
  /\ NewWorld \in WorldState
  /\ ~ terminal(NewWorld)
<1>1. NewWorld \in WorldState
  BY StartFacts DEF NewWorld, WorldState
<1>2. ~ AllPassableSeen(NewWorld)
  BY CountsFinite, FS_EmptySet DEF NewWorld, AllPassableSeen
<1>3. ~ (NewWorld.total_commands >= MaxSteps)
  BY ScenarioFacts DEF NewWorld
<1>4. QED  BY <1>1, <1>2, <1>3 DEF terminal, result

(* apply_move: what a command can do to the object. *)
LEMMA MoveFacts ==
  ASSUME NEW w \in WorldState, NEW d \in Nat, ~ terminal(w)
  PROVE  LET v == apply_move(w, d) IN
         /\ v \in WorldState
         /\ v.total_commands = w.total_commands + 1
         /\ v.steps_taken + v.invalid_moves <= w.steps_taken + w.invalid_moves + 1
         /\ v.contacts_seen = w.contacts_seen /\ v.contacts_down = w.contacts_down
         /\ v.visible_passable_cells = w.visible_passable_cells
         /\ v.robot = w.robot \/ (is_passable(v.robot) /\ ~ active_contact_at(w, v.robot))
<1> DEFINE charged == [w EXCEPT !.total_commands = @ + 1]
           next    == Neighbor(w.robot, d)
           moved   == [charged EXCEPT !.robot = next]
           v       == apply_move(w, d)
<1>1. /\ charged \in WorldState
      /\ charged.total_commands = w.total_commands + 1
      /\ charged.robot = w.robot
      /\ charged.steps_taken = w.steps_taken /\ charged.invalid_moves = w.invalid_moves
      /\ charged.contacts_seen = w.contacts_seen /\ charged.contacts_down = w.contacts_down
      /\ charged.visible_passable_cells = w.visible_passable_cells
  BY DEF WorldState
<1>2. /\ w.steps_taken \in Nat /\ w.invalid_moves \in Nat /\ w.robot \in Cells
  BY DEF WorldState
<1>3. CASE v = charged
  BY <1>1, <1>2, <1>3
<1>4. CASE v = [charged EXCEPT !.invalid_moves = @ + 1]
  <2> HIDE DEF charged, v
  <2>1. v \in WorldState /\ v.invalid_moves = w.invalid_moves + 1
    BY <1>1, <1>2, <1>4 DEF WorldState
  <2>2. /\ v.total_commands = charged.total_commands
        /\ v.robot = charged.robot /\ v.steps_taken = charged.steps_taken
        /\ v.contacts_seen = charged.contacts_seen /\ v.contacts_down = charged.contacts_down
        /\ v.visible_passable_cells = charged.visible_passable_cells
    BY <1>1, <1>4 DEF WorldState
  <2>3. QED  BY <1>1, <1>2, <2>1, <2>2 DEF v
<1>5. CASE /\ is_known_direction(d) /\ is_passable(next) /\ ~ active_contact_at(w, next)
           /\ v = [charged EXCEPT !.robot = next, !.steps_taken = @ + 1]
  <2>1. next \in Cells
    <3>1. Width \in Nat /\ Height \in Nat
      BY ScenarioFacts DEF Width, Height
    <3>2. in_bounds(next) /\ next.x \in Int /\ next.y \in Int
      BY <1>2, <1>5, <3>1 DEF is_passable, Neighbor, delta_for_direction, is_known_direction,
                             Direction, UP, DOWN, LEFT, RIGHT, Cells
    <3>3. next = [x |-> next.x, y |-> next.y]
      BY DEF Neighbor
    <3>4. QED  BY <3>1, <3>2, <3>3 DEF in_bounds, Cells
  <2> HIDE DEF charged, next, v
  <2>2. moved \in WorldState /\ moved.steps_taken = charged.steps_taken
    BY <1>1, <2>1 DEF WorldState
  <2>3. v = [moved EXCEPT !.steps_taken = @ + 1]
    BY <1>1, <1>5, <2>1 DEF WorldState
  <2>4. /\ v.robot = next
        /\ v.steps_taken = charged.steps_taken + 1
        /\ v.total_commands = charged.total_commands
        /\ v.invalid_moves = charged.invalid_moves
        /\ v.contacts_seen = charged.contacts_seen /\ v.contacts_down = charged.contacts_down
        /\ v.visible_passable_cells = charged.visible_passable_cells
    BY <1>1, <1>5 DEF WorldState
  <2> HIDE DEF moved
  <2>5. v \in WorldState
    BY <1>1, <1>2, <2>2, <2>3 DEF WorldState
  <2>6. QED  BY <1>1, <1>2, <1>5, <2>4, <2>5 DEF v
<1>6. QED
  <2> HIDE DEF next
  <2>1. \/ v = charged
        \/ v = [charged EXCEPT !.invalid_moves = @ + 1]
        \/ /\ is_known_direction(d) /\ is_passable(next) /\ ~ active_contact_at(w, next)
           /\ v = [charged EXCEPT !.robot = next, !.steps_taken = @ + 1]
    BY DEF apply_move, next
  <2> HIDE DEF v, charged
  <2>2. QED  BY <2>1, <1>3, <1>4, <1>5

(* apply_enemy_down: what a hit report can do to the object. *)
LEMMA TriggerFacts ==
  ASSUME NEW w \in WorldState, NEW c, NEW p, ~ terminal(w)
  PROVE  LET v == apply_enemy_down(w, c, p) IN
         /\ v \in WorldState
         /\ v.robot = w.robot /\ v.total_commands = w.total_commands
         /\ v.steps_taken = w.steps_taken /\ v.invalid_moves = w.invalid_moves
         /\ v.visible_passable_cells = w.visible_passable_cells
         /\ \/ v.contacts_down = w.contacts_down /\ v.contacts_seen = w.contacts_seen
            \/ /\ c \in contacts
               /\ v.contacts_down = w.contacts_down \cup {c}
               /\ v.contacts_seen = w.contacts_seen \cup {c}
<1> DEFINE v == apply_enemy_down(w, c, p)
<1>1. \/ v = [w EXCEPT !.invalid_triggers = @ + 1]
      \/ v = [w EXCEPT !.duplicate_triggers = @ + 1]
      \/ /\ c \in contacts
         /\ v = [w EXCEPT !.contacts_seen = @ \cup {c}, !.contacts_down = @ \cup {c}]
  BY DEF apply_enemy_down
<1> HIDE DEF v
<1>2. QED
  <2>1. CASE v = [w EXCEPT !.invalid_triggers = @ + 1]
    BY <2>1 DEF WorldState, v
  <2>2. CASE v = [w EXCEPT !.duplicate_triggers = @ + 1]
    BY <2>2 DEF WorldState, v
  <2>3. CASE c \in contacts /\ v = [w EXCEPT !.contacts_seen = @ \cup {c}, !.contacts_down = @ \cup {c}]
    BY <2>3, ZenonT(30) DEF WorldState, v
  <2>4. QED  BY <1>1, <2>1, <2>2, <2>3

(* A command to a free neighbouring cell is executed and nothing else. *)
LEMMA GoodMove ==
  ASSUME NEW w \in WorldState, NEW d \in Direction, ~ terminal(w),
         is_passable(Neighbor(w.robot, d)), ~ active_contact_at(w, Neighbor(w.robot, d))
  PROVE  LET v == apply_move(w, d) IN
         /\ v.robot = Neighbor(w.robot, d)
         /\ v.steps_taken = w.steps_taken + 1 /\ v.total_commands = w.total_commands + 1
         /\ v.invalid_triggers = w.invalid_triggers /\ v.duplicate_triggers = w.duplicate_triggers
         /\ v.contacts_seen = w.contacts_seen /\ v.contacts_down = w.contacts_down
<1> DEFINE next == Neighbor(w.robot, d)
           charged == [w EXCEPT !.total_commands = @ + 1]
<1>1. apply_move(w, d) = [charged EXCEPT !.robot = next, !.steps_taken = @ + 1]
  BY DEF apply_move, is_known_direction
<1> HIDE DEF next
<1>2. QED  BY <1>1 DEF WorldState, next

(* A report of an active contact in the window puts it down and nothing    *)
(* else.                                                                   *)
LEMMA GoodTrigger ==
  ASSUME NEW w \in WorldState, NEW c \in contacts \cap Window(w.robot), ~ contact_is_down(w, c),
         ~ terminal(w)
  PROVE  LET v == apply_enemy_down(w, c, c) IN
         /\ v.robot = w.robot
         /\ v.steps_taken = w.steps_taken /\ v.total_commands = w.total_commands
         /\ v.invalid_triggers = w.invalid_triggers /\ v.duplicate_triggers = w.duplicate_triggers
         /\ v.contacts_seen = w.contacts_seen \cup {c}
         /\ v.contacts_down = w.contacts_down \cup {c}
<1>1. is_visible(w, c)
  BY DEF is_visible, Window
<1>2. apply_enemy_down(w, c, c)
        = [w EXCEPT !.contacts_seen = @ \cup {c}, !.contacts_down = @ \cup {c}]
  BY <1>1 DEF apply_enemy_down
<1>3. QED  BY <1>2 DEF WorldState

-------------------------------------------------------------------------------
(* Publication. *)

(* Publishing a well-formed object leaves it well-formed and current. *)
LEMMA PublishFacts ==
  ASSUME NEW w \in WorldState, publish_state(w)
  PROVE  /\ world' \in WorldState
         /\ world' = make_scan(w)
         /\ make_scan(world') = world'
         /\ published' = <<SnapshotOf(world')>>
         /\ published' # NotPublished
<1>1. world' = make_scan(w) /\ published' = <<SnapshotOf(world')>>
  BY DEF publish_state
<1>2. QED  BY <1>1, ScanFacts, ScanIdempotent DEF NotPublished

(* What a running mission still has in its budget. *)
LEMMA RunningBudget ==
  ASSUME NEW w \in WorldState, ~ terminal(w)
  PROVE  w.total_commands < MaxSteps
BY ScenarioFacts DEF terminal, result, WorldState

(* A published object in good order stays so: the conjuncts of IInv about  *)
(* the object itself, for the object make_scan returns.                    *)
Sound(w) ==
  /\ w.steps_taken + w.invalid_moves <= w.total_commands
  /\ w.total_commands <= MaxSteps
  /\ w.contacts_down \subseteq w.contacts_seen
  /\ is_passable(w.robot)
  /\ ~ active_contact_at(w, w.robot)

(* make_scan preserves Sound. *)
LEMMA ScanSound ==
  ASSUME NEW w \in WorldState, Sound(w)
  PROVE  Sound(make_scan(w))
BY ScanFacts DEF Sound, active_contact_at, contact_is_down

(* So does a command given to a running mission. *)
LEMMA MoveSound ==
  ASSUME NEW w \in WorldState, Sound(w), NEW d \in Nat, ~ terminal(w)
  PROVE  Sound(apply_move(w, d))
<1> DEFINE v == apply_move(w, d)
<1>1. /\ v.total_commands = w.total_commands + 1
      /\ v.steps_taken + v.invalid_moves <= w.steps_taken + w.invalid_moves + 1
      /\ v.contacts_seen = w.contacts_seen /\ v.contacts_down = w.contacts_down
      /\ v.robot = w.robot \/ (is_passable(v.robot) /\ ~ active_contact_at(w, v.robot))
      /\ v \in WorldState
  BY MoveFacts
<1>2. w.total_commands < MaxSteps
  BY RunningBudget
<1> HIDE DEF v
<1>3. v.steps_taken + v.invalid_moves <= v.total_commands /\ v.total_commands <= MaxSteps
  BY <1>1, <1>2, ScenarioFacts, SMTT(20) DEF Sound, WorldState
<1>4. QED  BY <1>1, <1>3 DEF Sound, active_contact_at, contact_is_down, v

(* So does a hit report. *)
LEMMA TriggerSound ==
  ASSUME NEW w \in WorldState, Sound(w), NEW c, NEW p, ~ terminal(w)
  PROVE  Sound(apply_enemy_down(w, c, p))
<1> DEFINE v == apply_enemy_down(w, c, p)
<1>1. /\ v.robot = w.robot /\ v.total_commands = w.total_commands
      /\ v.steps_taken = w.steps_taken /\ v.invalid_moves = w.invalid_moves
      /\ \/ v.contacts_down = w.contacts_down /\ v.contacts_seen = w.contacts_seen
         \/ /\ v.contacts_down = w.contacts_down \cup {c}
            /\ v.contacts_seen = w.contacts_seen \cup {c}
  BY TriggerFacts
<1> HIDE DEF v
<1>2. QED  BY <1>1 DEF Sound, active_contact_at, contact_is_down, v

(* The budget part of a failure, for any object. *)
LEMMA FailedMeansSpent ==
  ASSUME NEW w \in WorldState, w.total_commands <= MaxSteps, result(w) = "FAILED_MAX_STEPS"
  PROVE  w.total_commands = MaxSteps
BY ScenarioFacts DEF result, WorldState

-------------------------------------------------------------------------------
(* The outcome. *)

(* result() compares sizes; since the sets only hold cells of the scenario *)
(* this is as good as comparing the sets.                                  *)
LEMMA CompleteFacts ==
  ASSUME NEW w \in WorldState
  PROVE  /\ AllPassableSeen(w) <=> w.visible_passable_cells = PassableCells
         /\ AllContactsDown(w) <=> w.contacts_down = contacts
<1>1. w.visible_passable_cells \subseteq PassableCells /\ w.contacts_down \subseteq contacts
  BY DEF WorldState
<1>2. /\ Cardinality(w.visible_passable_cells) <= passable_cell_count
      /\ Cardinality(w.visible_passable_cells) \in Nat
      /\ Cardinality(w.visible_passable_cells) = passable_cell_count
           <=> w.visible_passable_cells = PassableCells
  BY <1>1, CountsFinite, FS_Subset, FS_CardinalityType DEF passable_cell_count
<1>3. Cardinality(w.contacts_down) = Cardinality(contacts) <=> w.contacts_down = contacts
  BY <1>1, CountsFinite, FS_Subset
<1>4. QED  BY <1>2, <1>3, CountsFinite DEF AllPassableSeen, AllContactsDown

(* What result() means for an object with the types of WorldModel. *)
LEMMA ResultFacts ==
  ASSUME NEW w \in WorldState
  PROVE  /\ result(w) = "SUCCESS"
              <=> w.visible_passable_cells = PassableCells /\ w.contacts_down = contacts
         /\ result(w) \in Outcome
BY CompleteFacts DEF result, Outcome

-------------------------------------------------------------------------------
(* The steps of a node, whoever sends the messages. *)

(* The object is sound, and its snapshot is what is latched: publishing    *)
(* again would change nothing.                                             *)
WorldInv ==
  /\ world \in WorldState /\ Sound(world)
  /\ IF published = NotPublished
     THEN world = NewWorld
     ELSE published = <<SnapshotOf(world)>> /\ make_scan(world) = world

(* publish_state is called for the world as it is, or for the running      *)
(* world after one command or one hit report.                              *)
WorldSteps ==
  \/ UNCHANGED <<world, published>>
  \/ publish_state(world)
  \/ ~ terminal(world) /\ \E d \in Nat : publish_state(apply_move(world, d))
  \/ ~ terminal(world) /\ \E c, p : publish_state(apply_enemy_down(world, c, p))

(* A new node satisfies the invariant. *)
LEMMA InitWorldInv == WorldInit => WorldInv
<1>1. Sound(NewWorld)
  BY NewWorldFacts, StartFacts, ScenarioFacts
     DEF Sound, NewWorld, PassableCells, active_contact_at
<1>2. QED  BY <1>1, NewWorldFacts DEF WorldInit, WorldInv

(* A terminal world has been published and one more scan changes nothing.  *)
LEMMA TerminalSettled ==
  ASSUME WorldInv, terminal(world)
  PROVE  published = <<SnapshotOf(world)>> /\ make_scan(world) = world
BY NewWorldFacts DEF WorldInv

(* The step that publishes a sound object keeps the invariant. *)
LEMMA PublishKeepsWorldInv ==
  ASSUME NEW w \in WorldState, Sound(w), publish_state(w)
  PROVE  WorldInv'
<1>1. /\ world' \in WorldState /\ make_scan(world') = world'
      /\ published' = <<SnapshotOf(world')>> /\ published' # NotPublished
  BY PublishFacts
<1>2. Sound(world')
  BY PublishFacts, ScanSound
<1>3. QED  BY <1>1, <1>2 DEF WorldInv

(* Every step keeps it. *)
LEMMA StepWorldInv ==
  ASSUME WorldInv, WorldSteps
  PROVE  WorldInv'
<1>1. world \in WorldState /\ Sound(world)
  BY DEF WorldInv
<1>2. CASE UNCHANGED <<world, published>>
  BY <1>2 DEF WorldInv
<1>3. CASE publish_state(world)
  BY <1>1, <1>3, PublishKeepsWorldInv
<1>4. ASSUME ~ terminal(world), NEW d \in Nat, publish_state(apply_move(world, d))
      PROVE  WorldInv'
  BY <1>1, <1>4, MoveFacts, MoveSound, PublishKeepsWorldInv
<1>5. ASSUME ~ terminal(world), NEW c, NEW p, publish_state(apply_enemy_down(world, c, p))
      PROVE  WorldInv'
  BY <1>1, <1>5, TriggerFacts, TriggerSound, PublishKeepsWorldInv
<1>6. QED  BY <1>2, <1>3, <1>4, <1>5 DEF WorldSteps

(* A step of a terminal mission leaves the object and the samples alone:   *)
(* the handlers return early and the scan they still make adds nothing.    *)
LEMMA TerminalStep ==
  ASSUME WorldInv, WorldSteps, terminal(world)
  PROVE  UNCHANGED <<world, published>>
<1>1. published = <<SnapshotOf(world)>> /\ make_scan(world) = world
  BY TerminalSettled
<1>2. CASE publish_state(world)
  BY <1>1, <1>2 DEF publish_state
<1>3. QED  BY <1>2 DEF WorldSteps

(* What is down stays down, whatever a step does. *)
LEMMA DownStays ==
  ASSUME WorldInv, WorldSteps
  PROVE  world.contacts_down \subseteq world'.contacts_down
<1>1. world \in WorldState
  BY DEF WorldInv
<1>2. ASSUME NEW w \in WorldState, publish_state(w), world.contacts_down \subseteq w.contacts_down
      PROVE  world.contacts_down \subseteq world'.contacts_down
  BY <1>2, ScanFacts, PublishFacts
<1>3. ASSUME ~ terminal(world), NEW d \in Nat, publish_state(apply_move(world, d))
      PROVE  world.contacts_down \subseteq world'.contacts_down
  BY <1>1, <1>2, <1>3, MoveFacts
<1>4. ASSUME ~ terminal(world), NEW c, NEW p, publish_state(apply_enemy_down(world, c, p))
      PROVE  world.contacts_down \subseteq world'.contacts_down
  BY <1>1, <1>2, <1>4, TriggerFacts
<1>5. QED  BY <1>1, <1>2, <1>3, <1>4 DEF WorldSteps

(* What was seen stays seen. *)
LEMMA CoverageStays ==
  ASSUME WorldInv, WorldSteps
  PROVE  world.visible_passable_cells \subseteq world'.visible_passable_cells
<1>1. world \in WorldState
  BY DEF WorldInv
<1>2. ASSUME NEW w \in WorldState, publish_state(w),
             w.visible_passable_cells = world.visible_passable_cells
      PROVE  world.visible_passable_cells \subseteq world'.visible_passable_cells
  BY <1>2, ScanFacts, PublishFacts
<1>3. ASSUME ~ terminal(world), NEW d \in Nat, publish_state(apply_move(world, d))
      PROVE  world.visible_passable_cells \subseteq world'.visible_passable_cells
  BY <1>1, <1>2, <1>3, MoveFacts
<1>4. ASSUME ~ terminal(world), NEW c, NEW p, publish_state(apply_enemy_down(world, c, p))
      PROVE  world.visible_passable_cells \subseteq world'.visible_passable_cells
  BY <1>1, <1>2, <1>4, TriggerFacts
<1>5. QED  BY <1>1, <1>2, <1>3, <1>4 DEF WorldSteps

-------------------------------------------------------------------------------
(* The refinement. *)

(* The announced outcome is that of the object, "RUNNING" before the first *)
(* publication included.                                                   *)
LEMMA AnnouncedIsResult ==
  ASSUME WorldInv
  PROVE  AnnouncedOutcome = result(world)
<1>1. CASE published = NotPublished
  BY <1>1, NewWorldFacts DEF WorldInv, AnnouncedOutcome, terminal
<1>2. CASE published # NotPublished
  <2>1. published = <<SnapshotOf(world)>>
    BY <1>2 DEF WorldInv
  <2>2. published[1].result = result(world)
    BY <2>1 DEF SnapshotOf
  <2>3. QED  BY <1>2, <2>2 DEF AnnouncedOutcome
<1>3. QED  BY <1>1, <1>2

(* Publishing an object that gained at most one contact is a step of the   *)
(* abstract mission.                                                       *)
LEMMA PublishIsProgress ==
  ASSUME WorldInv, ~ terminal(world),
         NEW w \in WorldState, publish_state(w),
         w.visible_passable_cells = world.visible_passable_cells,
         \/ w.contacts_down = world.contacts_down
         \/ \E c \in contacts : w.contacts_down = world.contacts_down \cup {c}
  PROVE  AbstractMission!Progress
<1>1. world' \in WorldState /\ world' = make_scan(w)
  BY PublishFacts
<1>2. AnnouncedOutcome = "RUNNING"
  BY AnnouncedIsResult DEF terminal
<1>3. AbstractMission!CoverageGrows
  <2>1. world'.visible_passable_cells
          = world.visible_passable_cells \cup (Window(w.robot) \cap PassableCells)
    BY <1>1, ScanFacts
  <2>2. world'.visible_passable_cells \subseteq PassableCells
    BY <1>1 DEF WorldState
  <2>3. QED  BY <2>1, <2>2 DEF AbstractMission!CoverageGrows
<1>4. AbstractMission!DownGrows
  BY <1>1, ScanFacts DEF AbstractMission!DownGrows
<1>5. AbstractMission!Announce
  <2>1. AnnouncedOutcome' = result(world')
    <3>1. published' = <<SnapshotOf(world')>> /\ published' # NotPublished
      BY PublishFacts
    <3>2. published'[1].result = result(world')
      BY <3>1 DEF SnapshotOf
    <3>3. QED  BY <3>1, <3>2 DEF AnnouncedOutcome
  <2>2. /\ result(world') = "SUCCESS"
             <=> world'.visible_passable_cells = PassableCells /\ world'.contacts_down = contacts
        /\ result(world') \in Outcome
    BY <1>1, ResultFacts
  <2>3. QED
    BY <2>1, <2>2 DEF AbstractMission!Announce, AbstractMission!Complete, Outcome
<1>6. QED  BY <1>2, <1>3, <1>4, <1>5 DEF AbstractMission!Progress

(* Every step of the node is a step of the abstract mission or none. *)
LEMMA StepRefines ==
  ASSUME WorldInv, WorldSteps
  PROVE  [AbstractMission!Progress]_<<world.visible_passable_cells, world.contacts_down,
                                      AnnouncedOutcome>>
<1>1. world \in WorldState
  BY DEF WorldInv
<1>2. CASE UNCHANGED <<world, published>>
  BY <1>2 DEF AnnouncedOutcome
<1>3. CASE terminal(world)
  BY <1>2, <1>3, TerminalStep
<1>4. CASE ~ terminal(world) /\ publish_state(world)
  BY <1>1, <1>4, PublishIsProgress
<1>5. ASSUME ~ terminal(world), NEW d \in Nat, publish_state(apply_move(world, d))
      PROVE  AbstractMission!Progress
  BY <1>1, <1>5, MoveFacts, PublishIsProgress
<1>6. ASSUME ~ terminal(world), NEW c, NEW p, publish_state(apply_enemy_down(world, c, p))
      PROVE  AbstractMission!Progress
  BY <1>1, <1>6, TriggerFacts, PublishIsProgress
<1>7. QED  BY <1>2, <1>3, <1>4, <1>5, <1>6 DEF WorldSteps

(* A new node starts where the abstract mission does. *)
LEMMA InitRefines == WorldInit => AbstractMission!Init
BY DEF WorldInit, NewWorld, AbstractMission!Init, AnnouncedOutcome
================================================================================
