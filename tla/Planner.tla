-------------------------------- MODULE Planner --------------------------------
(***************************************************************************)
(* The path planner of the mission explorer: breadth-first search over the *)
(* map known so far for the nearest frontier, a traversable cell with an   *)
(* unknown cardinal neighbour, and the first step of the path to it.       *)
(*                                                                         *)
(* A map "known" is a function from the positions seen to the character    *)
(* they were last reported with; "blocked" is the set of positions of the  *)
(* contacts the explorer believes active.                                  *)
(***************************************************************************)
EXTENDS Integers, Sequences, FiniteSets

(* Up, down, left, right: the order decides ties. *)
cardinal_neighbors(p) ==
  << [x |-> p.x,     y |-> p.y - 1],
     [x |-> p.x,     y |-> p.y + 1],
     [x |-> p.x - 1, y |-> p.y],
     [x |-> p.x + 1, y |-> p.y] >>

is_traversable_ThroughWalls(known, blocked, p) ==   \* mutant: no wall test
  p \in DOMAIN known /\ p \notin blocked

is_traversable_NotProcessed(known, blocked, p) ==   \* mutant: "x" stays an obstacle
  p \in DOMAIN known /\ known[p] \notin {"#", "x"} /\ p \notin blocked

is_traversable(known, blocked, p) ==
  p \in DOMAIN known /\ known[p] # "#" /\ p \notin blocked

is_frontier(known, blocked, p) ==
  /\ is_traversable(known, blocked, p)
  /\ \E i \in 1 .. 4 : cardinal_neighbors(p)[i] \notin DOMAIN known

(* What queueing the neighbours of entry e adds to the queue: in their     *)
(* order, those that may be entered and were not queued before.  An entry  *)
(* holds a cell and the first step of the path that reached it, which is   *)
(* what following the parent map back gives.                               *)
Fresh(known, blocked, from, queued, e) ==
  LET near    == cardinal_neighbors(e.cell)
      Take(i) == IF /\ is_traversable(known, blocked, near[i])
                    /\ \A j \in DOMAIN queued : queued[j].cell # near[i]
                 THEN << [cell |-> near[i],
                          step |-> IF e.cell = from THEN near[i] ELSE e.step] >>
                 ELSE << >>
  IN  Take(1) \o Take(2) \o Take(3) \o Take(4)

(* The search from "from".  SearchOrder[n] is the sequence of the entries  *)
(* queued when n of them have been taken off, in their order.  Each cell   *)
(* is queued at most once, so as many rounds as there are cells empty the  *)
(* queue.                                                                  *)
SearchFrom(known, blocked, from) ==
  LET cells == {from} \cup DOMAIN known
      Entry == [cell : cells, step : cells]
      Round == [n \in Nat |-> [queued \in Seq(Entry) |->
                  IF n \in DOMAIN queued
                  THEN queued \o Fresh(known, blocked, from, queued, queued[n]) ELSE queued]]
      SearchOrder[n \in Nat] ==
        IF n = 0 THEN << [cell |-> from, step |-> from] >> ELSE Round[n][SearchOrder[n - 1]]
  IN  SearchOrder[Cardinality(cells)]

(* The first position of a sequence that is a frontier. *)
FirstFrontier_Last(known, blocked, cells) ==   \* mutant: ties go to the last
  {i \in DOMAIN cells : /\ is_frontier(known, blocked, cells[i])
                        /\ \A j \in DOMAIN cells : j > i => ~ is_frontier(known, blocked, cells[j])}

FirstFrontier(known, blocked, cells) ==
  {i \in DOMAIN cells : /\ is_frontier(known, blocked, cells[i])
                        /\ \A j \in 1 .. i - 1 : ~ is_frontier(known, blocked, cells[j])}

(* The set of the next position to go to: empty when no frontier can be    *)
(* reached, else the first step towards the frontier found first.  A robot *)
(* that stands on a frontier itself only looks at its four neighbours.     *)
plan_next_step(known, blocked, from) ==
  LET n == cardinal_neighbors(from)
      FirstStep(order) ==
        {order[i].step : i \in FirstFrontier(known, blocked, [j \in DOMAIN order |-> order[j].cell])}
  IN  IF is_frontier(known, blocked, from)
      THEN {n[i] : i \in FirstFrontier(known, blocked, n)}
      ELSE UNION { FirstStep(order) : order \in {SearchFrom(known, blocked, from)} }

(* direction_from_step: the move command for a step to a neighbour. *)
direction_from_step(from, to) ==
  LET dx == to.x - from.x
      dy == to.y - from.y
  IN  IF      dx =  0 /\ dy = -1 THEN 0
      ELSE IF dx =  0 /\ dy =  1 THEN 1
      ELSE IF dx = -1 /\ dy =  0 THEN 2
      ELSE 3

-------------------------------------------------------------------------------
(* What it should compute, without queue, visited set and parent map. *)

Around(p) == { cardinal_neighbors(p)[i] : i \in 1 .. 4 }

(* Within[k] is the set of the cells that k steps over cells that may be   *)
(* entered can reach from p.                                               *)
Within(known, blocked, p) ==
  LET Grow == [near \in SUBSET (DOMAIN known \cup {p}) |->
                 near \cup { q \in DOMAIN known : /\ is_traversable(known, blocked, q)
                                                  /\ Around(q) \cap near # {} }]
      Ball[k \in Nat] == IF k = 0 THEN {p} ELSE Grow[Ball[k - 1]]
  IN  Ball

(* No shortest path has as many steps as there are cells to enter.         *)
Far(known, blocked) == Cardinality({ q \in DOMAIN known : is_traversable(known, blocked, q) })

(* In how many steps a frontier can be reached from p.                     *)
Hits(known, blocked, p) ==
  { k \in 0 .. Far(known, blocked) - 1 :
      \E q \in Within(known, blocked, p)[k] : is_frontier(known, blocked, q) }

(* Steps from p to the nearest frontier, or Far. *)
StepsToFrontier(known, blocked, p) ==
  LET hits == Hits(known, blocked, p)
  IN  IF is_traversable(known, blocked, p) /\ hits # {}
      THEN CHOOSE k \in hits : \A j \in hits : k <= j ELSE Far(known, blocked)

(* The first of the four neighbours, in their order, that is nearest to a  *)
(* frontier; none when none leads to one.  On a frontier cell only a       *)
(* neighbour that is a frontier itself will do.                            *)
NearestNeighbor(known, blocked, from) ==
  LET n      == cardinal_neighbors(from)
      d      == [i \in 1 .. 4 |-> StepsToFrontier(known, blocked, n[i])]
      enough == IF is_frontier(known, blocked, from) THEN {0} ELSE 0 .. Far(known, blocked) - 1
      best   == { i \in 1 .. 4 : /\ d[i] \in enough
                                 /\ \A j \in 1 .. 4 : d[i] < d[j] \/ (d[i] = d[j] /\ i <= j) }
  IN  { n[i] : i \in best }
================================================================================
