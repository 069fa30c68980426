------------------------------- MODULE Scenario -------------------------------
(***************************************************************************)
(* An underground-robot scenario as scenario_loader.cpp leaves it: a       *)
(* rectangular grid of one-character cells, a scan radius and a budget of  *)
(* commands.  Positions are records [x, y] with the origin in the top left *)
(* corner, as in struct Position; they may lie outside the grid.           *)
(*                                                                         *)
(* The loader numbers the contacts 1, 2, ... in row-major order.  A number *)
(* only serves as the name of a contact, so here a contact is named by the *)
(* cell it stands on, and comparing ids is comparing cells.                *)
(***************************************************************************)
EXTENDS Integers, Sequences, FiniteSets

CONSTANTS
  Grid,         (* sequence of rows, each a sequence of one-character cells *)
  ScanRadius,   (* Chebyshev radius of one local scan                       *)
  MaxSteps      (* budget of committed commands                             *)

Height == Len(Grid)
Width  == Len(Grid[1])

(* The in-bounds positions. *)
Cells == [x : 0 .. Width - 1, y : 0 .. Height - 1]

in_bounds(p) == p.x >= 0 /\ p.y >= 0 /\ p.x < Width /\ p.y < Height

(* The character the scenario file has at an in-bounds position. *)
GridAt(p) == Grid[p.y + 1][p.x + 1]

(* What validate_and_index accepts: anything else is refused at start-up. *)
ValidScenario ==
  /\ Grid \in Seq(Seq({"#", ".", "S", "C"}))
  /\ Len(Grid) > 0
  /\ \A i \in 1 .. Len(Grid) : Len(Grid[i]) = Len(Grid[1])
  /\ \E s \in Cells : \A p \in Cells : GridAt(p) = "S" <=> p = s
  /\ ScanRadius \in Nat \ {0}
  /\ MaxSteps \in Nat \ {0}

ASSUME ScenarioAssumption == ValidScenario

(* Kind of the floor under a position: contacts stand on free cells. *)
base_cell(p) ==
  IF ~ in_bounds(p)      THEN "#"
  ELSE IF GridAt(p) = "C" THEN "."
  ELSE GridAt(p)

is_passable(p) == in_bounds(p) /\ base_cell(p) # "#"

PassableCells == {p \in Cells : is_passable(p)}

passable_cell_count == Cardinality(PassableCells)

start == CHOOSE p \in Cells : GridAt(p) = "S"

(* The contacts, each named by its cell. *)
contacts == {p \in Cells : GridAt(p) = "C"}

(* Row-major order of positions, the operator< of scenario.hpp. *)
Before(p, q) == p.y < q.y \/ (p.y = q.y /\ p.x < q.x)

(* The in-bounds part of the square a robot at p observes. *)
Window(p) ==
  {q \in Cells : /\ q.x - p.x \in -ScanRadius .. ScanRadius
                 /\ q.y - p.y \in -ScanRadius .. ScanRadius}
===============================================================================
