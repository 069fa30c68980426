------------------------------ MODULE WorldModel ------------------------------
(***************************************************************************)
(* The ground truth of one mission: class WorldModel.  An object of the    *)
(* class is a record w with the fields of the class, and each method is an *)
(* operator from the object before the call to the object after it, so     *)
(* that the handlers of the node can chain the calls they make.            *)
(***************************************************************************)
EXTENDS Scenario

UP    == 0
DOWN  == 1
LEFT  == 2
RIGHT == 3

Direction == {UP, DOWN, LEFT, RIGHT}

is_known_direction(d) == d \in Direction

delta_for_direction(d) ==
  CASE d = UP    -> [x |->  0, y |-> -1]
    [] d = DOWN  -> [x |->  0, y |->  1]
    [] d = LEFT  -> [x |-> -1, y |->  0]
    [] d = RIGHT -> [x |->  1, y |->  0]

Neighbor(p, d) ==
  [x |-> p.x + delta_for_direction(d).x, y |-> p.y + delta_for_direction(d).y]

WorldState ==
  [robot                  : Cells,
   steps_taken            : Nat,
   invalid_moves          : Nat,
   total_commands         : Nat,
   invalid_triggers       : Nat,
   duplicate_triggers     : Nat,
   contacts_seen          : SUBSET contacts,
   contacts_down          : SUBSET contacts,
   visible_passable_cells : SUBSET PassableCells]

NewWorld ==
  [robot                  |-> start,
   steps_taken            |-> 0,
   invalid_moves          |-> 0,
   total_commands         |-> 0,
   invalid_triggers       |-> 0,
   duplicate_triggers     |-> 0,
   contacts_seen          |-> {},
   contacts_down          |-> {},
   visible_passable_cells |-> {}]

contact_is_down(w, c) == c \in w.contacts_down

active_contact_at(w, p) == p \in contacts /\ ~ contact_is_down(w, p)

is_visible(w, p) ==
  /\ p.x - w.robot.x \in -ScanRadius .. ScanRadius
  /\ p.y - w.robot.y \in -ScanRadius .. ScanRadius

(* The cell_type one observed cell is published with. *)
ObservedKind(w, p) ==
  IF p \notin contacts          THEN base_cell(p)
  ELSE IF contact_is_down(w, p) THEN "x"
  ELSE "C"

(* The scan make_scan returns ... *)
ScanOf(w) ==
  [robot |-> w.robot,
   cells |-> [p \in Window(w.robot) |-> ObservedKind(w, p)]]

(* ... and what it does to the object: the walk over the window records    *)
(* the active contacts and the passable cells it meets.                    *)
make_scan_CountsWalls(w) ==   \* mutant: the wall test is missing
  [w EXCEPT
     !.contacts_seen          = @ \cup {p \in Window(w.robot) : ObservedKind(w, p) = "C"},
     !.visible_passable_cells = @ \cup Window(w.robot)]

make_scan(w) ==
  LET window == Window(w.robot) IN
  [w EXCEPT
     !.contacts_seen          = @ \cup {p \in window : ObservedKind(w, p) = "C"},
     !.visible_passable_cells = @ \cup {p \in window : ObservedKind(w, p) # "#"}]

AllPassableSeen(w) ==
  Cardinality(w.visible_passable_cells) >= passable_cell_count

AllContactsDown(w) ==
  Cardinality(w.contacts_down) = Cardinality(contacts)

Outcome == {"RUNNING", "SUCCESS", "FAILED_MAX_STEPS"}

result_BudgetFirst(w) ==   \* mutant: the two tests are swapped
  IF w.total_commands >= MaxSteps                  THEN "FAILED_MAX_STEPS"
  ELSE IF AllPassableSeen(w) /\ AllContactsDown(w) THEN "SUCCESS"
  ELSE "RUNNING"

result(w) ==
  IF AllPassableSeen(w) /\ AllContactsDown(w) THEN "SUCCESS"
  ELSE IF w.total_commands >= MaxSteps        THEN "FAILED_MAX_STEPS"
  ELSE "RUNNING"

terminal(w) == result(w) # "RUNNING"

(* One committed command.  It is charged to the budget whether or not the  *)
(* robot moves; only a command into a wall or out of the grid is counted   *)
(* as an invalid move.                                                     *)
apply_move_ChargesSteps(w, d) ==   \* mutant: only an executed move is charged
  LET next == Neighbor(w.robot, d)
  IN  IF      terminal(w) \/ ~ is_known_direction(d) THEN w
      ELSE IF ~ is_passable(next)        THEN [w EXCEPT !.invalid_moves = @ + 1]
      ELSE IF active_contact_at(w, next) THEN w
      ELSE [w EXCEPT !.robot = next, !.steps_taken = @ + 1, !.total_commands = @ + 1]

apply_move_IgnoresContacts(w, d) ==   \* mutant: an active contact does not block
  LET charged == [w EXCEPT !.total_commands = @ + 1]
      next    == Neighbor(w.robot, d)
  IN  IF      terminal(w)             THEN w
      ELSE IF ~ is_known_direction(d) THEN charged
      ELSE IF ~ is_passable(next)     THEN [charged EXCEPT !.invalid_moves = @ + 1]
      ELSE [charged EXCEPT !.robot = next, !.steps_taken = @ + 1]

apply_move(w, d) ==
  LET charged == [w EXCEPT !.total_commands = @ + 1]
      next    == Neighbor(w.robot, d)
  IN  IF      terminal(w)                  THEN w
      ELSE IF ~ is_known_direction(d)      THEN charged
      ELSE IF ~ is_passable(next)          THEN [charged EXCEPT !.invalid_moves = @ + 1]
      ELSE IF active_contact_at(w, next)   THEN charged
      ELSE [charged EXCEPT !.robot = next, !.steps_taken = @ + 1]

(* A report that contact c was hit at position p. *)
apply_enemy_down_AfterTheEnd(w, c, p) ==   \* mutant: no test of terminal()
  IF c \in contacts /\ c = p /\ ~ contact_is_down(w, c) /\ is_visible(w, p)
    THEN [w EXCEPT !.contacts_seen = @ \cup {c}, !.contacts_down = @ \cup {c}]
  ELSE [w EXCEPT !.invalid_triggers = @ + 1]

apply_enemy_down_Unseen(w, c, p) ==   \* mutant: contacts_seen_ is not updated
  IF terminal(w) THEN w
  ELSE IF c \in contacts /\ c = p /\ ~ contact_is_down(w, c) /\ is_visible(w, p)
    THEN [w EXCEPT !.contacts_down = @ \cup {c}]
  ELSE [w EXCEPT !.invalid_triggers = @ + 1]

apply_enemy_down(w, c, p) ==
  IF terminal(w)
    THEN w
  ELSE IF c \notin contacts \/ c # p
    THEN [w EXCEPT !.invalid_triggers = @ + 1]
  ELSE IF contact_is_down(w, c)
    THEN [w EXCEPT !.duplicate_triggers = @ + 1]
  ELSE IF ~ is_visible(w, p)
    THEN [w EXCEPT !.invalid_triggers = @ + 1]
  ELSE [w EXCEPT !.contacts_seen = @ \cup {c}, !.contacts_down = @ \cup {c}]

metrics(w) ==
  [steps_taken        |-> w.steps_taken,
   invalid_moves      |-> w.invalid_moves,
   contacts_seen      |-> Cardinality(w.contacts_seen),
   contacts_down      |-> Cardinality(w.contacts_down),
   invalid_triggers   |-> w.invalid_triggers,
   duplicate_triggers |-> w.duplicate_triggers,
   unique_cells_seen  |-> Cardinality(w.visible_passable_cells)]

(* What snapshot() returns for an object that make_scan has just updated.  *)
SnapshotOf(w) == [scan |-> ScanOf(w), metrics |-> metrics(w), result |-> result(w)]
===============================================================================
