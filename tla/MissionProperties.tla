--------------------------- MODULE MissionProperties ---------------------------
(***************************************************************************)
(* What the three nodes achieve together.                                  *)
(***************************************************************************)
EXTENDS UndergroundMission

One(b) == IF b THEN 1 ELSE 0

(* Everything that can still make some node act on the mission: a scan not *)
(* delivered or not acted on, a command, request or report on its way.     *)
Stimuli ==
  One(initial_timer) + One(unacted_scan) + Len(scan_topic) + Len(move_topic)
    + Len(pending_moves) + Len(trigger_requests) + Len(enemy_down_topic)

(* The nodes pass one stimulus around: the explorer never has two commands *)
(* in flight, the world never queues a move behind another, and no scan is *)
(* overwritten in its KeepLast(1) topic before the explorer took it.       *)
OneStimulus == Stimuli <= 1

(* The relay never stops by itself: without a stimulus the mission is over, *)
(* the explorer has declared itself done, or a message was lost to late     *)
(* discovery (or to a restart).                                             *)
NoSilentStall ==
  Stimuli = 0 => terminal(world) \/ status = "DONE" \/ lost

(* control_tick never acts on an outdated picture: the scan it acts on     *)
(* shows the robot where it is and exactly the contacts still active       *)
(* around it, although three queues lie between the two nodes.             *)
ActsOnCurrentScan ==
  unacted_scan =>
    /\ current_position = world.robot
    /\ visible_contacts = {c \in contacts \cap Window(world.robot) : ~ contact_is_down(world, c)}

(* The explorer wastes nothing of its budget: no command into a wall, none *)
(* into an active contact, no trigger refused by the world.                *)
NoWastedCommands ==
  /\ world.total_commands = world.steps_taken
  /\ world.invalid_triggers = 0 /\ world.duplicate_triggers = 0

(* The explorer's map is true: walls are walls, free cells are free, and a *)
(* contact it considers processed is down in the world.                    *)
MapIsTrue ==
  /\ \A p \in DOMAIN known_cells : known_cells[p] = "#" <=> ~ is_passable(p)
  /\ processed_contacts \subseteq world.contacts_down
  /\ active_contacts \cap processed_contacts = {}
  /\ visible_contacts \subseteq active_contacts

(* The cells a robot can walk to from p around walls and active contacts.  *)
Reachable(w, p) ==
  LET Grow[near \in SUBSET PassableCells] ==
        near \cup {q \in PassableCells : /\ ~ active_contact_at(w, q)
                                         /\ \E d \in Direction : Neighbor(q, d) \in near}
      Ball[n \in Nat] == IF n = 0 THEN {p} ELSE Grow[Ball[n - 1]]
  IN  Ball[passable_cell_count]

(* DONE is honest: the mission succeeded, or every cell that can be walked *)
(* to was seen and every contact seen is down (mission_explorer.cpp:134).  *)
DoneIsHonest ==
  status = "DONE" =>
    \/ result(world) = "SUCCESS"
    \/ /\ Reachable(world, world.robot) \subseteq world.visible_passable_cells
       /\ world.contacts_seen = world.contacts_down

(* FAILED is honest: the budget is spent and the mission not done           *)
(* (mission_explorer.cpp:134-149).                                         *)
FailedIsHonest == status = "FAILED" => result(world) = "FAILED_MAX_STEPS"

(* The reports are honest, both of them.  A DONE may be wrong after a       *)
(* restart: a move the old process had sent can take the robot out of sight *)
(* of a contact the new one has seen, which then bars its way for good.    *)
ReportsAreHonest == (restarts = 0 => DoneIsHonest) /\ FailedIsHonest

(* Restarts of the explorer included, what the world publishes is a        *)
(* mission as Mission.tla promises it.                                     *)
ImplementsMission == AbstractMission!Spec

(* With every link discovered in time the mission succeeds.                *)
MissionSucceeds == <>(result(world) = "SUCCESS")

(* Whatever the scenario, the mission comes to an end for the explorer or  *)
(* for the world, unless a message was lost.                               *)
MissionEnds == <>(terminal(world) \/ status = "DONE" \/ lost)
================================================================================
