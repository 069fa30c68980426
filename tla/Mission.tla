-------------------------------- MODULE Mission --------------------------------
(***************************************************************************)
(* What a mission promises to whoever watches its result topic, without    *)
(* grids, moves or messages: coverage and the set of contacts put down     *)
(* only grow, at most one contact goes down at a time, SUCCESS is          *)
(* announced exactly when both are complete, the mission may instead be    *)
(* declared failed, and an announced outcome is final.                     *)
(***************************************************************************)
CONSTANTS
  AllCells,      (* the cells that have to be seen          *)
  AllContacts    (* the contacts that have to be put down   *)

VARIABLES
  covered,       (* the cells seen so far                   *)
  down,          (* the contacts put down so far            *)
  outcome        (* the announced result                    *)

Complete == covered = AllCells /\ down = AllContacts

Init ==
  /\ covered = {}
  /\ down = {}
  /\ outcome = "RUNNING"

CoverageGrows == covered \subseteq covered' /\ covered' \subseteq AllCells

DownGrows ==
  \/ down' = down
  \/ \E c \in AllContacts : down' = down \cup {c}

Announce ==
  IF Complete' THEN outcome' = "SUCCESS"
               ELSE outcome' \in {"RUNNING", "FAILED_MAX_STEPS"}

Progress ==
  /\ outcome = "RUNNING"
  /\ CoverageGrows
  /\ DownGrows
  /\ Announce

Spec == Init /\ [][Progress]_<<covered, down, outcome>>
===============================================================================
