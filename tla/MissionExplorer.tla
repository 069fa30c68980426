---------------------------- MODULE MissionExplorer ----------------------------
(***************************************************************************)
(* The autonomous mission node.  It keeps the map it was shown, and acts   *)
(* at most once per scan: the 20 ms control timer does nothing until a     *)
(* scan arrives that it has not acted on.  One executor runs its           *)
(* callbacks one at a time.                                                *)
(*                                                                         *)
(* The message a tick sends is a parameter of the action; the module that  *)
(* composes the nodes carries it to its receiver.                          *)
(***************************************************************************)
EXTENDS Planner

VARIABLES
  current_position,     (* robot position in the last scan                     *)
  known_cells,          (* position -> last reported character                 *)
  active_contacts,      (* contacts reported "C" and not processed             *)
  processed_contacts,   (* contacts reported "x"                               *)
  visible_contacts,     (* contacts reported "C" in the last scan              *)
  pending_contact,      (* the contact a trigger was sent for: {} or {c}       *)
  latest_result,        (* last result received, "" before the first           *)
  unacted_scan,         (* have_scan_ and acted_scan_sequence_ # scan_sequence_ *)
  status                (* last state published on /student/status, or "NONE"  *)

explorerVars ==
  <<current_position, known_cells, active_contacts, processed_contacts,
    visible_contacts, pending_contact, latest_result, unacted_scan, status>>

mapVars ==
  <<current_position, known_cells, active_contacts, processed_contacts,
    visible_contacts>>

Status == {"NONE", "EXPLORING", "ENGAGING", "DONE", "FAILED"}

(* The state of a node that has just been constructed. *)
ExplorerInit ==
  /\ current_position = [x |-> 0, y |-> 0]
  /\ known_cells = << >>
  /\ active_contacts = {}
  /\ processed_contacts = {}
  /\ visible_contacts = {}
  /\ pending_contact = {}
  /\ latest_result = ""
  /\ unacted_scan = FALSE
  /\ status = "NONE"

Merge(seen, known) ==
  [p \in DOMAIN seen \cup DOMAIN known |->
     IF p \in DOMAIN seen THEN seen[p] ELSE known[p]]

Reported(scan, kind) == {p \in DOMAIN scan.cells : scan.cells[p] = kind}

StillVisible_Always(pending, visible) ==   \* mutant: a pending contact is never reset
  pending

(* A pending contact that is no longer reported active has been dealt with. *)
StillVisible(pending, visible) == pending \cap visible

ForgetProcessed_Not(active, processed) ==   \* mutant: "x" does not erase
  active

ForgetProcessed(active, processed) == active \ processed

VisibleAfter_NotCleared(scan) ==   \* mutant: clear() is missing
  visible_contacts \cup Reported(scan, "C")

VisibleAfter(scan) == Reported(scan, "C")

on_local_scan(scan) ==
  /\ current_position' = scan.robot
  /\ known_cells' = Merge(scan.cells, known_cells)
  /\ visible_contacts' = VisibleAfter(scan)
  /\ processed_contacts' = processed_contacts \cup Reported(scan, "x")
  /\ active_contacts' =
       ForgetProcessed(active_contacts \cup Reported(scan, "C"), processed_contacts')
  /\ pending_contact' = StillVisible(pending_contact, visible_contacts')
  /\ unacted_scan' = TRUE
  /\ UNCHANGED <<latest_result, status>>

on_result(r) ==
  /\ latest_result' = r
  /\ UNCHANGED <<mapVars, pending_contact, unacted_scan, status>>

(* The answer to a trigger request; only a refusal matters. *)
on_response(accepted) ==
  /\ pending_contact' = IF accepted THEN pending_contact ELSE {}
  /\ UNCHANGED <<mapVars, latest_result, unacted_scan, status>>

-------------------------------------------------------------------------------
(* control_tick, one action per way through it. *)

Acted_Again(state) ==   \* mutant: acted_scan_sequence_ is not updated
  /\ unacted_scan
  /\ status' = state
  /\ UNCHANGED <<mapVars, latest_result, unacted_scan>>

Acted(state) ==
  /\ unacted_scan
  /\ unacted_scan' = FALSE
  /\ status' = state
  /\ UNCHANGED <<mapVars, latest_result>>

MissionRunning == latest_result \notin {"SUCCESS", "FAILED_MAX_STEPS"}

TickDone ==
  /\ latest_result = "SUCCESS"
  /\ Acted("DONE")
  /\ UNCHANGED pending_contact

TickFailed_NotRunning ==   \* mutant: anything but RUNNING and SUCCESS is a failure
  /\ latest_result \notin {"RUNNING", "SUCCESS"}
  /\ Acted("FAILED")
  /\ UNCHANGED pending_contact

TickFailed ==
  /\ latest_result = "FAILED_MAX_STEPS"
  /\ Acted("FAILED")
  /\ UNCHANGED pending_contact

TickPending ==
  /\ MissionRunning
  /\ pending_contact # {}
  /\ Acted("ENGAGING")
  /\ UNCHANGED pending_contact

(* engage_contact with the service not discovered yet: nothing is sent and *)
(* the scan counts as not acted on, so the next tick tries again.          *)
TickServiceNotReady_GivesUp ==   \* mutant: the scan counts as acted on
  /\ MissionRunning
  /\ pending_contact = {}
  /\ visible_contacts # {}
  /\ Acted("ENGAGING")
  /\ UNCHANGED pending_contact

TickServiceNotReady ==
  /\ unacted_scan
  /\ MissionRunning
  /\ pending_contact = {}
  /\ visible_contacts # {}
  /\ status' = "ENGAGING"
  /\ UNCHANGED <<mapVars, pending_contact, latest_result, unacted_scan>>

(* engage_contact sends a trigger request for c, the first contact in the  *)
(* row-major order of the scan's cells.                                    *)
TickEngage(c) ==
  /\ MissionRunning
  /\ pending_contact = {}
  /\ c \in visible_contacts
  /\ \A b \in visible_contacts : c.y < b.y \/ (c.y = b.y /\ c.x <= b.x)
  /\ Acted("ENGAGING")
  /\ pending_contact' = {c}

Plan == plan_next_step(known_cells, active_contacts \ processed_contacts, current_position)

(* No frontier is left: the explorer declares itself done. *)
TickExhausted ==
  /\ MissionRunning
  /\ unacted_scan
  /\ pending_contact = {}
  /\ visible_contacts = {}
  /\ Plan = {}
  /\ Acted("DONE")
  /\ UNCHANGED pending_contact

(* The move command d is published. *)
TickMove(d) ==
  /\ MissionRunning
  /\ unacted_scan
  /\ pending_contact = {}
  /\ visible_contacts = {}
  /\ \E to \in Plan : d = direction_from_step(current_position, to)
  /\ Acted("EXPLORING")
  /\ UNCHANGED pending_contact
================================================================================
