------------------------------ MODULE PlannerCheck ------------------------------
(***************************************************************************)
(* The planner against a definition of what it should compute, on every    *)
(* map that can be revealed of a small walled room.  Which neighbour the   *)
(* queue, the visited set and the parent map end up choosing is compared   *)
(* with a characterisation that mentions none of them.                     *)
(***************************************************************************)
EXTENDS Planner

CONSTANTS
  Columns, Rows,   (* bound: size of the room inside the walls *)
  MaxContacts,     (* bound: active contacts in it             *)
  StartCells       (* bound: where in the room the robot is    *)

ASSUME RoomAssumption ==
  /\ {Columns, Rows} \subseteq Nat \ {0}
  /\ MaxContacts \in Nat
  /\ StartCells \subseteq [x : 1 .. Columns, y : 1 .. Rows]

VARIABLES known, blocked, from

roomVars == <<known, blocked, from>>

Room  == [x : 1 .. Columns, y : 1 .. Rows]
Walls == [x : 0 .. Columns + 1, y : 0 .. Rows + 1] \ Room

RoomInit ==
  /\ from \in StartCells
  /\ known = [p \in Walls \cup {from} |-> IF p = from THEN "." ELSE "#"]
  /\ blocked = {}

(* One more cell is reported, as a wall, a free cell or an active contact. *)
Reveal(p, kind) ==
  /\ p \notin DOMAIN known
  /\ kind = "C" => Cardinality(blocked) < MaxContacts
  /\ known' = [q \in DOMAIN known \cup {p} |-> IF q = p THEN kind ELSE known[q]]
  /\ blocked' = IF kind = "C" THEN blocked \cup {p} ELSE blocked
  /\ UNCHANGED from

RoomNext == \E p \in Room, kind \in {"#", ".", "C"} : Reveal(p, kind)

RoomSpec == RoomInit /\ [][RoomNext]_roomVars

-------------------------------------------------------------------------------
(* mission_explorer.cpp plans a step on a shortest path to a frontier,     *)
(* breaking ties by the order up, down, left, right, and gives up exactly  *)
(* when no frontier can be reached (on a frontier cell: when no neighbour  *)
(* is one): the visited set, the queue discipline and the walk along the   *)
(* parent map (lines 198-254) lose nothing.                                *)
PlanIsNearestFrontier ==
  plan_next_step(known, blocked, from) = NearestNeighbor(known, blocked, from)
================================================================================
