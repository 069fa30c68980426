---------------------------- MODULE MCPlannerCheck ----------------------------
(***************************************************************************)
(* TLC instance of PlannerCheck.                                           *)
(***************************************************************************)
EXTENDS PlannerCheck

(* The centre of the room and the middle of a side. *)
MCStartCells == { [x |-> 2, y |-> 2], [x |-> 1, y |-> 2] }
===============================================================================
