---------------------------- MODULE MCWorldContract ----------------------------
(***************************************************************************)
(* TLC instance of WorldContract: a corridor with a corner and a contact,  *)
(* small enough that the budget, the open border and both outcomes occur.  *)
(***************************************************************************)
EXTENDS WorldContract

(* One contact in the only way from the start to the far end, no wall      *)
(* around the grid, and a corner the first scan does not reach.            *)
MCGrid ==
  << <<"S", ".", "#">>,
     <<"#", "C", "#">>,
     <<"#", ".", ".">> >>

(* A report may name a contact, a free cell or a cell outside the grid. *)
MCReports == { [x |-> 1, y |-> 1], [x |-> 1, y |-> 2], [x |-> 3, y |-> 1] }
===============================================================================
