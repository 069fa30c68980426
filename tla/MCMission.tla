------------------------------- MODULE MCMission -------------------------------
(***************************************************************************)
(* TLC instances of the composed mission: a scenario file of the           *)
(* repository, and a small grid for the situations those files avoid.      *)
(***************************************************************************)
EXTENDS MissionProperties

(* config/small_rooms.yaml *)
SmallRooms ==
  << <<"#", "#", "#", "#", "#", "#", "#", "#", "#", "#", "#">>,
     <<"#", "S", ".", ".", "#", ".", ".", ".", ".", ".", "#">>,
     <<"#", ".", "#", ".", "#", ".", "#", "#", "#", ".", "#">>,
     <<"#", ".", "#", ".", ".", ".", "C", ".", ".", ".", "#">>,
     <<"#", ".", "#", "#", "#", "#", "#", ".", "#", "#", "#">>,
     <<"#", ".", ".", ".", "C", ".", ".", ".", ".", ".", "#">>,
     <<"#", "#", "#", "#", "#", "#", "#", "#", "#", "#", "#">> >>

(* A contact bars the way to a second one; a pocket cannot be reached. *)
Pocket ==
  << <<"#", "#", "#", "#", "#", "#", "#">>,
     <<"#", "S", ".", "C", ".", "C", "#">>,
     <<"#", ".", "#", "#", "#", "#", "#">>,
     <<"#", ".", ".", "#", "#", ".", "#">>,
     <<"#", "#", "#", "#", "#", "#", "#">> >>

ServiceLate == {"move", "enemy_down"}
NoLinks == {}
================================================================================
