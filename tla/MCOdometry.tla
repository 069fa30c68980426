------------------------------- MODULE MCOdometry -------------------------------
EXTENDS OdometryProperties

At(fl, fr, bl, br) == [fl |-> fl, fr |-> fr, bl |-> bl, br |-> br]

(* At rest, straight on, both turns, on the spot, backwards, one wheel slipping. *)
MCReadings ==
  {At(0, 0, 0, 0), At(2, 2, 2, 2), At(2, 5, 2, 5), At(5, 2, 5, 2),
   At(-1, 1, -1, 1), At(-3, -3, -3, -3), At(4, 3, 1, 3)}
================================================================================
