--------------------------- MODULE OdometryProperties ---------------------------
(***************************************************************************)
(* What the pose has to be, however the vehicle has moved.                 *)
(***************************************************************************)
EXTENDS Odometry

(* The heading is summed over all readings and yet depends on the first    *)
(* and the last only: nothing is lost or counted twice on the way          *)
(* (main.cpp:63-71, 78-89).                                                *)
HeadingTelescopes ==
  \A i \in DOMAIN poses : poses[i].theta = Turn(readings[1], readings[i])

(* From reading i to reading j the vehicle has gone and come back the way  *)
(* it went.                                                                *)
Retraced(i, j) == \A k \in 0 .. j - i : readings[i + k] = readings[j - k]

SamePose(p, q) ==
  /\ p.theta = q.theta
  /\ \A h \in DOMAIN p.position \cup DOMAIN q.position : Along(p.position, h) = Along(q.position, h)

(* A vehicle that has come back the way it went is reported where it was,  *)
(* up to rounding: a step back cancels the one out, in the same direction, *)
(* because the heading is taken in the middle of the turn                  *)
(* (main.cpp:78-81).                                                       *)
PoseIsTrue ==
  /\ HeadingTelescopes
  /\ \A i, j \in DOMAIN readings : i <= j /\ Retraced(i, j) => SamePose(poses[i], poses[j])
================================================================================
