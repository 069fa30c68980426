------------------------------- MODULE DroneStates -------------------------------
(***************************************************************************)
(* The five states of the drone: what execute() does to position, speed    *)
(* and direction, and the state that follows.                              *)
(***************************************************************************)
EXTENDS TargetAnalyzer

(* DroneMotionState, the position and the state.  While the drone turns,   *)
(* currentDir is where it turned from.                                     *)
Drone == [state : {"Stopped", "Turning", "Accelerating", "Moving", "Decelerating"},
          position : Int, currentSpeed : 0 .. attackSpeed,
          currentDir : Direction, turnTargetDir : Direction, desiredDir : Direction,
          turnRemainingTime : 0 .. HalfTurn, currentTargetIndex : Int]

moveDroneToPoint(position, dest, maxDistance) ==
  IF Distance(position, dest) <= maxDistance THEN dest
  ELSE position + DirectionTo(position, dest) * maxDistance

StartsTurning(d) == [d EXCEPT !.state = "Turning", !.turnTargetDir = d.desiredDir,
                              !.turnRemainingTime = HalfTurn]

StateStopped(d) ==
  IF d.currentDir # d.desiredDir THEN StartsTurning([d EXCEPT !.currentSpeed = 0])
  ELSE [d EXCEPT !.currentSpeed = 0, !.state = "Accelerating"]

StateTurning_KeepsRemaining(d) ==   \* mutant: turnRemainingTime is not reset
  IF d.turnRemainingTime <= 100
  THEN [d EXCEPT !.currentDir = d.turnTargetDir, !.state = "Accelerating"]
  ELSE [d EXCEPT !.turnRemainingTime = @ - 100]

StateTurning(d) ==
  IF d.turnRemainingTime <= 100
  THEN [d EXCEPT !.currentDir = d.turnTargetDir, !.turnRemainingTime = 0, !.state = "Accelerating"]
  ELSE [d EXCEPT !.turnRemainingTime = @ - 100]

StateAccelerating(d, goal) ==
  LET speed == IF d.currentSpeed + acceleration > attackSpeed THEN attackSpeed
               ELSE d.currentSpeed + acceleration
  IN  [d EXCEPT !.currentSpeed = speed,
                !.position = moveDroneToPoint(@, goal, (d.currentSpeed + speed) \div 2),
                !.state = IF speed = attackSpeed THEN "Moving" ELSE @]

StateMoving_NeverStops(d, goal) ==   \* mutant: it flies on without turning
  [d EXCEPT !.currentSpeed = attackSpeed, !.position = moveDroneToPoint(@, goal, attackSpeed)]

StateMoving(d, goal) ==
  LET turns == d.currentDir # d.desiredDir
      ready == [d EXCEPT !.turnTargetDir = IF turns THEN d.desiredDir ELSE @]
  IN  IF turns /\ d.currentSpeed > 0 THEN [ready EXCEPT !.state = "Decelerating"]
      ELSE [ready EXCEPT !.currentSpeed = attackSpeed,
                         !.position = moveDroneToPoint(@, goal, attackSpeed)]

StateDecelerating(d) ==
  LET speed == IF d.currentSpeed < acceleration THEN 0 ELSE d.currentSpeed - acceleration
      moved == [d EXCEPT !.currentSpeed = speed,
                         !.position = @ + d.currentDir * ((d.currentSpeed + speed) \div 2)]
  IN  IF speed > 0 THEN moved
      ELSE IF d.currentDir # d.desiredDir THEN StartsTurning(moved)
      ELSE [moved EXCEPT !.turnTargetDir = d.desiredDir, !.turnRemainingTime = 0,
                         !.state = "Accelerating"]

execute(goal) == [d \in Drone |->
  CASE d.state = "Stopped"      -> StateStopped(d)
    [] d.state = "Turning"      -> StateTurning(d)
    [] d.state = "Accelerating" -> StateAccelerating(d, goal)
    [] d.state = "Moving"       -> StateMoving(d, goal)
    [] d.state = "Decelerating" -> StateDecelerating(d)]
================================================================================
