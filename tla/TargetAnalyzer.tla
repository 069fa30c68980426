----------------------------- MODULE TargetAnalyzer -----------------------------
(***************************************************************************)
(* Class TargetAnalyzer, for drones and targets on a line.  There, a       *)
(* direction is +1 or -1, a turn is always a half turn, and every distance *)
(* the code computes is an integer.  Time is counted in simulation steps,  *)
(* the time estimates in hundredths of a step.                             *)
(***************************************************************************)
EXTENDS Integers, FiniteSets

CONSTANTS
  attackSpeed, accelPath,   (* config: distance per step, distance        *)
  HalfTurn,                 (* pi / angularSpeed, in hundredths           *)
  SwitchPrevention,         (* TARGET_SWITCH_PREVENTION, in hundredths    *)
  timeSteps,                (* samples of a track                         *)
  arrayTimeStep             (* steps from one sample to the next          *)

(* calculateDroneAcceleration. *)
acceleration == (attackSpeed * attackSpeed) \div (2 * accelPath)

(* The configurations that fly at all, in units that keep distances whole. *)
ASSUME ConfigAssumption ==
  /\ attackSpeed \in Nat \ {0} /\ accelPath \in Nat \ {0}
  /\ acceleration \in Nat \ {0} /\ attackSpeed * attackSpeed = 2 * accelPath * acceleration
  /\ acceleration % 2 = 0 /\ attackSpeed % acceleration = 0
  /\ HalfTurn \in Nat \ {0} /\ SwitchPrevention \in Nat
  /\ timeSteps \in Nat \ {0} /\ arrayTimeStep \in Nat \ {0}

Direction == {1, -1}

(* A track has timeSteps positions; the code interpolates between them.    *)
Track == {p \in [0 .. timeSteps - 1 -> Int] :
            \A s \in 0 .. timeSteps - 1 :
              (p[(s + 1) % timeSteps] - p[s]) % (arrayTimeStep * arrayTimeStep) = 0}

Distance(a, b) == IF a < b THEN b - a ELSE a - b

DirectionTo(a, b) == IF a < b THEN 1 ELSE -1

-------------------------------------------------------------------------------
(* Where a target is, and where it will be. *)

interpolateTargetPosition(track, t) ==
  LET idx  == (t \div arrayTimeStep) % timeSteps
      next == (idx + 1) % timeSteps
  IN  track[idx] + ((track[next] - track[idx]) \div arrayTimeStep) * (t % arrayTimeStep)

calculateTargetVelocity(track, t) ==
  (interpolateTargetPosition(track, t + arrayTimeStep) - interpolateTargetPosition(track, t))
    \div arrayTimeStep

predictTargetPosition(track, t, flightTime) ==
  interpolateTargetPosition(track, t) + calculateTargetVelocity(track, t) * flightTime

-------------------------------------------------------------------------------
(* Where to drop, and from where to approach. *)

Path == [needManeuver : BOOLEAN, maneuverPoint : Int, dropPoint : Int]

calculateDropPoint(drone, horizontalDistance) == [target \in Int |->
  LET reach == horizontalDistance + accelPath
      needManeuver  == reach > Distance(drone, target)
      maneuverPoint == IF drone = target THEN target - reach
                       ELSE target - DirectionTo(drone, target) * reach
      start == IF needManeuver THEN maneuverPoint ELSE drone
  IN  [needManeuver  |-> needManeuver,
       maneuverPoint |-> IF needManeuver THEN maneuverPoint ELSE 0,
       dropPoint     |-> IF start = target THEN start
                         ELSE target - DirectionTo(start, target) * horizontalDistance]]

-------------------------------------------------------------------------------
(* How long it takes. *)

(* The square root of x, in hundredths.                                    *)
SquareRoot == [x \in 0 .. attackSpeed * attackSpeed |->
                 Cardinality({r \in 1 .. 100 * attackSpeed : r * r <= 10000 * x})]

estimateTravelTime(startSpeed) == [distance \in Nat |->
  LET missing == attackSpeed * attackSpeed - startSpeed * startSpeed
      fullSpeedAfter == missing \div (2 * acceleration)
  IN  IF distance = 0 THEN 0
      ELSE IF distance <= fullSpeedAfter
      THEN (SquareRoot[startSpeed * startSpeed + 2 * acceleration * distance] - 100 * startSpeed)
             \div acceleration
      ELSE (100 * (attackSpeed - startSpeed)) \div acceleration
             + (100 * (distance - fullSpeedAfter)) \div attackSpeed]

StopTime(speed) == (100 * speed) \div acceleration

(* The time so far, and speed, direction and position after it.            *)
Leg == [time : Int, speed : 0 .. attackSpeed, dir : Direction, position : Int]

estimateTimeToCompleteMove(goal) == [m \in Leg |->
  LET goalDir == DirectionTo(m.position, goal)
      needed  == IF m.dir # goalDir
                 THEN StopTime(m.speed) + HalfTurn + estimateTravelTime(0)[Distance(m.position, goal)]
                 ELSE estimateTravelTime(m.speed)[Distance(m.position, goal)]
  IN  IF m.position = goal THEN m
      ELSE [time |-> m.time + needed, speed |-> attackSpeed, dir |-> goalDir, position |-> goal]]

(* What lies between now and the flight to target i: the turn that is being *)
(* made, or giving up another target.                                       *)
BeforeTheMove(d, i) ==
  LET switches == d.currentTargetIndex \notin {-1, i}
      begins   == [time |-> 0, speed |-> d.currentSpeed, dir |-> d.currentDir, position |-> d.position]
  IN  IF d.state = "Turning"
      THEN [begins EXCEPT !.time = d.turnRemainingTime, !.speed = 0, !.dir = d.turnTargetDir]
      ELSE IF switches
      THEN [begins EXCEPT !.time = StopTime(d.currentSpeed), !.speed = 0,
                          !.position = @ + d.currentDir * ((d.currentSpeed * d.currentSpeed)
                                                             \div (2 * acceleration))]
      ELSE begins

estimateTimeToTargetPath(d, i, path) ==
  LET start == BeforeTheMove(d, i)
      approach == IF path.needManeuver THEN estimateTimeToCompleteMove(path.maneuverPoint)[start]
                                       ELSE start
  IN  estimateTimeToCompleteMove(path.dropPoint)[approach].time

-------------------------------------------------------------------------------
(* A target as step() sees it.                                             *)
BestTargetResult ==
  [targetIndex : Nat, totalTime : Int, needManeuver : BOOLEAN,
   maneuverPoint : Int, dropPoint : Int, predictedTarget : Int]

(* d is the drone.  With a configuration that flies no evaluation fails.   *)
evaluateTarget(track, i, d, time, ballistics, returning) ==
  LET forgo == returning /\ i = d.currentTargetIndex
      evaluate(predicted) == [path \in Path |->
        [targetIndex     |-> i,
         totalTime       |-> estimateTimeToTargetPath(d, i, path),
         needManeuver    |-> path.needManeuver,
         maneuverPoint   |-> path.maneuverPoint,
         dropPoint       |-> path.dropPoint,
         predictedTarget |-> predicted]]
      aim == [predicted \in Int |->
        evaluate(predicted)[[calculateDropPoint(d.position, ballistics.horizontalDistance)[predicted]
                               EXCEPT !.needManeuver = @ /\ ~ forgo]]]
  IN  aim[predictTargetPosition(track, time, ballistics.flightTime)]

(* The first of the fastest, unless the current one is hardly slower.      *)
selectBestTarget(current) == [candidates \in SUBSET BestTargetResult |->
  LET fastest == CHOOSE c \in candidates : \A e \in candidates :
                   \/ c.totalTime < e.totalTime
                   \/ c.totalTime = e.totalTime /\ c.targetIndex <= e.targetIndex
      kept == {c \in candidates : /\ c.targetIndex = current
                                  /\ fastest.totalTime > c.totalTime - SwitchPrevention}
  IN  IF kept = {} THEN fastest ELSE CHOOSE c \in kept : TRUE]
================================================================================
