---------------------------- MODULE MissionProcessor ----------------------------
(***************************************************************************)
(* Class MissionProcessor: step() is called until hasNext() is false;      *)
(* reset() and changeSolver() may be called in between.                    *)
(***************************************************************************)
EXTENDS DroneStates, Sequences

CONSTANTS
  Configs,           (* [startPos, initialDir, hitRadius, targetCount, targets, ballistics, *)
                     (* others]; ballistics is what the solver of the     *)
                     (* constructor returns, others what a new one may    *)
  MaxResets,         (* bound: calls of reset                             *)
  MaxSolverChanges   (* bound: calls of changeSolver                      *)

BallisticsResult == [flightTime : Nat, horizontalDistance : Nat]

ASSUME InputsAssumption ==
  /\ \A c \in Configs :
       /\ c.startPos \in Int /\ c.initialDir \in Direction /\ c.hitRadius \in Nat
       /\ c.targetCount \in Nat \ {0} /\ c.targets \in [0 .. c.targetCount - 1 -> Track]
       /\ c.ballistics \in BallisticsResult /\ c.others \subseteq BallisticsResult
  /\ MaxResets \in Nat /\ MaxSolverChanges \in Nat

VARIABLES
  config,            (* with the targets; never changes                   *)
  ballistics,
  drone,             (* droneState, dronePosition and droneMotion         *)
  simulationTime,    (* within one round of the tracks, which repeat      *)
  missionComplete,
  targetLocked, lockedTargetIndex,
  returningFromManuver, maneuverTargetIndex,
  drops,             (* history: what was dropped, a record for each run  *)
  resets, changes    (* history: calls so far                             *)

flags == <<targetLocked, lockedTargetIndex, returningFromManuver, maneuverTargetIndex>>
vars  == <<config, ballistics, drone, simulationTime, missionComplete, flags, drops, resets, changes>>

NewDrone(c, desired) ==
  [state |-> "Stopped", position |-> c.startPos, currentSpeed |-> 0,
   currentDir |-> c.initialDir, turnTargetDir |-> c.initialDir, desiredDir |-> desired,
   turnRemainingTime |-> 0, currentTargetIndex |-> -1]

(* The constructor and a successful init(). *)
Init ==
  /\ config \in Configs
  /\ ballistics = config.ballistics
  /\ drone = NewDrone(config, 1)
  /\ simulationTime = 0 /\ missionComplete = FALSE
  /\ targetLocked = FALSE /\ lockedTargetIndex = -1
  /\ returningFromManuver = FALSE /\ maneuverTargetIndex = -1
  /\ drops = << >> /\ resets = 0 /\ changes = 0

hasNext == ~ missionComplete

-------------------------------------------------------------------------------
(* step() *)

(* What it reads. *)
Now ==
  [config |-> config, ballistics |-> ballistics, drone |-> drone, simulationTime |-> simulationTime,
   targetLocked |-> targetLocked, lockedTargetIndex |-> lockedTargetIndex,
   returningFromManuver |-> returningFromManuver, maneuverTargetIndex |-> maneuverTargetIndex]

Evaluated(m, i) ==
  evaluateTarget(m.config.targets[i], i, m.drone, m.simulationTime, m.ballistics, m.returningFromManuver)

Selected(m) ==
  selectBestTarget(m.drone.currentTargetIndex)[{Evaluated(m, i) : i \in DOMAIN m.config.targets}]

best_Reselects(m) == Selected(m)   \* mutant: the lock is not looked at

best(m) == IF m.targetLocked THEN Evaluated(m, m.lockedTargetIndex) ELSE Selected(m)

(* The three rules for returningFromManuver, in their order.               *)
Returning(m, b) ==
  \/ /\ m.returningFromManuver
     /\ b.targetIndex = m.maneuverTargetIndex
     /\ m.drone.state # "Decelerating"
  \/ m.drone.state = "Moving" /\ ~ b.needManeuver

(* What is left of the need for a manoeuvre: fly it, or it has been flown. *)
needManeuver(m, b)      == b.needManeuver /\ ~ Returning(m, b)
atManeuverPoint(m, b)   == /\ needManeuver(m, b)
                           /\ Distance(m.drone.position, b.maneuverPoint) <= m.config.hitRadius
headingToManeuver(m, b) == needManeuver(m, b) /\ ~ atManeuverPoint(m, b)

InReach(m, b) ==
  /\ ~ headingToManeuver(m, b) /\ m.drone.state = "Moving"
  /\ Distance(m.drone.position, b.dropPoint) <= m.ballistics.horizontalDistance

Locks_NotOnTheWay(m, b) ==   \* mutant: only the manoeuvre point locks
  atManeuverPoint(m, b) \/ (~ m.targetLocked /\ InReach(m, b))

Locks(m, b) == needManeuver(m, b) \/ (~ m.targetLocked /\ InReach(m, b))

Goal(m, b) == IF headingToManeuver(m, b) THEN b.maneuverPoint ELSE b.dropPoint

desiredDir(m, b) == IF Goal(m, b) = m.drone.position THEN m.drone.desiredDir
                    ELSE DirectionTo(m.drone.position, Goal(m, b))

Flown(m, b) == execute(Goal(m, b))[[m.drone EXCEPT !.currentTargetIndex = b.targetIndex,
                                                   !.desiredDir = desiredDir(m, b)]]

(* d is the drone after execute().                                         *)
dropNow_AnyState(m, b, d) ==   \* mutant: the drone need not be Moving
  ~ headingToManeuver(m, b) /\ Distance(d.position, b.dropPoint) <= m.config.hitRadius

dropNow_Inside(m, b, d) ==   \* mutant: the border of the hit radius does not count
  /\ ~ headingToManeuver(m, b) /\ Distance(d.position, b.dropPoint) < m.config.hitRadius
  /\ d.state = "Moving"

dropNow(m, b, d) ==
  /\ ~ headingToManeuver(m, b) /\ Distance(d.position, b.dropPoint) <= m.config.hitRadius
  /\ d.state = "Moving"

(* What is dropped, from how much too far, and how far off it comes down.  *)
DropOf(m, b, d) ==
  LET aimPoint == d.position + d.currentDir * m.ballistics.horizontalDistance
  IN  [target |-> b.targetIndex, position |-> d.position, speed |-> d.currentSpeed,
       excess |-> Distance(d.position, b.predictedTarget) - m.ballistics.horizontalDistance,
       miss   |-> Distance(aimPoint, b.predictedTarget)]

NextTime(m) == (m.simulationTime + 1) % (timeSteps * arrayTimeStep)

StepFlies(m, b) ==
  /\ hasNext
  /\ drone' = Flown(m, b)
  /\ simulationTime' = NextTime(m)
  /\ UNCHANGED <<config, ballistics, resets, changes>>

StepDrops(m, b) ==
  /\ StepFlies(m, b) /\ dropNow(m, b, drone')
  /\ missionComplete' = TRUE
  /\ targetLocked' = FALSE /\ lockedTargetIndex' = -1
  /\ returningFromManuver' = FALSE /\ maneuverTargetIndex' = -1
  /\ drops' = Append(drops, DropOf(m, b, drone'))

StepGoesOn(m, b) ==
  /\ StepFlies(m, b) /\ ~ dropNow(m, b, drone')
  /\ targetLocked' = (targetLocked \/ Locks(m, b))
  /\ lockedTargetIndex' = IF Locks(m, b) THEN b.targetIndex ELSE lockedTargetIndex
  /\ returningFromManuver' = (Returning(m, b) \/ atManeuverPoint(m, b))
  /\ maneuverTargetIndex' = IF headingToManeuver(m, b) THEN b.targetIndex ELSE maneuverTargetIndex
  /\ UNCHANGED <<missionComplete, drops>>

step == \E m \in {Now} : \E b \in {best(m)} : StepDrops(m, b) \/ StepGoesOn(m, b)

-------------------------------------------------------------------------------
(* reset() forgets the mission, except for desiredDir and ballistics.      *)
reset_KeepsTime ==   \* mutant: simulationTime goes on
  /\ resets < MaxResets
  /\ drone' = NewDrone(config, drone.desiredDir)
  /\ missionComplete' = FALSE
  /\ targetLocked' = FALSE /\ lockedTargetIndex' = -1
  /\ returningFromManuver' = FALSE /\ maneuverTargetIndex' = -1
  /\ resets' = resets + 1
  /\ UNCHANGED <<config, ballistics, simulationTime, drops, changes>>

reset ==
  /\ resets < MaxResets
  /\ drone' = NewDrone(config, drone.desiredDir)
  /\ simulationTime' = 0 /\ missionComplete' = FALSE
  /\ targetLocked' = FALSE /\ lockedTargetIndex' = -1
  /\ returningFromManuver' = FALSE /\ maneuverTargetIndex' = -1
  /\ resets' = resets + 1
  /\ UNCHANGED <<config, ballistics, drops, changes>>

(* changeSolver(): the next step aims with another solution.               *)
changeSolver ==
  /\ changes < MaxSolverChanges
  /\ ballistics' \in config.others \cup {[flightTime |-> 0, horizontalDistance |-> 0]}
  /\ changes' = changes + 1
  /\ UNCHANGED <<config, drone, simulationTime, missionComplete, flags, drops, resets>>

Next == step \/ reset \/ changeSolver

Spec == Init /\ [][Next]_vars /\ WF_vars(step)
================================================================================
