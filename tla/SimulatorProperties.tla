-------------------------- MODULE SimulatorProperties --------------------------
(***************************************************************************)
(* What a simulated mission has to keep.                                   *)
(***************************************************************************)
EXTENDS MissionProcessor

Targets == DOMAIN config.targets

(* The targets do not move. *)
AtRest == \A i \in Targets : \A s, t \in DOMAIN config.targets[i] :
             config.targets[i][s] = config.targets[i][t]

(* Every variable has its type; speed and turn fit the state of the drone  *)
(* (src/states/*.cpp).                                                     *)
TypeOK ==
  /\ ballistics \in BallisticsResult
  /\ drone \in Drone /\ drone.currentTargetIndex \in Targets \cup {-1}
  /\ drone.state = "Moving" => drone.currentSpeed = attackSpeed
  /\ drone.state \in {"Stopped", "Turning"} => drone.currentSpeed = 0
  /\ drone.state = "Turning" <=> drone.turnRemainingTime > 0
  /\ drone.state = "Turning" => drone.turnTargetDir # drone.currentDir
  /\ simulationTime \in 0 .. timeSteps * arrayTimeStep - 1
  /\ missionComplete \in BOOLEAN /\ targetLocked \in BOOLEAN /\ returningFromManuver \in BOOLEAN
  /\ lockedTargetIndex \in Targets \cup {-1} /\ maneuverTargetIndex \in Targets \cup {-1}

(* The flags agree: a locked target is the current one, and a manoeuvre is *)
(* only flown for a target that is locked (MissionProcessor.cpp:175-217).  *)
FlagsAgree ==
  /\ targetLocked <=> lockedTargetIndex # -1
  /\ targetLocked => drone.currentTargetIndex = lockedTargetIndex
  /\ maneuverTargetIndex \in {-1, lockedTargetIndex}

(* Until the drop, or a reset, a locked target is kept, and the drop is on *)
(* it (MissionProcessor.cpp:149-167, 254-273).                             *)
LockIsKept ==
  [][targetLocked /\ resets' = resets =>
       /\ drone'.currentTargetIndex = lockedTargetIndex
       /\ targetLocked' => lockedTargetIndex' = lockedTargetIndex
       /\ ~ targetLocked' => missionComplete' /\ Len(drops') = Len(drops) + 1]_vars

(* A drop is made at full speed from the distance the solver asked for, up *)
(* to hitRadius (MissionProcessor.cpp:254-255, TargetAnalyzer.cpp:203-227).*)
DropsInRange ==
  \A k \in 1 .. Len(drops) :
    /\ drops[k].speed = attackSpeed
    /\ drops[k].excess \in - config.hitRadius .. config.hitRadius

(* Unless the solver was changed on the way, a drone in level flight drops *)
(* on a target at rest what comes down within hitRadius of it              *)
(* (StateMoving.cpp:24-54, MissionProcessor.cpp:177-213).                  *)
LevelDropsHit ==
  [][drops' # drops /\ drone.state = "Moving" /\ changes = 0 /\ AtRest
       => drops'[Len(drops')].miss <= config.hitRadius]_vars

(* A mission flown again after reset() drops the same at the same place    *)
(* (MissionProcessor.cpp:279-303).                                         *)
SameAgain == changes = 0 => \A k \in 1 .. Len(drops) : drops[k] = drops[1]

-------------------------------------------------------------------------------
(* With targets at rest the loop of main ends, with a drop                 *)
(* (main.cpp:27-29, MissionProcessor.cpp:254-273).                         *)
MissionEnds == AtRest => <>[]missionComplete
================================================================================
