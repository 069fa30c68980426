SPECIFICATION Spec
CONSTANTS
  attackSpeed = 12
  accelPath = 36
  HalfTurn = 942
  SwitchPrevention = 300
  timeSteps = 3
  arrayTimeStep = 4
  Configs <- MCConfigs
  Files <- MCFiles
  Queries <- MCQueries
  Garbage <- MCGarbage
  MaxResets = 1
  MaxSolverChanges = 1
INVARIANTS TypeOK FlagsAgree DropsInRange SameAgain AimsByTheTable
PROPERTIES LockIsKept LevelDropsHit MissionEnds
CHECK_DEADLOCK FALSE
