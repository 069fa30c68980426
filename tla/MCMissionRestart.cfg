SPECIFICATION Spec
CONSTANTS
  Grid <- Pocket
  ScanRadius = 1
  MaxSteps = 10
  InitialLinks <- NoLinks
  MaxRestarts = 1
INVARIANTS
  NoSilentStall
  MapIsTrue
  ReportsAreHonest
PROPERTIES
  ImplementsMission
  MissionEnds
\* the nodes wait for each other's messages once the mission has ended
CHECK_DEADLOCK FALSE
