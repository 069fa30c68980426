SPECIFICATION Spec
CONSTANTS
  Grid <- SmallRooms
  ScanRadius = 1
  MaxSteps = 140
  InitialLinks <- ServiceLate
  MaxRestarts = 0
INVARIANTS
  OneStimulus
  ActsOnCurrentScan
  NoWastedCommands
PROPERTIES
  MissionSucceeds
\* the nodes wait for each other's messages once the mission has ended
CHECK_DEADLOCK FALSE
