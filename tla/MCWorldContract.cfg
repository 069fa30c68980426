SPECIFICATION Spec
CONSTANTS
  Grid <- MCGrid
  ScanRadius = 1
  MaxSteps = 5
  Commands = {0, 1, 2, 3, 9}
  Reports <- MCReports
  MaxPendingMoves = 2
  MaxBadTriggers = 1
INVARIANTS
  TypeOK
  PublishedIsCurrent
  BudgetRespected
  SoundWorld
  SuccessIsEarned
PROPERTIES
  TerminalIsFinal
  QueueDrains
  ImplementsMission
