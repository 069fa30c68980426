SPECIFICATION Spec
CONSTANTS
  Readings <- MCReadings
  MaxReadings = 5
INVARIANT PoseIsTrue
CHECK_DEADLOCK FALSE
