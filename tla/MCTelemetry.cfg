SPECIFICATION Spec
CONSTANTS
  Lines <- MCLines
  NaN = NaN
  INT_SPAN = 64
  MAX_FRAMES = 3
  MaxLines = 5
INVARIANTS FramesFollowOn 
CHECK_DEADLOCK FALSE
