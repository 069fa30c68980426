SPECIFICATION RoomSpec
CONSTANTS
  Columns = 3
  Rows = 3
  MaxContacts = 1
  StartCells <- MCStartCells
INVARIANTS
  PlanIsNearestFrontier
\* every cell of the room gets revealed in the end
CHECK_DEADLOCK FALSE
