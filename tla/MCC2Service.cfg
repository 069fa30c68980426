SPECIFICATION Spec
CONSTANTS
  PilotModes = {"Manual", "Guided"}
  Waypoints = {w1, w2}
  MaxHeartbeats = 1
  MaxDatagrams = 1
  MaxMalformed = 1
INVARIANTS TypeOK OneHoldPerStay ForwardsOnWhatWasSeen TakesOverAtMostOnce
PROPERTIES FollowsThePilot CurrentWaypointReached
