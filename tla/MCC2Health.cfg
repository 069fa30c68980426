SPECIFICATION Spec
CONSTANTS
  PilotModes = {"Manual", "Guided", "Other"}
  Waypoints = {w1}
  MaxHeartbeats = 1
  MaxDatagrams = 1
  MaxMalformed = 1
INVARIANT HealthyMeansConnected
