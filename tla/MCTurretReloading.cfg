SPECIFICATION Spec
CONSTANTS
  TrackFile = "approach_trigger"
  Directory <- Tracks
  Samples <- ApproachSamples
  RepeatSequence = TRUE
  MaxTriggers = 2
  MaxInFlight = 1
PROPERTY NoRequestWhileReloading
