SPECIFICATION Spec
CONSTANTS
  TrackFile = "all"
  Directory <- Tracks
  Samples <- AllSamples
  RepeatSequence = TRUE
  MaxTriggers = 2
  MaxInFlight = 2
INVARIANTS TypeOK HitsAreShots StaleViewsAreCorrected
PROPERTIES NextTrackFollows KeepsShooting
