SPECIFICATION MCSpec
CONSTANTS
  Primary = primary
  Companions = {companion}
  Sidecar = sidecar
  Sizes = {1, 2}
  Limit = 2
  CancelOnFailure = TRUE
INVARIANT AccountedFor
PROPERTIES TripStopsAll HardStopStopsWave
CHECK_DEADLOCK FALSE
