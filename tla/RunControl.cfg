SPECIFICATION Spec
CONSTANTS
  Nobody = Nobody
  Orchestrators = {o1, o2}
  Waves <- LoneWaves
  Configs = {"supervised", "custom"}
  Replayable = {"supervised"}
  MaxRequests = 2
  MaxWaves = 2
  MaxWidth = 1
  MaxSteps = 2
  MaxLaunches = 2
  MaxFaults = 1
  MaxChanges = 0
INVARIANTS UnsafeRunsOnce PauseStopsDispatch
PROPERTIES HardStopFailsClosed HaltStands
CHECK_DEADLOCK FALSE
