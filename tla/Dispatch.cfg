SPECIFICATION FairSpec
CONSTANTS
  Nobody = Nobody
  Orchestrators = {o1}
  Waves <- VerifierWaves
  Configs = {"supervised"}
  Replayable = {"supervised"}
  MaxRequests = 0
  MaxWaves = 2
  MaxWidth = 2
  MaxSteps = 1
  MaxLaunches = 2
  MaxFaults = 1
  MaxChanges = 1
INVARIANTS OnlyLatestUnresolved TruthfulTelemetry
PROPERTIES CriticalFirst LedgerKept NoBarrierDeadlock
CHECK_DEADLOCK FALSE
