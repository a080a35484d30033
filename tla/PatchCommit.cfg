SPECIFICATION Spec
CONSTANTS
  Clients = {"s1", "s2", "op"}
  Sessions = {"s1", "s2"}
  Patches <- SmallPatches
  Answers <- SmallAnswers
  Operations <- SmallOperations
  Artifact <- SmallArtifact
  Artifacts = {"x"}
  NoArtifact = "none"
  Rows = {"i", "c", "x"}
  Statuses = {"verified", "challenged", "none"}
  Requests = {"q"}
  Nobody = "nobody"
  Untouched = "untouched"
  Interrupted = {"s1", "s2", "op"}
  MaxRetries = 2
  MaxPolicy = 1
INVARIANTS TypeOK AnsweredTruthfully
PROPERTIES SerialHistory OldRecordsSurvive
CHECK_DEADLOCK FALSE
