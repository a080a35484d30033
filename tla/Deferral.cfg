CONSTANTS
  Candidates = {"a", "b", "c", "d"}
  Limit = 2
  MaxCount = 5
SPECIFICATION MCSpec
INVARIANTS
  BoundedWait
  OverdueFirst
PROPERTY NoStarvation
