SPECIFICATION OperatedSpec
CONSTANTS
  ShardCount = 2
  Workers = {w1, w2}
  Sweepers = {s1}
  IncludeResume = {}
  Scorer = "resuming"
  Faults = {"kill", "sweepkill"}
  None = None
INVARIANTS
  ExclusiveScoring
PROPERTIES
  WorkersTerminate
  RunDrains
  StaleClaimReleased
