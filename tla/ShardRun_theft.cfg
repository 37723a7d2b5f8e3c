SPECIFICATION Spec
CONSTANTS
  ShardCount = 1
  Workers = {w1, w2}
  Sweepers = {s1}
  IncludeResume = {}
  Scorer = "resuming"
  Faults = {"sigterm", "checkpoint"}
  None = None
PROPERTIES
  ScorerKeepsClaim
