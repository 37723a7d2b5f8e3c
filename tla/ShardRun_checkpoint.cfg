SPECIFICATION Spec
CONSTANTS
  ShardCount = 2
  Workers = {w1, w2, w3}
  Sweepers = {}
  IncludeResume = {}
  Scorer = "rewriting"
  Faults = {"kill", "sigterm", "checkpoint"}
  None = None
SYMMETRY WorkerSymmetry
INVARIANTS
  ClaimedHasWorker
  LiveWorkerKeepsShard
  DoneMatchesCache
PROPERTIES
  ImplementsLease
