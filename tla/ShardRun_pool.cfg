SPECIFICATION Spec
CONSTANTS
  ShardCount = 2
  Workers = {w1, w2, w3}
  Sweepers = {}
  IncludeResume = {}
  Scorer = "recordsOnly"
  Faults = {"kill", "raise", "pause", "window"}
  None = None
SYMMETRY WorkerSymmetry
INVARIANTS
  TypeOK
  ClaimNamesScorer
  ClaimedIsSweepable
  NothingStranded
