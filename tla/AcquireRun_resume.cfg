SPECIFICATION Spec
CONSTANTS
  Modes = {"live"}
  Options = {o1}
  ArtifactCount = 2
  MaxVersions = 0
  MaxCrashes = 1
  MaxRows = 1
  Runner = p1
  None = None
  Torn = Torn
INVARIANTS
  RowCheckpointResumable
CHECK_DEADLOCK FALSE
