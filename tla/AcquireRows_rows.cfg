SPECIFICATION Spec
CONSTANTS
  Publishers = {p1, p2}
  MaxRows = 3
  MaxCrashes = 3
  Modes = {"live", "offline_macos", "offline_windows"}
  None = None
  Torn = Torn
SYMMETRY PublisherSymmetry
PROPERTIES
  RefusedOverResidue
CHECK_DEADLOCK FALSE
