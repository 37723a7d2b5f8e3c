SPECIFICATION FairSpec
CONSTANTS
  Modes = {"live", "offline_macos", "offline_windows"}
  Options = {o1, o2}
  ArtifactCount = 3
  MaxVersions = 2
  MaxCrashes = 2
  MaxRows = 2
  Runner = p1
  None = None
  Torn = Torn
INVARIANTS
  RunTypeOK
  OneClosure
  FinalIsWhole
  RowsBeforeLedger
  OneRowAhead
  ReceiptSealsTree
  RowsOfOneUniverse
  RefusedForCause
  RowsRefusedOverResidue
PROPERTIES
  ReceiptOrCause
  ForeignRunIsInert
  SealedRunIsClosed
  LedgerNeverGoesBack
CHECK_DEADLOCK FALSE
