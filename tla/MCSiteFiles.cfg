SPECIFICATION Spec
CONSTANTS
  Requests = {r1, r2}
  Paths <- MCPaths
  Editable <- MCEditable
  Contents <- MCContents
  MaxOps = 3
  MaxFaults = 1
SYMMETRY Symmetry
PROPERTY OkMeansDone
PROPERTY ChangesOnlyAsked
PROPERTY BackupComplete
PROPERTY SavedIsFinal
CHECK_DEADLOCK FALSE
