SPECIFICATION Spec
CONSTANTS
  p1 = p1
  p2 = p2
  Procs <- TwoProcs
  Sizes <- MCSizes
  MaxSnapshots = 3
  MaxFails = 0
  MaxRestarts = 1
  MaxCopies = 2
PROPERTY RestoreSurvivesRestart
CHECK_DEADLOCK FALSE
