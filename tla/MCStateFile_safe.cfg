SPECIFICATION Spec
CONSTANTS
  p1 = p1
  p2 = p2
  Procs <- TwoProcs
  Sizes <- MCSizes
  MaxSnapshots = 3
  MaxFails = 1
  MaxRestarts = 1
  MaxCopies = 2
SYMMETRY Symmetry
INVARIANT StateFileDecodes
INVARIANT AckedDurable
PROPERTY ImplementsAtomicStore
CHECK_DEADLOCK FALSE
