SPECIFICATION Spec
CONSTANTS
  c1 = c1
  c2 = c2
  bad = bad
  Confs <- MCConfs
  BadConfs <- MCBad
  Absent = Absent
  Admin = Admin
  MaxFails = 2
  MaxCrashes = 1
  MaxOps = 3
INVARIANT RollbackRestores
INVARIANT SuccessServed
PROPERTY UserIndexKept
