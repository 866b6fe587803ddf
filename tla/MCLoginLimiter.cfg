SPECIFICATION Spec
CONSTANTS
  c1 = c1
  c2 = c2
  c3 = c3
  Clients <- ThreeClients
  MaxFail = 3
  Window = 2
  Horizon = 7
  MaxHistory = 8
SYMMETRY Symmetry
INVARIANT GuessesBounded
INVARIANT BlockHolds
INVARIANT BlockedForCause
CHECK_DEADLOCK FALSE
