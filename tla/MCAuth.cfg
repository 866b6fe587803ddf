SPECIFICATION Spec
CONSTANTS
  c1 = c1
  c2 = c2
  t1 = t1
  t2 = t2
  boot = boot
  pw1 = pw1
  NoUser = NoUser
  Clients <- TwoClients
  Tokens <- TwoTokens
  Passwords <- TwoPasswords
  Bootstrap = boot
  TTL = 1
  Horizon = 2
  MaxSaveFails = 2
  MaxRestarts = 1
SYMMETRY Symmetry
INVARIANT LogoutIsFinal
INVARIANT TokenDurable
INVARIANT PasswordStands
INVARIANT AdminOnFile
CHECK_DEADLOCK FALSE
