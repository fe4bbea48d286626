SPECIFICATION Spec
CONSTANTS
  a1 = a1  a2 = a2  u1 = u1  u2 = u2  p1 = p1  p2 = p2
  Addr = {a1, a2}
  Uid = {u1, u2}
  Pwd = {p1, p2}
  Input <- BoardInput
  Body <- ShortBody
  AccountsFile <- TwoAccounts
  MaxAid = 1
  MaxCrash = 0
  DiskFails = TRUE
  TornInfo = TornInfo  TornBody = TornBody  NoFile = NoFile  NoFolder = NoFolder  NoNumber = NoNumber
  NoPwd = NoPwd  NoHandler = NoHandler  NULL = NULL  FREED = FREED
SYMMETRY Symmetry
INVARIANTS BlackStored
CHECK_DEADLOCK FALSE
