SPECIFICATION Spec
CONSTANTS
  a1 = a1  a2 = a2  u1 = u1  u2 = u2  p1 = p1  p2 = p2
  Addr = {a1}
  Uid = {u1, u2}
  Pwd = {p1, p2}
  Input <- SessionInput
  Body <- CommandBody
  AccountsFile <- OneAccount
  MaxAid = 1
  MaxCrash = 1
  DiskFails = TRUE
  TornInfo = TornInfo  TornBody = TornBody  NoFile = NoFile  NoFolder = NoFolder  NoNumber = NoNumber
  NoPwd = NoPwd  NoHandler = NoHandler  NULL = NULL  FREED = FREED
INVARIANTS TypeOK SessionShape EnteredLoadable ListingSafe
CHECK_DEADLOCK FALSE
