SPECIFICATION Spec
CONSTANTS
  a1 = a1  a2 = a2  u1 = u1  u2 = u2  p1 = p1  p2 = p2
  Addr = {a1}
  Uid = {u1, u2}
  Pwd = {p1, p2}
  Input <- RegisterInput
  Body <- ShortBody
  AccountsFile <- OneAccount
  MaxAid = 0
  MaxCrash = 1
  DiskFails = FALSE
  TornInfo = TornInfo  TornBody = TornBody  NoFile = NoFile  NoFolder = NoFolder  NoNumber = NoNumber
  NoPwd = NoPwd  NoHandler = NoHandler  NULL = NULL  FREED = FREED
INVARIANTS RegistrationStored
CHECK_DEADLOCK FALSE
