SPECIFICATION AddSpec
CONSTANTS
  a1 = a1  a2 = a2  u1 = u1  u2 = u2  p1 = p1
  Addr = {a1}
  Uid = {u1}
  Pwd = {p1}
  Input <- UserInput
  Body <- AnyText
  Keys <- FewKeys
  BACKSPACE = BACKSPACE
  AccountsFile <- Account
  MaxAid = 1
  MaxCommand = 4
  MaxCrash = 1
  DiskFails = FALSE
  TornInfo = TornInfo  TornBody = TornBody  NoFile = NoFile  NoFolder = NoFolder  NoNumber = NoNumber
  NoPwd = NoPwd  NoHandler = NoHandler  NULL = NULL  FREED = FREED
INVARIANTS EditedIsStored EditedNotExecuted
CHECK_DEADLOCK FALSE
