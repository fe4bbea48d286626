SPECIFICATION AddSpec
CONSTANTS
  a1 = a1  a2 = a2  u1 = u1  u2 = u2  p1 = p1
  Addr = {a1, a2}
  Uid = {u1, u2}
  Pwd = {p1}
  Input <- TwoInput
  Body <- TwoText
  Keys <- TwoKeys
  BACKSPACE = BACKSPACE
  AccountsFile <- Account
  MaxAid = 2
  MaxCommand = 6
  MaxCrash = 0
  DiskFails = FALSE
  TornInfo = TornInfo  TornBody = TornBody  NoFile = NoFile  NoFolder = NoFolder  NoNumber = NoNumber
  NoPwd = NoPwd  NoHandler = NoHandler  NULL = NULL  FREED = FREED
INVARIANT EditedIsStored
CONSTRAINT InSequence
CHECK_DEADLOCK FALSE
SYMMETRY Alike
