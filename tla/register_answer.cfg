SPECIFICATION Spec
CONSTANTS
  a1 = a1  a2 = a2  u1 = u1  u2 = u2  p1 = p1  p2 = p2
  Addr = {a1}
  Uid = {u1}
  Pwd = {p1}
  NoPwd = NoPwd  Garbled = Garbled  NoUid = NoUid  NoConn = NoConn
  TIMEOUT = 0
  Input <- RegisterInput
  Articles = {"readable", "broken", "many"}
  MaxCommand = 2
  MaxDuplicate = 0
  MaxCrash = 0
PROPERTIES RegisterAnswered
CHECK_DEADLOCK FALSE
