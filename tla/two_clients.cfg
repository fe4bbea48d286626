SPECIFICATION Spec
CONSTANTS
  a1 = a1  a2 = a2  u1 = u1  u2 = u2  p1 = p1  p2 = p2
  Addr = {a1, a2}
  Uid = {u1}
  Pwd = {p1}
  NoPwd = NoPwd  Garbled = Garbled  NoUid = NoUid  NoConn = NoConn
  TIMEOUT = 0
  Input <- SessionInput
  Articles = {"readable", "broken", "many"}
  MaxCommand = 1
  MaxDuplicate = 1
  MaxCrash = 0
SYMMETRY Symmetry
INVARIANTS OneOutstanding
PROPERTIES ImplementsStopAndWait
CHECK_DEADLOCK FALSE
