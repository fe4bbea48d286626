SPECIFICATION Spec
CONSTANTS
  u1 = u1  u2 = u2  u3 = u3  p1 = p1  p2 = p2
  Addr = {}
  Uid = {u1, u2, u3}
  Pwd = {p1, p2}
  NoPwd = NoPwd  Garbled = Garbled  SEP = SEP  PART = PART
  MaxWrite = 3
  MaxCrash = 1
SYMMETRY Symmetry
INVARIANTS PromisedEarlyStays
PROPERTIES ImplementsAccountManager
CHECK_DEADLOCK FALSE
