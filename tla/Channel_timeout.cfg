SPECIFICATION FairSpec
CONSTANTS
  Threads = {t1, t2}
  ChanCount = 2
  Unbounded = {2}
  capacity = 1
  Msgs = {m1, m2}
  Calls = {"send", "recv", "select"}
  MaxCalls = 2
  None = None
CHECK_DEADLOCK FALSE
PROPERTY SelectBounded
