CONSTANTS
  Threads = {t1, t2}
  Slots = {1, 2, 3, 4}
  Types = {"output"}
  MaxCalls = 6
SPECIFICATION Spec
INVARIANTS NothingDangling
CHECK_DEADLOCK FALSE
