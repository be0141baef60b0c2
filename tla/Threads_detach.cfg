SPECIFICATION ThreadFairSpec
CONSTANTS
  Callers = {c1}
  Ids = {t1, t2}
  MaxOwned = 1
  NoOne = None
CHECK_DEADLOCK FALSE
PROPERTY DetachedResultReleased
