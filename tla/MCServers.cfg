CONSTANTS
  s1 = s1  s2 = s2  s3 = s3  u1 = u1  t1 = t1  t2 = t2  p1 = p1  p2 = p2  none = none
  Users = {u1}
  Server = server
  Nobody = nobody
  QueueCapacity = 1
  MaxCalls = 2
  MaxBeats = 1
SPECIFICATION SuiteSpec
INVARIANTS StreamSound ServersSound
PROPERTIES QuietAfterClose CallsEnd
CHECK_DEADLOCK FALSE
