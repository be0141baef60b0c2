CONSTANTS
  t1 = t1  t2 = t2  t3 = t3  c1 = c1  c2 = c2  None = None
  Threads = {t1, t2}
  ChanCount = 2
  Unbounded = {2}
  capacity = 1
  Msgs = {m1, m2}
  Calls = {"send", "try_send", "send_timeout", "send_cancelled",
           "recv", "try_recv", "recv_timeout", "recv_cancelled", "select", "close", "cancel"}
  MaxCalls = 4
  Callers = {c1, c2}
  Ids = {t1, t2}
  MaxOwned = 1
  NoOne = None
  Sharers = {t1, t2, t3}
  Kinds = {"semaphore", "once", "barrier", "cancellation", "atomic"}
  MaxPermits = 2
  Size = 2
  Modulus = 4
  MaxNames = 3
  Lockers = {t1, t2, t3}
  LockKinds = {"mutex", "rwlock"}
  NoThread = None
  MaxDepth = 2
  Keys = {"a", "b", "c"}
  Values = {1, 2}
  Hash <- MCHash
SPECIFICATION SuiteSpec
INVARIANTS ChannelTruthful ThreadsSound GatesSound LocksSound CountsExact IndicesLive
PROPERTIES SelectInOrder ImplementsOrder CallsReturn
CHECK_DEADLOCK FALSE
