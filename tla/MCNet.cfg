CONSTANTS
  c1 = c1  c2 = c2  t1 = t1  t2 = t2  hdr1 = hdr1  hdr2 = hdr2  v1 = v1  v2 = v2  none = none
  MaxConns = 2
  Settings <- MCSettings
  MaxPanics = 1
  None = none
  Calls = {c1, c2}
  Requests <- MCRequests
  MaxActors = 2
  H3Capacity = 1
  H2Capacity = 1
  NoActor = none
  Senders = {t1, t2}
  Hdrs = {hdr1, hdr2}
  Colls = {1, 2, 3}
  MaxHeaders = 2
  MaxBody = 2
  MaxMessages = 4
  Absent = none
  Askers = {t1, t2}
  Issuers = {"A"}
  Sessions = {1}
  CacheTtl = 2
  FetchLimit = 1
  LastKey = 1
  MaxTime = 3
  MaxAsked = 3
  MayConfigure = FALSE
  Threads = {t1, t2}
  Values = {v1, v2}
  Sockets = {1, 2}
  SocketKinds = {"tcp", "udp", "local", "tcplistener", "locallistener"}
  MaxCalls = 3
  MaxDatagram = 2
SPECIFICATION SuiteSpec
INVARIANTS ServerSound   SentOnce SentAsSet
           SocketsSound AcceptedKeyRecent
PROPERTIES CancelledNeverStarts
CHECK_DEADLOCK FALSE
