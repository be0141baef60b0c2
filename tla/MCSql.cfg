CONSTANTS
  c1 = c1  c2 = c2  c3 = c3  t1 = t1  t2 = t2  t3 = t3  t4 = t4  r1 = r1  r2 = r2  p1 = p1  none = none
  Clients <- MCClients
  Timed <- MCTimed
  Slots = {1}
  max_connections = 1
  MaxCalls = 2
  MaxSpurious = 1
  Procs = {"a", "b", "c", "d"}
  Versions = {1, 2, 3}
  Directories <- MCDirectories
  LastVersion = 4
  NoProc = "none"
  MaxMigrations = 3
SPECIFICATION SuiteSpec
INVARIANTS Accounting NoWakeupLost SessionsSound  
PROPERTIES NoLeaseAfterClose WaiterAnswered
CHECK_DEADLOCK FALSE
