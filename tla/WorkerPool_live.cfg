SPECIFICATION FairSpec
CONSTANTS
  Workers = {w1, w2}
  Clients = {c1, c2}
  Tasks = {t1, t2}
  queue_capacity = 1
  Modes = {"forever", "timed"}
  CloseKinds = {"drop"}
  MaxSpurious = 0
  NoOne = NoOne
PROPERTIES EverySubmissionAnswered CloseReturns
CHECK_DEADLOCK FALSE
