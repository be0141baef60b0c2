SPECIFICATION Spec
CONSTANTS
  Workers = {w1, w2}
  Clients = {c1, c2}
  Tasks = {t1, t2, t3}
  queue_capacity = 1
  Modes = {"timed"}
  CloseKinds = {"close", "drop", "abort"}
  MaxSpurious = 1
  NoOne = NoOne
SYMMETRY Symmetry
INVARIANTS NoTaskStranded PoolSound
PROPERTIES AnsweredOnce ImplementsService
CHECK_DEADLOCK FALSE
