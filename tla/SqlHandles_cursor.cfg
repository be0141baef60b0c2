SPECIFICATION Spec
CONSTANTS
  Conns = {c1}
  Txs = {t1, t2, t3, t4}
  Sets = {r1, r2}
  Preps = {p1}
  None = None
CHECK_DEADLOCK FALSE
INVARIANT
  CursorExclusive
