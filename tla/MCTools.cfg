CONSTANTS
  t1 = t1  t2 = t2  w1 = w1  w2 = w2  c1 = c1  c2 = c2  c3 = c3  Nobody = Nobody
  Workers = {w1, w2}
  Submitters = {c1, c2, c3}
  queue_capacity = 1
SPECIFICATION SuiteSpec
INVARIANTS  BytesExact ProcessesSettled   PatchAtomic
CHECK_DEADLOCK FALSE
