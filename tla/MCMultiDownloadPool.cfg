CONSTANTS
  PoolSize = 2
  NumSlices = 4
  Threads = {t1, t2, t3}
SPECIFICATION Spec
INVARIANT PoolNeverExhausted
