CONSTANTS
  PoolSize = 2
  NumParts = 2
  Threads = {t1, t2, t3}
SYMMETRY Symmetry
SPECIFICATION Spec
INVARIANT EveryPartListed
