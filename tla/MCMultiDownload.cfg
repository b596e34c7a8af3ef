CONSTANTS
  PoolSize = 2
  NumSlices = 4
  Threads = {t1, t2, t3}
SPECIFICATION FairSpec
INVARIANTS DataIntact CompletedMeansWhole NoWorkerAtReturn
PROPERTIES ImplementsSliceTransfer Terminates
