CONSTANTS
  PoolSize = 2
  NumParts = 4
  Threads = {t1, t2, t3}
SYMMETRY Symmetry
SPECIFICATION Spec
INVARIANTS SemaphoreExact RecordsTrue CompletedMeansWhole SentOnce
PROPERTIES ImplementsSliceTransfer
