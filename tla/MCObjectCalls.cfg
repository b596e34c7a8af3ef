CONSTANTS
  MaxRetryTimes = 1
  MaxSize = 6
  MaxVersion = 2
  OneRequest = 2
  PartSize = 1
  MaxParts = 6
  PoolSizes = {2, 3}
  MaxThreads = 2
  NumKeys = 3
  PageSize = 2
  MaxEntries = 3
  MaxElements = 2
  Topics <- SdkTopics
  Parts <- SdkParts
SPECIFICATION Spec
INVARIANTS CopyIsWhole EffectsExplained DeletionTrue PutReported DocumentsAgree
PROPERTIES Returns
