SPECIFICATION MCFairSpec
CONSTANTS
  NumSlices = 3
  Windows = {1, 2}
  MaxFaults = 3
  MaxRetryTimes = 2
  Length = 3
INVARIANTS FreshIsObject RedoneIsObject CompletedInOrder RedoExplained AttemptsSendAll
PROPERTIES DownloadEnds CancelIsFinal CancelPrevails
