SPECIFICATION MCSpec
CONSTANTS
  NumSlices = 3
  Windows = {2}
  MaxFaults = 2
  MaxRetryTimes = 1
  Length = 1
INVARIANT CompletedIsObject
