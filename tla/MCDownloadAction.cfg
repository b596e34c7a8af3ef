CONSTANTS
  MaxRetryTimes = 2
  MaxChunks = 2
  MaxVersion = 2
SPECIFICATION Spec
INVARIANTS SuccessIsOneVersion SuccessShowsAll LastResort
