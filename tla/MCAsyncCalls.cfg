CONSTANTS
  cn = cn
  tencentcos = tencentcos
  own = own
  Keys <- MCKeys
  Backup <- MCBackup
  MaxEntries = 2
  Callers = {c1, c2}
  Addresses = {a1, a2}
  Expire = 0
  MaxTime = 2
  MaxMoves = 1
  MaxRetryTimes = 1
  AsyncPoolSizes = {1, 2}
  MultiPart = {c2}
SPECIFICATION MCSpec
INVARIANTS AddressRecentlyTrue
PROPERTIES ImplementsRecencyMap RoomLearns
