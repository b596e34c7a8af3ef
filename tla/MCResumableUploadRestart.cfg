SPECIFICATION Spec
CONSTANTS
  FileLength = 3
  PartSizes = {1, 2}
  Clients = {{"checkpoint"}}
  Threads = {"multi", "single"}
  MaxFaults = 2
  MaxIds = 3
INVARIANT MultiStartsOver
