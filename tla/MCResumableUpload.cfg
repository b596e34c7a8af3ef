SPECIFICATION FairSpec
CONSTANTS
  FileLength = 3
  PartSizes = {1, 2}
  Clients = {{"checkpoint"}, {"checkpoint", "legacy", "none"}}
  Threads = {"multi", "single"}
  MaxFaults = 2
  MaxIds = 4
INVARIANTS CompletedIsLocal RestartsBounded SingleStartsOver
PROPERTIES InstallsWhole EventuallyUploaded
