SPECIFICATION FairSpec
CONSTANTS
  Pid = {p1, p2}
  Pm = "static"
  MaxChildren = 1
  StartServers = 0
  MinSpare = 0
  MaxSpare = 0
  ProcessMax = 0
  MaxSpawnRate = 4
  MaxLoad = 0
  Conduct = {"USR2"}
PROPERTIES ReloadCompletes
CHECK_DEADLOCK FALSE
