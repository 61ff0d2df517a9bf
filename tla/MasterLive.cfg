SPECIFICATION FairSpec
CONSTANTS
  Pid = {p1, p2}
  Pm = "ondemand"
  MaxChildren = 2
  StartServers = 0
  MinSpare = 0
  MaxSpare = 0
  ProcessMax = 0
  MaxSpawnRate = 4
  MaxLoad = 1
  Conduct = {"TERM", "USR2", "fork_failure"}
INVARIANTS SlotsOwned
PROPERTIES DeadAreBuried TerminateStops
CHECK_DEADLOCK FALSE
