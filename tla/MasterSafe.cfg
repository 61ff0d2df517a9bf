SPECIFICATION Spec
CONSTANTS
  Pid = {p1, p2, p3}
  Pm = "dynamic"
  MaxChildren = 3
  StartServers = 2
  MinSpare = 2
  MaxSpare = 2
  ProcessMax = 2
  MaxSpawnRate = 4
  MaxLoad = 2
  Conduct = {"TERM", "QUIT", "USR2", "crash", "leave", "request_timeout", "emergency"}
SYMMETRY Alike
INVARIANTS TypeOK SlotsOwned NoOrphans WithinLimits
PROPERTIES OnlyEscalates NoForkWhileStopping
CHECK_DEADLOCK FALSE
