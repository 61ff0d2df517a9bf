SPECIFICATION Spec
CONSTANTS
  Worker = {w1, w2}
  Master = Master
  MaxServed = 2
  MaxDeaths = 1
  MaxRounds = 2
  MaxLoad = 2
  Conduct = {"terminate", "slowlog"}
SYMMETRY Alike
INVARIANTS TypeOK LocksKept RequestsCounted TracedOnce StageMeansWork
PROPERTIES SnapshotWhole
CHECK_DEADLOCK FALSE
