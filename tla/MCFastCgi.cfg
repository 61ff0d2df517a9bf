SPECIFICATION Spec
CONSTANTS
  BufSize = 8192
  Requests <- MCRequests
  Lens <- MCLens
  MaxWrites = 3
  SplitWrites = 1
  Blocks = {3, 16}
  Accepts = {0, 4, 20}
  Conduct = {"split", "slow_client", "finish_early"}
INVARIANTS TypeOK NothingLost NeverOverflows BodyInOrder TornIsNotKept
PROPERTIES ImplementsStream
CHECK_DEADLOCK FALSE
