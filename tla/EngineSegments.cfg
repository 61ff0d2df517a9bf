SPECIFICATION FairSpec
CONSTANTS
  CoroutineCount = 1
  Null = Null
  Conn = {k1, k2, k3}
  MaxRequests = 2
  MaxCalls = 0
  Conduct = {"late_hangup", "split_body", "split_params"}
INVARIANTS HeldIsReferred
PROPERTIES LeavesAtLimit
CHECK_DEADLOCK FALSE
