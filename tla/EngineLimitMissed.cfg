SPECIFICATION FairSpec
CONSTANTS
  CoroutineCount = 1
  Null = Null
  Conn = {k1, k2}
  MaxRequests = 1
  MaxCalls = 1
  Conduct = {}
PROPERTIES LeavesAtLimit
