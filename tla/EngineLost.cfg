SPECIFICATION FairSpec
CONSTANTS
  CoroutineCount = 1
  Null = Null
  Conn = {k1}
  MaxRequests = 0
  MaxCalls = 1
  Conduct = {"early_hangup"}
PROPERTIES AbortedReturns
