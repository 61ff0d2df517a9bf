SPECIFICATION Spec
CONSTANTS
  CoroutineCount = 1
  Null = Null
  Conn = {k1, k2}
  MaxRequests = 0
  MaxCalls = 1
  Conduct = {"split_body"}
INVARIANTS AnswersAreOwn
