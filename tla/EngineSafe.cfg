SPECIFICATION FairSpec
CONSTANTS
  CoroutineCount = 2
  Null = Null
  Conn = {k1, k2, k3}
  MaxRequests = 0
  MaxCalls = 2
  Conduct = {"late_hangup"}
INVARIANTS TypeOK HeldIsReferred AnswersAreOwn AcceptHasContext
PROPERTIES ClosedWhenAnswered PoolProtocol SuspendedReturns ListenerResumes
