SPECIFICATION Spec
CONSTANTS
  CoroutineCount = 2
  Null = Null
  Conn = {k1, k2, k3}
  MaxRequests = 0
  MaxCalls = 2
  Conduct = {"late_hangup", "early_hangup", "startup_failure", "unsent_call", "bailout"}
SYMMETRY Interchangeable
INVARIANTS ReferredIsHeld ContextExclusive
PROPERTIES ImplementsService
CHECK_DEADLOCK FALSE
