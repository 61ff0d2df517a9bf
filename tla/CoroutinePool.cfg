SPECIFICATION Spec
CONSTANTS
  Context = {c1, c2, c3, c4}
  Null = Null
INVARIANTS TypeOK ListIntegrity ListenerMatchesPool
PROPERTIES TakeIsFresh ImplementsFifo
