SPECIFICATION Spec
CONSTANTS
  Caller = {r1, r2, r3}
  Observer = {o1, o2}
  MaxRequests = 2
  Threshold = 2
  HasInterval = TRUE
  MaxGeneration = 4
  MaxCounted = 3
  NoRequest = NoRequest
INVARIANTS
  CountsBalance
PROPERTIES
  KeepsPromise
  ProbesDecide
CHECK_DEADLOCK FALSE
