SPECIFICATION Spec
CONSTANTS
  Parts = {"feed"}
  Rotates = TRUE
  MaxInits = 2
  Query = {q1, q2}
  MaxDataPoints = 2
  Retention = 2
  SaveEvery = 2
  MaxNow = 4
  MaxCollections = 3
  Limit = 2
  MaxSubs = 2
  MaxFlights = 2
  MaxManagers = 2
PROPERTIES
  SubscriptionsSurvive
CHECK_DEADLOCK FALSE
