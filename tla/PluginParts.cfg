SPECIFICATION Spec
CONSTANTS
  Parts = {"plugin", "history", "feed"}
  Rotates = TRUE
  MaxInits = 2
  Query = {q1, q2}
  MaxDataPoints = 2
  Retention = 2
  SaveEvery = 2
  MaxNow = 4
  MaxCollections = 3
  Limit = 2
  MaxSubs = 2
  MaxFlights = 2
  MaxManagers = 3
INVARIANTS
  TypeOK
  OneCollection
  StoppedIsSaved
  RestoredOnce
  SavedIsKept
PROPERTIES
  StoppedEnds
  DueIsServed
CHECK_DEADLOCK FALSE
