SPECIFICATION Spec
CONSTANTS
  out = out
  err = err
  file = file
  Key <- MCKey
  Path <- MCPath
  PathOf <- MCPathOf
  Elsewhere <- MCElsewhere
  HasExecutor = FALSE
  MaxSize = 2
  MaxStreams = 2
  MaxChans = 1
  MaxCleanups = 1
  ChanCap = 0
PROPERTIES
  EventuallyRead
  SubscribersReleased
CHECK_DEADLOCK FALSE
