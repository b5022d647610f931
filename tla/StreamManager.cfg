SPECIFICATION Spec
CONSTANTS
  out = out
  err = err
  file = file
  Key <- MCKey
  Path <- MCPath
  PathOf <- MCPathOf
  Elsewhere <- MCElsewhere
  HasExecutor = TRUE
  MaxSize = 2
  MaxStreams = 2
  MaxChans = 1
  MaxCleanups = 1
  ChanCap = 2
INVARIANTS
  TypeOK
  SubscribedIsOpen
  BufferContiguous
  OutputInOrder
  StoppedIsCleanedUp
  ClosedStopsLocal
CHECK_DEADLOCK FALSE
