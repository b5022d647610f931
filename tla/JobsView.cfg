SPECIFICATION FairSpec
CONSTANTS
  InitialQueue <- MCInitialQueue
  Outcome = {"COMPLETED"}
  Text = {"", "PENDING"}
  MaxJobs = 3
  MaxKeys = 3
  MaxTasks = 1
  MaxEvents = 1
  MaxSize = 1
PROPERTIES
  SelectionFollowsJobs
  ViewConverges
CHECK_DEADLOCK FALSE
