SPECIFICATION FairSpec
CONSTANTS
  ViewOrder <- MCViewOrder
  Clusters = {"home", "other", "down"}
  Reachable = {"home", "other"}
  Home = "home"
  MaxTimers = 2
  MaxKeys = 3
  MaxFaults = 1
  MaxTasks = 1
INVARIANTS
  OneTimer
  ClientsAgree
PROPERTIES
  FollowsCluster
CHECK_DEADLOCK FALSE
