SPECIFICATION Spec
CONSTANTS
  ViewOrder <- MCViewOrder
  Clusters = {"home", "other", "down"}
  Reachable = {"home", "other"}
  Home = "home"
  MaxTimers = 2
  MaxKeys = 3
  MaxFaults = 1
  MaxTasks = 1
INVARIANTS
  RefreshSafe
CHECK_DEADLOCK FALSE
