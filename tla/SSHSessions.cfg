SPECIFICATION Spec
CONSTANTS
  Host = {h}
  Client = {c1, c2}
  Nobody = Nobody
  Cleaner = Cleaner
  MaxSeconds = 2
  MaxSessions = 2
  MaxProcesses = 1
  MaxRestarts = 1
SYMMETRY SameClients
INVARIANTS
  ClosedNotRestored
  HoldersWaitForSSH
  ProcessTracked
PROPERTIES
  StartsConnected
CHECK_DEADLOCK FALSE
