SPECIFICATION Spec
CONSTANTS
  base = base
  mid = mid
  loop = loop
  c1 = c1
  c2 = c2
  Plugin <- MCPlugin
  Requires <- MCRequires
  Configurable <- MCReconfigurable
  LifecycleAware <- MCReconfigurable
  Config <- MCConfig
  NoConfig = NoConfig
  MaxRestarts = 1
INVARIANTS
  CircularNeverRun
  RequirementsHeld
  ConfigAgrees
PROPERTIES
  StopInReverseOrder
  ShutdownEnds
