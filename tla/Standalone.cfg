SPECIFICATION Spec
CONSTANTS
  Line = {x, y}
  NoLine = NoLine
  Batch <- MCBatch
  Capacities <- MCCapacities
  DefaultBufferSize = 4
  MaxTotal = 8
  HardDefaults <- MCHardDefaults
  FormDefaults <- MCFormDefaults
  TemplatesOf <- MCTemplatesOf
  TemplateSources = {}
  ConfiguredHidden <- MCConfiguredHidden
  FieldOptions <- MCFieldOptions
  Offers <- MCOffers
  UserRecords <- MCUserRecords
  Cwd = "home"
  Entries <- MCEntries
  IllTyped = "ill"
  Malformed = {"bad"}
  MaxForms = 2
  MaxTouched = 1
  MaxSubmits = 2
  InitialHosts <- MCInitialHosts
  Partition <- MCPartition
  InitialStates <- MCInitialStates
  InitialGroupBy = "none"
  MaxKeys = 2
  MaxTasks = 1
  MaxSize = 1
  Text = {"mix"}
  Objects <- MCObjects
  ChanCap = 1
  MaxSearches = 2
  Answers <- MCAnswers
  ClearAge = 0
  MaxLoops = 1
  MaxTicks = 1
  MaxNow = 1
INVARIANTS
  TypeOK
  RequestIsForm
  OneJobPerAnswer
  ShownIsComplete
  AlertsFollowChecks
PROPERTIES
  KeepsMostRecent
  ViewsSettle
  SearchIsShown
CHECK_DEADLOCK FALSE
