SPECIFICATION EnginesSpec
CONSTANTS
  web = web
  db = db
  N = 3
  Limit = 2
  Names <- TwoNames
  Unnamed = Unnamed
  Records <- FourRecords
  Absent = Absent
  NoResponse = NoResponse
  NoEntity = NoEntity
  HashEntityNames = FALSE
  MaxChanges = 2
  Workspace <- MCWorkspace
  MaxAttempts = 4
  None = None
INVARIANTS
  TypeOK
  ResourcesAreListed
  EntitiesAreCurrent
  DoneIsDone
  AttemptsDoNotMeet
PROPERTIES
  RoundsEnd
CHECK_DEADLOCK FALSE
