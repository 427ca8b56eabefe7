SPECIFICATION CostSpec
CONSTANTS
  a = a
  b = b
  r1 = r1
  r2 = r2
  entity = entity
  org = org
  invalid = invalid
  health = health
  Callers <- TwoCallers
  Requests <- TwoRequests
  EntityUrls <- Entity
  CostUrls <- Org
  InvalidUrls <- Invalid
  HealthUrls <- Health
  CacheEnabled = TRUE
  None = None
  Months <- MCMonths
  Presets = {2, 3}
  Counts = {1, 2, 3}
  Shifts = {0, 1}
  Rows <- MCRows
  Bills <- MCBills
  Groupings <- MCGroupings
  Entities <- MCEntities
  Accounts = {"111", "222", "333"}
  PageSize = 4
  Nothing = Nothing
INVARIANTS
  TypeOK
  CostsOnlyIfAllowed
  DenialsAreOwn
  AnswersItsUrl
  ComputedCostsNeedEntity
  RepliesAreWhole
  FiguresAgree
PROPERTIES
  RequestsAreAnswered
CHECK_DEADLOCK FALSE
