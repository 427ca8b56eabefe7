SPECIFICATION Spec
CONSTANTS
  a = a
  b = b
  r1 = r1
  r2 = r2
  entity = entity
  org = org
  invalid = invalid
  health = health
  Callers <- TwoCallers
  Requests <- TwoRequests
  EntityUrls <- Entity
  CostUrls <- NoUrls
  InvalidUrls <- NoUrls
  HealthUrls <- NoUrls
  CacheEnabled = TRUE
  None = None
INVARIANTS
  EntityCostsNeedEntity
CHECK_DEADLOCK FALSE
