SPECIFICATION Spec
CONSTANTS
  a = a
  b = b
  r1 = r1
  r2 = r2
  entity = entity
  org = org
  invalid = invalid
  health = health
  Callers <- TwoCallers
  Requests <- TwoRequests
  EntityUrls <- NoUrls
  CostUrls <- NoUrls
  InvalidUrls <- Invalid
  HealthUrls <- NoUrls
  CacheEnabled = TRUE
  None = None
INVARIANTS
  InvalidProjectsRejected
CHECK_DEADLOCK FALSE
