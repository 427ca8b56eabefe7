SPECIFICATION Spec
CONSTANTS
  u1 = u1
  u2 = u2
  x1 = x1
  x2 = x2
  a1 = a1
  s1 = s1
  s2 = s2
  c1 = c1
  c2 = c2
  Users <- OneUser
  Services <- None
  ServicePrincipal = ServicePrincipal
  Agents <- OneAgent
  UnknownAgent = UnknownAgent
  SessionIds <- TwoSessions
  NoSession = NoSession
  NoRow = NoRow
  NoRequest = NoRequest
  Calls <- TwoCalls
  Ops = {"stream"}
  Memory = "backstage"
  Client = "better-sqlite3"
  RecursionLimit = 2
  MaxRestarts = 1
CONSTRAINT OneAtATime
INVARIANTS
  SystemPromptApplied
CHECK_DEADLOCK FALSE
