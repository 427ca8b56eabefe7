SPECIFICATION FairSpec
CONSTANTS
  u1 = u1
  u2 = u2
  x1 = x1
  x2 = x2
  a1 = a1
  s1 = s1
  s2 = s2
  c1 = c1
  c2 = c2
  Users <- TwoUsers
  Services <- TwoServices
  ServicePrincipal = ServicePrincipal
  Agents <- OneAgent
  UnknownAgent = UnknownAgent
  SessionIds <- TwoSessions
  NoSession = NoSession
  NoRow = NoRow
  NoRequest = NoRequest
  Calls <- TwoCalls
  Ops = {"stream", "generate", "create", "get", "end"}
  Memory = "backstage"
  Client = "pg"
  RecursionLimit = 2
  MaxRestarts = 1
INVARIANTS
  TypeOK
  PromptOnEveryTurn
  HistoryIsKept
  WorksOnOwnSession
  ConversationsArePrivate
PROPERTIES
  RowsOnlyEnd
  EveryCallEnds
CHECK_DEADLOCK FALSE
