SPECIFICATION ChatSpec
CONSTANTS
  ResponseEvent = ResponseEvent
  ErrorEvent = ErrorEvent
  MaxEvents = 4
  p1 = p1
  p2 = p2
  c1 = c1
  c2 = c2
  s1 = s1
  s2 = s2
  Pages <- TwoPages
  Calls <- TwoCalls
  SessionIds <- TwoSessions
  NoSession = NoSession
  NoCall = NoCall
  NoPage = NoPage
INVARIANTS
  StreamTypeOK
  WholeOrTold
  WrittenInOrder
  OwnAnswers
  BusyWithItsCall
  ClearedIsForgotten
  StoredTogether
  AnswersAreStored
PROPERTIES
  RequestEnds
  KeepsContract
  InputComesBack
CHECK_DEADLOCK FALSE
