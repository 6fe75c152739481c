CONSTANTS
  ChatSessions = {s1, s2}
  Requests = {r1, r2}
  Ops = {o1}
  Turns = {1, 2}
  MaxRetries = 2
  MaxDeaths = 1
  MaxStops = 1
SPECIFICATION FairSpec
CHECK_DEADLOCK FALSE
INVARIANTS
  WrittenOnce
  NoFalseReceipt
PROPERTIES
  NothingAfterTheResult
  ResultIsFinal
  TurnsAreAnswered
