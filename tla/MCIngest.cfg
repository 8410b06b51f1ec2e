SPECIFICATION FairSpec
CONSTANTS
  r1 = r1 n1 = n1 d1 = d1 d2 = d2
  Requests = {r1}
  Kind <- MCKind
  Apis = {n1}
  Drains = {d1, d2}
  OpensAt = 1
  ClosesAt = 5
  CloseLag = 1
  MaxAge = 1
  ReadTimeout = 1
  Pause = 1
  SendTimeout = 1
  DebugTime = 1
  ShutdownGrace = 5
  Grace = 6
  MaxTime = 12
CHECK_DEADLOCK FALSE
INVARIANTS TypeOK InWindowIsCounted NoRequestLost
PROPERTIES NoVoteAfterFinal LandsInTime TopicIsDecided
