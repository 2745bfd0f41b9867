SPECIFICATION ClientFairSpec
CONSTANTS
  SendCapacity = 2
  PingPeriod = 3
  PongWait = 6
  WriteWait = 1
  AnswerTime = 2
INVARIANTS AliveStays NoLeak
PROPERTY GoneLeaves
CHECK_DEADLOCK FALSE
