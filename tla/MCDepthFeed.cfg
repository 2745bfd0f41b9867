SPECIFICATION FeedFairSpec
CONSTANTS
  Clients = {"c"}
  Pushes = {"p", "q"}
  Capacity = 2
  Window = 2
  MaxChanges = 3
  MaxTime = 3
INVARIANTS TradesInOrder DepthInOrder
PROPERTY PushesEnd
CHECK_DEADLOCK FALSE
