SPECIFICATION FairSpec
CONSTANTS
  Clients = {c1, c2}
  Ids = {s1}
  Handlers = {h1}
  PerSession = 1
  MaxSyn = 1
  MaxData = 2
  HighWater = 0
  Target <- OneTarget
  Requests <- AllRequests
CHECK_DEADLOCK FALSE
INVARIANTS TypeOK Isolation NoStrandedTx
PROPERTY CollectedIsReleased
