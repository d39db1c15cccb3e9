SPECIFICATION Spec
CONSTANTS
  Clients = {c1}
  Ids = {s1}
  Handlers = {h1, h2}
  PerSession = 1
  MaxSyn = 2
  MaxData = 0
  HighWater = 0
  Target <- OneTarget
  Requests <- OpenRequests
CHECK_DEADLOCK FALSE
SYMMETRY Symmetry
INVARIANTS WaiterIsWoken LostOnlyByReopen
