CONSTANTS
  Sessions = {s1}
  Workers = {w1, w2}
  Coalescing = {TRUE, FALSE}
  DisableIdleSleep = FALSE
  HaltAfter = 2
  MaxIdle = 2
  MaxTimers = 2
SPECIFICATION FairSpec
INVARIANTS KickIsDelivered
PROPERTIES ReadyIsPolled
