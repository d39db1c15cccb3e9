CONSTANTS
  Workers = {w1, w2}
  MaxPayload = 2
  MaxFrames = 2
  ReadSize = 1
  HighWater = 1
  MaxBytes = 2
  MaxFaults = 1
SPECIFICATION FairSpec
INVARIANTS TypeOK
PROPERTIES ImplementsByteStream EverythingArrives BothEndsRelease
CHECK_DEADLOCK FALSE
