CONSTANTS
  MaxPayload = 1
  MaxFrames = 4
  MaxAttempts = 2
  Premise = TRUE
  HighWater = 1
  Faults = {"drop", "late", "blind"}
  MaxBytes = 2
  MaxWrite = 2
  MaxFaults = 3
SPECIFICATION FairSpec
INVARIANTS TypeOK SynComesFirst SeqAgreement
PROPERTIES ImplementsByteStream 
CHECK_DEADLOCK FALSE
