CONSTANTS
  MaxPayload = 1
  MaxFrames = 1
  MaxAttempts = 1
  Premise = FALSE
  HighWater = 3
  Faults = {"drop"}
  MaxBytes = 4
  MaxWrite = 3
  MaxFaults = 1
SPECIFICATION Spec
PROPERTY RollbackRestoresPrefix
CHECK_DEADLOCK FALSE
