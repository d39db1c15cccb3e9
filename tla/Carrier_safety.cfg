CONSTANTS
  Sessions = {s1, s2}
  Workers = {w1, w2}
  FramesPerSession = 1
  BatchCap = 1
  BatchCapBusy = 2
  BusyThreshold = 2
  MaxSeq = 1
  MaxBuf = 1
  Free = Free
SYMMETRY Symmetry
SPECIFICATION Spec
INVARIANTS TypeOK ExclusiveFlight NoStrandedTx SeqContinuity
CHECK_DEADLOCK FALSE
