CONSTANTS
  Workers = {w1, w2}
  FinSeq = 3
  InboxCap = 2
  ChanCap = 1
SPECIFICATION FairSpec
INVARIANTS TypeOK StopNeverPanics InOrder HonestEof
PROPERTIES StopClosesChan
CHECK_DEADLOCK FALSE
