CONSTANTS
  MaxRuns = 2
  MaxQueue = 3
SPECIFICATION FairSpec
INVARIANTS TypeOK LiveRunIsReachable StatusIsHonest ConnectionsFindLiveRun
PROPERTY CancelledRunsEnd
