CONSTANTS
  Execs = {e1, e2}
  Day = 2
  MaxNow = 4
  MaxPosts = 2
  MaxHits = 2
SYMMETRY Symmetry
SPECIFICATION Spec
INVARIANTS ScriptNeverOvercounts StoreStaysSmall WindowIsTheDay
CHECK_DEADLOCK FALSE
