CONSTANTS
  N = 3
  Bucket <- TwoAccounts
  IdleSlots = 1
  Workers = {w1, w2}
  Answers <- SomeAnswers
  MaxFail = 1
SYMMETRY Symmetry
SPECIFICATION Spec
INVARIANTS TypeOK SlotAccounting RoundRobinFair BackoffHasReason
