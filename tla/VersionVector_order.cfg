SPECIFICATION VectorSpec
CONSTANTS
  NumIds = 3
  MaxNow = 2
  MaxChanges = 3
  AnyClock = FALSE
CHECK_DEADLOCK FALSE
INVARIANTS VectorsSorted CompareIsOrder MergeIsLeast NoSilentLoss
