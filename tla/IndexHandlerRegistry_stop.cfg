SPECIFICATION FairSpec
CONSTANTS
  MaxChanges = 3
  MaxCC = 2
  MayUnshare = FALSE
CHECK_DEADLOCK FALSE
PROPERTY StopReturns
