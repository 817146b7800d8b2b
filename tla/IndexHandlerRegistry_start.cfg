SPECIFICATION Spec
CONSTANTS
  MaxChanges = 5
  MaxCC = 4
  MayUnshare = TRUE
CHECK_DEADLOCK FALSE
INVARIANTS StartInfoOrHandler HandlerPresent
PROPERTY NoDoublePause
