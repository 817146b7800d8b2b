SPECIFICATION Spec
CONSTANTS
  Requesters = {r1}
  Handlers = {h1}
  MaxIn = 2
  MaxCalls = 1
CHECK_DEADLOCK FALSE
INVARIANTS TypeOK ClosedIsLast WireOrder NoSendOnClosedChannel
PROPERTY CloseEndsAll
