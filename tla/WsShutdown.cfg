SPECIFICATION WsSpec
CONSTANTS
  MaxHandlers = 3
  MaxSends = 0
  MaxReads = 1
INVARIANT AllTerminated
CHECK_DEADLOCK FALSE
