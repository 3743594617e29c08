\* The lease may move after the guard has seen it.
SPECIFICATION Spec
CONSTANTS
  Transports = {"ssh", "telnet"}
  Addrs = {"a254", "a15"}
  Expected = "a254"
  None = "none"
  MaxRetries = 3
  MaxRestarts = 2
  WedgeAfter = 1
  WedgeLines = 2
  MaxLost = 3
  LateMoves = TRUE
INVARIANT VisibleGuestReached
CHECK_DEADLOCK FALSE
