CONSTANTS
  MaxSockets = 2
  MaxFrames = 2
SPECIFICATION BrowserSpec
INVARIANT ReadyAfterSnapshot
CHECK_DEADLOCK FALSE
