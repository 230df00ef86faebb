CONSTANTS
  Product = {"BTC"}
  Price = {1, 2}
  Quantity = {0, 1}
  Depth = 1
  Interval = 0
  Event <- MCEvent
  MaxLines = 5
  MaxRuns = 2
  MaxGaps = 0
  MaxTime = 0
  NoFile = noFile
  Pid = {p1, p2}
  MaxStops = 2
  None = None
  MaxPushes = 1
  MaxMinutes = 1
  MaxInterrupts = 0
  Timeout = 1
  MaxWait = 2
  Attempts = 2
  Budget = 3
SPECIFICATION MCSpec
INVARIANT ExactSnapshotCount
CHECK_DEADLOCK FALSE
