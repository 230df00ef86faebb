CONSTANTS
  Product = {"BTC"}
  Price = {1, 2}
  Quantity = {0, 1}
  Depth = 1
  Interval = 1
  Event <- MCEvent
  MaxLines = 5
  MaxRuns = 2
  MaxGaps = 1
  MaxTime = 1
  NoFile = noFile
  Pid = {p1, p2}
  MaxStops = 2
  None = None
  MaxPushes = 2
  MaxMinutes = 2
  MaxInterrupts = 1
  Timeout = 1
  MaxWait = 2
  Attempts = 2
  Budget = 3
SPECIFICATION MCSpec
INVARIANTS BuilderAgrees SidecarHonest FilesAreCurrent ResultsVouched
PROPERTIES TotalNeverDrops MinutesFromFirstSight
CHECK_DEADLOCK FALSE
