CONSTANTS
  None = None
  MaxPushes = 2
  MaxMinutes = 4
  MaxInterrupts = 0
  Timeout = 2
  MaxWait = 2
  Attempts = 1
  Budget = 3
SPECIFICATION JobSpec
INVARIANT BudgetHeld
CHECK_DEADLOCK FALSE
