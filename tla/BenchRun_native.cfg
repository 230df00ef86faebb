CONSTANTS
  None = None
  Section = {"ladder", "pipeline"}
  MaxRuns = 2
SPECIFICATION BenchRunSpec
INVARIANT NativeIsOfThisRun
CHECK_DEADLOCK FALSE
