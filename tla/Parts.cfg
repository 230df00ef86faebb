CONSTANTS
  None = None
  Word = Word
  Unknown = Unknown
  Section = {"ladder", "pipeline"}
  MaxRuns = 3
  Topic = {"pipeline", "archive"}
  Facts = {"archive"}
  Number = {"n1", "2", "7"}
  Document = {"BENCHMARKS", "INTERVIEW_NOTES"}
  SectionsOf <- MCSectionsOf
  HeadingsOf <- MCHeadingsOf
  CountsOf <- MCCountsOf
  MaxResults = 2
  MaxEdits = 2
  Rung <- MCRung
  Config = {"c1", "c2"}
  Triton = {"t1"}
  Output = {"spread", "depth"}
  Id = {1, 2, 3}
  NoOrder = 0
  MaxPrice = 2
  MaxQuantity = 2
  MaxMarket = 1
  MaxSockets = 3
  MaxFrames = 3
  TradeArray = {"trade_ts", "trade_px"}
  SnapshotArray = {"snap_ts", "bid_px"}
  Window = 3
  Repeated = 2
  TradeChunk = 2
  Cap = {0, 1}
  MaxTrades = 4
  MaxLines = 3
  MaxKills = 1
  SpinUs = 4
  SlowestClock = 1
  MaxKernels = 2
  MaxWork = 2
  MaxDispatch = 2
  Variant <- MCVariant
  Clock = {10, 9, 8}
  Warmup = 1
  Iterations = 2
  Monitored = {TRUE, FALSE}
  MaxOps = 7
SPECIFICATION PartsSpec
INVARIANTS FinishedAccounts NumbersTraced BookedOnce PageKeepsUp ValidMeansBuilt
INVARIANTS FollowsTheRecording VerifiedIsRight FindingsHold
INVARIANTS OnlyKernelsTimed BlockIsSound OneMinimal WindowsHold
PROPERTY NothingLost
CHECK_DEADLOCK FALSE
