CONSTANTS
  Block = {b1, b2, b3, b4}
  NumTiles = 4
  Window = 2
  Resident = 3
  Input = {"first", "second"}
  TileSum <- MCTileSum
  Prefix <- MCPrefix
  Garbage = 999
  K = 6
  Buffers = 2
  Block32 <- MCBlock32
  Block16 <- MCBlock16
  Overflow = {1}
  MaxPasses = 2
  None = None
  WarpSize = 2
  Levels = 3
  Price <- MCPrice
  LevelSize = {0, 1, 2}
  Target <- MCTarget
SPECIFICATION MCSpec
PROPERTY EveryLaunchEnds
INVARIANTS StatusHolds WaitsOnStarted ScanCorrect PassesKeepApart AllWalkTheBook
CHECK_DEADLOCK FALSE
