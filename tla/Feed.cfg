CONSTANTS
  Price = {1}
  Quantity = {0, 1}
  Depth = 1
  Interval = 1
  MaxWire = 2
  MaxRequests = 2
  MaxLosses = 2
SPECIFICATION FairSpec
INVARIANT MirrorTracksMarket
PROPERTIES GapHealed SilenceEnds
