CONSTANTS
  Id = {o1, o2, o3}
  NoOrder = none
  MaxPrice = 2
  MaxQuantity = 2
  WordBits = 2
  Bits = 14
  OrderId = {k1, k2, k3, k4}
  NoId = noId
  FirstSize = 4
  MaxSize = 8
SPECIFICATION MCSpec
INVARIANTS IndexMatchesLevels NotCrossed QuantitiesAddUp SearchesFindNeighbours MapHolds
PROPERTIES PriceTimePriority ImplementsReference CallReturns
