CONSTANTS
  Price = {1}
  Quantity = {0, 1}
  Depth = 1
  Interval = 1
  MaxWire = 1
  MaxRequests = 1
  MaxLosses = 2
SPECIFICATION FairSpec
PROPERTY SilentSocketReconnects
