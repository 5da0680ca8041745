SPECIFICATION Spec
CONSTANTS
  U32 = 16
  Kinds <- AllKinds
  Locates = {1, 2}
  FilterLocate = 1
  RawPrices <- MCRawPrices
  Qtys = {1, 2}
  MaxRefs = 3
INVARIANTS TypeOK KnownOrdersAreListed BookFollowsParser LevelsMatchOrders
