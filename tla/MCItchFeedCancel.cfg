SPECIFICATION Spec
CONSTANTS
  U32 = 16
  Kinds = {"E", "X", "D"}
  Locates = {1, 2}
  FilterLocate = 1
  RawPrices <- MCRawPrices
  Qtys = {1, 2}
  MaxRefs = 3
INVARIANT BookShowsKnownOrders
