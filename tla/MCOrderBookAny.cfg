CONSTANTS
  U32 = 4
  OrderIds = {0, 1, 2}
  Prices = {1, 2}
  Qtys = {1, 2}
SPECIFICATION LadderSpec
INVARIANTS TypeOK CacheCoherent LaddersAgree
