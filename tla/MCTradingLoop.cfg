CONSTANTS
  U32 = 4096
  OrderIds = {1, 2}
  Prices = {500, 600, 1000}
  Qtys = {1}
  base_spread_ticks = 2
  lot_size = 90
  max_position = 250
  max_order_qty = 450
  max_notional = 2000000000
  price_collar_ticks = 100
  MaxOrders = 8
SPECIFICATION Spec
INVARIANTS TypeOK PositionWithinLimits ReportsNeverDropped ReferenceIsFair ReducingQuoteAccepted
PROPERTIES EveryMessageEnds
CHECK_DEADLOCK FALSE
