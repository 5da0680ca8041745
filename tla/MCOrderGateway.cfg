CONSTANTS
  U32 = 8
  OrderPrices = {1, 2, 3, 4}
  OrderQtys = {1, 4}
  MaxOrders = 5
SPECIFICATION Spec
INVARIANTS TypeOK NeverCrossed RestingIsIndexed RestingIsActive FillsWithinLimit FillsAndRestAddUp
