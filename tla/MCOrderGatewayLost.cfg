CONSTANTS
  U32 = 8
  OrderPrices = {1, 2, 3}
  OrderQtys = {1, 2}
  MaxOrders = 4
SPECIFICATION Spec
PROPERTIES OrdersLeaveByFillOrCancel
