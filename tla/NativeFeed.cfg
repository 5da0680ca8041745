SPECIFICATION Spec
CONSTANTS
  U32 = 8
  U64 = 16
  Prices = {1, 2}
  Qtys = {1, 2}
  MaxIds = 2
  MaxMessages = 4
  MaxUnread = 2
  MaxFaults = 1
  max_msgs = 4
INVARIANTS TypeOK BookFollowsFeed LevelsMatchOrders NoEmptyLevels
PROPERTIES ActsAsL2View
CHECK_DEADLOCK FALSE
