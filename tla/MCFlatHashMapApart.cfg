CONSTANTS
  Homes <- ApartHomes
  Keys <- MCKeys
  Hash <- MCHash
  Values = {10, 20}
  InitialCapacity = 4
SPECIFICATION Spec
INVARIANTS TypeOK ProbesTerminate SizeCountsSlots EveryKeyReachable
PROPERTIES ImplementsMap
