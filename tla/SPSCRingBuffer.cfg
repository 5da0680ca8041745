SPECIFICATION RingSpec
CONSTANTS
  Items = {i1, i2}
  NoItem = none
  RingCapacity = 4
INVARIANTS RingTypeOK NoDataRace SizeIsSafe
PROPERTY ImplementsFifo
