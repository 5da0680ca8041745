CONSTANTS
  Homes <- AdjacentHomes
  Keys <- MCKeys
  Hash <- MCHash
  Values = {10, 20}
  InitialCapacity = 4
SPECIFICATION Spec
INVARIANTS EveryKeyReachable
