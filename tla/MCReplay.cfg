SPECIFICATION Spec
CONSTANTS
  U32 = 4
  U64 = 4
  Files <- MCFiles
  Cuts = {0, 1, 9}
  Cycles <- MCCycles
  Iterations = 2
  max_msgs = 1
  kCap = 3
  Second = 5
  tsc_freq = 2
INVARIANTS TypeOK DeliversWholeFrames CrashesOnlyUnchecked OneOwner SummaryIsOfLastRun
PROPERTIES ReplayEnds
CHECK_DEADLOCK FALSE
