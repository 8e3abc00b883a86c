CONSTANTS
  Desc = 3
  DmaMax = 2
  SeqBound = 3
  Readers = {r1, r2}
  Sizes = {2}
  Lens = {2}
  MaxSlices = 1
SPECIFICATION FairSpec
PROPERTIES
  StopReturns
  ReaderLeavesAfterStop
  FiniteReadReturns
