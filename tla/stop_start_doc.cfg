CONSTANTS
  Desc = 3
  DmaMax = 2
  SeqBound = 4
  Readers = {r1}
  Sizes = {2}
  Lens = {2}
  MaxSlices = 1
SPECIFICATION Spec
INVARIANT StopEndsBlockedRead
