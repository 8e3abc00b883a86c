CONSTANTS
  Frames = 2
  Depth = 2
  MaxCaptures = 5
SPECIFICATION FairSpec
INVARIANTS
  QuietLogMeansWhole
  OnlyCountedLoss
PROPERTIES
  NothingTwice
  CatchesUp
  LossIsLogged
