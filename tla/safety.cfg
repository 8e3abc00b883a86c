CONSTANTS
  Desc = 3
  DmaMax = 2
  SeqBound = 6
  Readers = {r1, r2}
  Sizes = {2, 3}
  Lens = {1, 2}
  MaxSlices = 1
SPECIFICATION Spec
SYMMETRY ReaderSymmetry
INVARIANTS
  TypeOK
  SingleReader
  NoReadOfDeletedChannel
  DriverCallsLegal
  QuietWhenStopped
  LossAccounting
  QueueHeadIsNext
  TornMeansQueueFull
  OneBufferOrNothing
  ChannelConsistent
  StoppedReadLearnsOfStop
PROPERTY ImplementsStream
