CONSTANTS
  MaxFrames = 3
  Slots = {0, 1}
  MaxNoise = 4
  PcmBytes = 8
  Chunk = 5
CHECK_DEADLOCK FALSE
SPECIFICATION PathSpec
INVARIANTS
  SourceIntact
  HeaderFound
  FileIsCapture
