CONSTANTS
  Frames = 2
  RecordSamples = 5
  Chunk = 2
  Depth = 2
  MaxCaptures = 5
CHECK_DEADLOCK FALSE
SPECIFICATION FairSpec
INVARIANTS
  TypeOK
  ControllerFree
  PlaysRecording
  LoggedCoversGaps
PROPERTY RecordsAgain
