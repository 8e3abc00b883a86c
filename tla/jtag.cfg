CONSTANTS
  AckLines = 3
  MaxResets = 2
  MaxStray = 2
SPECIFICATION FairSpec
INVARIANTS
  HeaderNotMissed
  OnlyAudioRecorded
PROPERTY OpenGetsAudio
