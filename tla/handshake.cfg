CONSTANTS
  SwitchDelay = 60
  SettleDelay = 10
  QuietDelay = 5
  BoardLate = 2
  ScriptSleep = 70
  ScriptSettle = 10
  ScriptLate = 1
  ReadTimeout = 20
  ResetsOnOpen = TRUE
  MaxResets = 2
  MaxRx = 2
SPECIFICATION FairSpec
INVARIANTS
  HeaderNotMissed
  OnlyAudioRecorded
PROPERTIES
  SearchEnds
  OpenGetsAudio
