CONSTANTS
  SwitchDelay = 60
  SettleDelay = 10
  QuietDelay = 5
  BoardLate = 2
  ScriptSleep = 70
  ScriptSettle = 10
  ScriptLate = 1
  ReadTimeout = 20
  ResetsOnOpen = FALSE
  MaxResets = 1
  MaxRx = 2
SPECIFICATION FairSpec
PROPERTIES
  ScriptAfterReady
