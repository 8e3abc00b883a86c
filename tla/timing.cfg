CONSTANTS
  DmaBytes = 4092
  MinSlice = 20
  Hz = 100
  Word = 256
  Configs <- AllConfigs
  Streamed <- StreamConfigs
  Timeouts = {0, 15, 95, 1000}
  Forever = 1000
  Starts = {0, 253}
  Late = 2
SPECIFICATION Spec
INVARIANTS
  InitIsExact
  TimesOutOnTime
  StopNoticed
  StopBlocks
  NoBusyPoll
