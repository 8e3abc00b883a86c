CONSTANTS
  AckLines = 3
  MaxResets = 1
  MaxStray = 1
SPECIFICATION Spec
INVARIANT StrayIgnored
