SPECIFICATION FairSpec
CONSTANTS
  Threshold = 2
  MaxSamples = 2
  MaxCommands = 3
  QueueDepth = 1
CHECK_DEADLOCK FALSE
INVARIANTS
  SilenceDetected
  PositionWhole
PROPERTY SilenceEnds
