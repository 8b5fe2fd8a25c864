SPECIFICATION Spec
CONSTANTS
  Clouds = {{}, {0, 1, 2}}
  FrameIds = {"main", "second"}
  MaxTime = 4
  MaxScans = 3
  MaxImu = 3
  Configs <- MCConfigs
  CutInterval = 0
  ConFrameNum = 1
  InitCount = 1
  InitMapSize = 3
INVARIANTS BuffersSound NeverStarved
PROPERTY ScansServed
CHECK_DEADLOCK FALSE
