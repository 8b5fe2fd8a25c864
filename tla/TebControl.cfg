\* The controller with two plans; each configuration opens one group of callbacks.
SPECIFICATION ControlSpec
CONSTANTS
  Plans <- MCPlans
  Poses = {0, 1, 2, 3}
  Threshold = 1
  Lookahead = 2
  PruneDist = 1
  Configs <- MCConfigs
  Lethals <- MCLethals
  MapSize = 4
  Behind = 1
  Velocities = {"v1", "v2"}
  ObstacleMsgs <- MCObstacleMsgs
  ViaMsgs <- MCViaMsgs
  RawCommands <- MCRaw
  SpeedLimits <- MCSpeedLimits
  Wheelbase = 2
  BufferLength = 3
  MaxFails = 2
  MaxEvents = 3
  Maps = {"m1", "m2"}
  Conversion <- MCConversion
  Nothing <- MCNothing
INVARIANT ControlInv
PROPERTIES CommandWithinLimits PreferenceExpires ObstaclesCatchUp 
CHECK_DEADLOCK FALSE
