SPECIFICATION PartsSpec
CONSTANTS
  MaxCommands = 4
  MaxMoves = 2
  QueueDepth = 2
  MaxClicks = 36
  MaxFaults = 2
  Present = {0, 1, 2, 3, 4, 5, 6, 7, 8, 9, 10, 11}
  Configured <- ConfiguredCounts
  MaxBytes = 3
  MaxElapsed = 2
  MaxNbBytes = {2}
  TimeOuts = {0, 1}
  MaxOpens = 2
  Size = 4
  Areas = {{1}, {1, 2}, {3, 4}}
  Enabled = TRUE
  Far = 99
  Rolling = FALSE
  MaxCycles = 3
  NewValues = {1}
  MaxChanges = 2
  Forbidden = 999
  Width = 7
  AlphaFast = 85
  AlphaSlow = 30
  Beta = 85
  MinOccupancy = 180
  MinSeparation = 80
  MaxNeighbors = 100
  Border = 0
  MorphSize = 1
  MinArea = 3
  MaxArea = 300
  DistThresh = 4
  MaxSkipped = 1
  Images = {{}, {2}, {3}, {2, 6}}
  MaxMapChanges = 2
  MinSamples = 3
  MaxSamples = 6
  DtRef = 48
  DtHysteresis = 16
  Fast = TRUE
  OuterIterations = 2
  ReinitDist = 100
  Starts = {0, 128}
  Goals = {192, 256}
  Durations = {32, 64, 128}
  Places = {32, 128}
  MaxPlans = 2
INVARIANTS
  CommandsCarriedOut
  ClicksReachTheFile
  BytesAccounted
  OnlyAreasFreed
  ParametersTakeEffect
  ObstaclesTracked
  BandsSound
  MapIsTheReference
  ProblemSound
  PerceptionSound
PROPERTIES
  StepsSound
  CommandsServed
CHECK_DEADLOCK FALSE
