\* A second alpha before the slices of the first are all due.
CONSTANTS
  sessionNum = 2
  sessionLength = 2
  Second = 1
  prevClosePrice = 100
  prevPosition = 0
  BestLevels = 1
  MaxAlphas = 2
  AlphaTimes = {0, 1, 2}
  Targets <- MCTargets
  AlphaGap = 0
  MaxLogs = 2
  LogTimes = {1, 2, 3, 4}
  Volumes = {1, 2}
  Types = {0, 1, 2, 3, 4, 5}
  PriceOffs <- MCPriceOffs
  OtherOffs = {0}
  LogGap = 1
SPECIFICATION Spec
INVARIANTS
  TwapInTime
