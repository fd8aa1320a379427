\* Two alphas a TWAP window apart, with slices of volume 0 and both directions, so
\* that our own orders can meet; order logs that share a timestamp with each other
\* and with slices; every call returns, for a thread that keeps running.
CONSTANTS
  sessionNum = 3
  sessionLength = 1
  Second = 1
  prevClosePrice = 100
  prevPosition = 0
  BestLevels = 1
  MaxAlphas = 2
  AlphaTimes = {0, 2}
  Targets <- MCTargets
  AlphaGap = 2
  MaxLogs = 3
  LogTimes = {1, 3}
  Volumes = {1, 2}
  Types = {0, 1, 2, 3, 4, 5}
  PriceOffs <- MCPriceOffs
  OtherOffs = {0}
  LogGap = 0
SPECIFICATION FairSpec
INVARIANTS
  TwapInTime
  PositionAddsUp
PROPERTIES
  EveryCallReturns
