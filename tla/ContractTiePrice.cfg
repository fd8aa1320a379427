\* Order logs that share a timestamp: a sale can trade at its price_off.
CONSTANTS
  sessionNum = 2
  sessionLength = 1
  Second = 1
  prevClosePrice = 100
  prevPosition = 0
  BestLevels = 1
  MaxAlphas = 0
  AlphaTimes = {0}
  Targets = {3}
  AlphaGap = 1
  MaxLogs = 3
  LogTimes = {1, 2}
  Volumes = {1, 2}
  Types = {0, 1, 2, 3, 4, 5}
  PriceOffs <- MCPriceOffs
  OtherOffs = {0}
  LogGap = 0
SPECIFICATION Spec
INVARIANTS
  PricesInLimits
