\* Four order logs of every type around the two slices of an alpha; up to three resting
\* orders on more levels than BestFive may take.
CONSTANTS
  sessionNum = 2
  sessionLength = 1
  Second = 1
  prevClosePrice = 100
  prevPosition = 1
  BestLevels = 2
  MaxAlphas = 1
  AlphaTimes = {0}
  Targets = {4}
  AlphaGap = 1
  MaxLogs = 4
  LogTimes = {1, 2, 3, 4}
  Volumes = {1, 3}
  Types = {0, 1, 2, 3, 4, 5}
  PriceOffs <- MCPriceOffs
  OtherOffs = {0}
  LogGap = 1
SPECIFICATION Spec
INVARIANTS
  TypeOK
  BookUncrossed
  PricesInLimits
  AllOrNothingFilled
  PricesWorsen
  AtMostBestLevels
PROPERTIES
  PnlOnlyRevalues
  NothingOnCancel
  PriorityRespected
  TradesTakeBothSides
