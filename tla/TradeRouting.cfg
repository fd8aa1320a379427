\* Three instruments with home slots of their own, in a table of four slots.  No
\* timestamp fits in an int of 4 bits, but their distances do.
CONSTANTS
  MOD = 4
  MAX_CONTRACT_NUM = 3
  IntSpan = 8
  Unset = Unset
  Instruments <- MCApart
  Timestamps = {20, 22}
  MaxAlphas = 3
  MaxLogs = 1
  CharSpan = 3
  IdLength = 2
SPECIFICATION Spec
INVARIANTS
  TypeOK
  Delivered
  TwapReportRight
  PnlReportRight
PROPERTIES
  Implements
