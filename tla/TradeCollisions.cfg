\* Three instruments, of which two share a home slot, and room for two engines.
CONSTANTS
  MOD = 4
  MAX_CONTRACT_NUM = 2
  IntSpan = 8
  Unset = Unset
  Instruments <- MCTogether
  Timestamps = {20, 22}
  MaxAlphas = 3
  MaxLogs = 1
  CharSpan = 3
  IdLength = 2
SPECIFICATION Spec
INVARIANTS
  OnlyDisplacedStray
