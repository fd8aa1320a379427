\* Two of three instruments share a home slot.
CONSTANTS
  MOD = 4
  MAX_CONTRACT_NUM = 8
  IntSpan = 8
  Unset = Unset
  Instruments <- MCTogether
  Timestamps = {20, 22}
  MaxAlphas = 3
  MaxLogs = 1
  CharSpan = 3
  IdLength = 2
SPECIFICATION Spec
INVARIANTS
  Delivered
