\* Two sessions, one with a second day, two sockets to leak, and one fault.
CONSTANTS
  w1 = w1
  w2 = w2
  Worker = {w1, w2}
  Days <- MCDays
  NameLen = 2
  SizeLen = 2
  TwapLen <- MCTwapLen
  PnlLen = 1
  BUFFER_SIZE = 2
  Unflushed = 2
  Window = 4
  MaxFds = 2
  MaxFaults = 1
  Garbage = {0, 9}
  Garbled = Garbled
SPECIFICATION FairSpec
INVARIANTS
  TypeOK
  StoredIsSent
  TwapBeforePnl
  SocketsRunOut
PROPERTIES
  EveryResultStored
CHECK_DEADLOCK FALSE
