\* Records of 3 bytes, in headers read by 8 and logs read by 6, with offsets of 5
\* bits and two faults.
CONSTANTS
  RecordSize = 3
  HeaderBuffer = 8
  READ_BUFFER_SIZE = 6
  OffsetSpan = 32
  Block = 2
  Lengths <- MCLengths
  MaxFaults = 2
  None = None
SPECIFICATION Spec
INVARIANTS
  HeaderWhole
  LogWhole
  NoByteTwice
PROPERTIES
  EndsBelowSpan
