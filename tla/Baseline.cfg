\* Three workers, a ring of 4, and days on both sides of what fits into it.
CONSTANTS
  Worker = {w1, w2, w3}
  BUFFER_NUM = 4
  Segments <- MCSegments
  StartDates <- MCStartDates
  None = None
SPECIFICATION BaselineSpec
INVARIANTS
  StopsRightly
PROPERTIES
  Implements
  RunsUpToFirstStop
