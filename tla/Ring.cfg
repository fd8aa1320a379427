\* Three workers and a ring that wraps four times: 8 buffers in a ring of 2, and
\* every day completed whatever the relative speed of the threads.
CONSTANTS
  Worker = {w1, w2, w3}
  BUFFER_NUM = 2
  Segments <- MCSegments
  StartDates <- MCStartDates
  None = None
SPECIFICATION FairSpec
INVARIANTS
  TypeOK
  ExclusiveAccess
  EndsAtEmptyDay
  StopsWhenAllDone
PROPERTIES
  Implements
  EveryDayCompletes
