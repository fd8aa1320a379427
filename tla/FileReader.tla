------------------------------ MODULE FileReader ------------------------------
(***************************************************************************)
(* The bytes that direct_io_load (src/io.h) reads of the files of a day.   *)
(* BufferRing counts the reads; this module says which records they give.  *)
(*                                                                         *)
(* A header, prev_trade_info or alpha, is read to its end and then counted *)
(* as a whole; all its reads go to the start of the same buffer.  The order*)
(* log is read a buffer at a time, and each read is counted and published  *)
(* alone.  A byte of a file is known by its position.                      *)
(***************************************************************************)
EXTENDS Common, Sequences

CONSTANTS
  RecordSize,        \* bytes of a record
  HeaderBuffer,      \* ALIGN_PREV_BUFFER_SIZE, ALIGN_ALPHA_BUFFER_SIZE
  READ_BUFFER_SIZE,
  OffsetSpan,        \* 2^32: offset is a uint32_t
  Block,             \* what O_DIRECT wants offsets to be a multiple of
  Lengths,           \* bytes a file may have
  MaxFaults,         \* bound: reads that fail or return less than there is
  None               \* a byte of the buffer that nothing was read to

ASSUME ReaderAssumption ==
  /\ RecordSize \in Nat \ {0} /\ Block \in Nat \ {0} /\ OffsetSpan \in Nat \ {0}
  /\ HeaderBuffer \in Nat \ {0} /\ Lengths \subseteq Nat /\ MaxFaults \in Nat
  /\ READ_BUFFER_SIZE \in Nat \ {0}
  /\ READ_BUFFER_SIZE % RecordSize = 0 /\ READ_BUFFER_SIZE % Block = 0
  /\ HeaderBuffer % Block = 0 /\ OffsetSpan % HeaderBuffer = 0
  /\ HeaderBuffer < OffsetSpan

VARIABLES
  header, log,       \* the lengths of the two files
  pc, offset,
  buffer,            \* buffer[i]: the byte of the header at i
  headerCount,       \* prev_count, alpha_count
  \* History: the records published, as the positions where they start; whether
  \* offset wrapped; and the faults.
  records, wrapped, faults

files == <<header, log>>
vars  == <<files, pc, offset, buffer, headerCount, records, wrapped, faults>>

Init ==
  /\ header \in Lengths /\ log \in Lengths
  /\ pc = "header" /\ offset = 0
  /\ buffer = [i \in 0..HeaderBuffer - 1 |-> None] /\ headerCount = 0
  /\ records = <<>> /\ wrapped = FALSE /\ faults = 0

-----------------------------------------------------------------------------

\* What pread returns without a fault: 0 at the end of the file, an error when the
\* offset is not aligned.
Full(length, size) ==
  IF offset >= length THEN 0
  ELSE IF offset % Block # 0 THEN -1
  ELSE Lesser(size, length - offset)

Pread(length, size, k) ==
  LET full == Full(length, size) IN
  \/ k = full /\ UNCHANGED faults
  \/ /\ full > 0 /\ k \in -1..full - 1
     /\ faults < MaxFaults /\ faults' = faults + 1

\* mutant: a started record counts
CountUp(bytes) == (bytes + RecordSize - 1) \div RecordSize

Count(bytes) == bytes \div RecordSize

\* mutant: goes on by the size of the buffer
AdvanceBuffer(k) == /\ offset' = (offset + READ_BUFFER_SIZE) % OffsetSpan
                    /\ wrapped' = (wrapped \/ offset + READ_BUFFER_SIZE >= OffsetSpan)

Advance(k) == /\ offset' = (offset + k) % OffsetSpan
              /\ wrapped' = (wrapped \/ offset + k >= OffsetSpan)

\* The start of the buffer is overwritten by every read.
ReadHeader ==
  /\ pc = "header"
  /\ \E k \in 1..HeaderBuffer :
       /\ Pread(header, HeaderBuffer, k)
       /\ buffer' = [i \in DOMAIN buffer |-> IF i < k THEN offset + i ELSE buffer[i]]
       /\ Advance(k)
  /\ UNCHANGED <<files, pc, headerCount, records>>

HeaderNotReset ==                         \* mutant: the log is read on from there
  /\ pc = "header"
  /\ \E k \in {-1, 0} : Pread(header, HeaderBuffer, k)
  /\ headerCount' = Count(offset)
  /\ pc' = "log"
  /\ UNCHANGED <<files, offset, buffer, records, wrapped>>

\* An error is taken for the end of the file.
HeaderRead ==
  /\ pc = "header"
  /\ \E k \in {-1, 0} : Pread(header, HeaderBuffer, k)
  /\ headerCount' = Count(offset)
  /\ pc' = "log" /\ offset' = 0
  /\ UNCHANGED <<files, buffer, records, wrapped>>

ReadSegment ==
  /\ pc = "log"
  /\ \E k \in 1..READ_BUFFER_SIZE :
       /\ Pread(log, READ_BUFFER_SIZE, k)
       /\ records' = IF wrapped THEN records
                     ELSE records \o [i \in 1..Count(k) |-> offset + (i - 1) * RecordSize]
       /\ Advance(k)
  /\ UNCHANGED <<files, pc, buffer, headerCount>>

EndOfLog ==
  /\ pc = "log"
  /\ \E k \in {-1, 0} : Pread(log, READ_BUFFER_SIZE, k)
  /\ pc' = "done"
  /\ UNCHANGED <<files, offset, buffer, headerCount, records, wrapped>>

Loaded == pc = "done" /\ UNCHANGED vars

Load == ReadHeader \/ HeaderRead \/ ReadSegment \/ EndOfLog

Next == Load \/ Loaded

\* The loops are sequential code of the loader.
Spec == Init /\ [][Next]_vars /\ WF_vars(Load)

-----------------------------------------------------------------------------
(* Properties.                                                             *)

\* The counts of a header that fits are those of its records, and they are in the
\* buffer (io.h:144-159); of one that does not, the start of the buffer holds the
\* end of the file, and the workers read behind the end of the buffer.
HeaderWhole ==
  pc # "header" /\ faults = 0 =>
    IF header <= HeaderBuffer
      THEN /\ headerCount = header \div RecordSize
           /\ \A i \in 0..headerCount * RecordSize - 1 : buffer[i] = i
      ELSE header < OffsetSpan => buffer[0] # 0

\* The segments of an order log have its records once and in order, all of them
\* when it is read, though a read may end a buffer before the file (io.h:161-175).
LogWhole ==
  ~wrapped /\ faults = 0 =>
    /\ \A i \in DOMAIN records : records[i] = (i - 1) * RecordSize
    /\ pc = "done" => Len(records) = log \div RecordSize

\* A read that fails or is short loses records, and those behind it may be made of
\* the parts of two, but no byte of the log is in two records (io.h:162-164).
NoByteTwice ==
  \A i, j \in DOMAIN records : i < j => records[i] + RecordSize <= records[j]

\* Files below the span of the offset are read to their end, with what faults there
\* may be.  A header at or past it is read for ever, unless a read fails.  So is a log,
\* unless a read at its end leaves the wrapped offset unaligned, which O_DIRECT then
\* refuses: that ends the day like an end of file, no fault needed (io.h:145-163).
EndsBelowSpan ==
  LET below == header < OffsetSpan /\ log < OffsetSpan
  IN  /\ below => <>(pc = "done")
      /\ ~below => [](pc = "done" =>
                        \/ faults > 0
                        \/ header < OffsetSpan /\ wrapped /\ offset % Block # 0)

=============================================================================
