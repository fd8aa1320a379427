--------------------------- MODULE FileReader_proofs ---------------------------
(***************************************************************************)
(* What is read of the files of a day, for every length of the files and   *)
(* every size of the records and of the buffers: what a header that fits   *)
(* and an order log yield without a fault, and that no fault makes a byte  *)
(* of the order log part of two records.                                   *)
(***************************************************************************)
EXTENDS FileReader, SequenceTheorems, TLAPS

TypeOK ==
  /\ header \in Nat /\ log \in Nat
  /\ pc \in {"header", "log", "done"} /\ offset \in Nat
  /\ buffer \in [0..HeaderBuffer - 1 -> Nat \cup {None}]
  /\ headerCount \in Nat
  /\ records \in Seq(Nat) /\ wrapped \in BOOLEAN /\ faults \in Nat

\* While a header below the span is read without a fault: one that fits is read
\* by one read, of another the first read fills the buffer and each later one
\* overwrites its start with bytes from behind it.
HeaderReads ==
  pc = "header" /\ faults = 0 /\ header < OffsetSpan =>
    /\ offset \in 0..header
    /\ offset < header => offset % Block = 0
    /\ offset > 0 =>
         IF header <= HeaderBuffer
           THEN offset = header /\ \A i \in 0..header - 1 : buffer[i] = i
           ELSE offset >= HeaderBuffer /\ (offset > HeaderBuffer => buffer[0] \in Nat \ {0})

\* Between two reads of the order log without a fault: every read but the last
\* ends with a record and at an offset that may be read from.
LogReads ==
  pc # "header" /\ ~wrapped /\ faults = 0 =>
    /\ offset \in 0..log
    /\ offset < log => offset = Len(records) * RecordSize /\ offset % Block = 0
    /\ offset = log => Len(records) = log \div RecordSize
    /\ \A i \in 1..Len(records) : records[i] = (i - 1) * RecordSize
    /\ pc = "done" => offset = log

\* The records published end where the next read begins, as long as offset has
\* not wrapped; afterwards they are no longer followed.
Apart(starts) ==
  \A i, j \in 1..Len(starts) : i < j => starts[i] + RecordSize <= starts[j]

EndBelow(starts, limit) ==
  \A i \in 1..Len(starts) : starts[i] + RecordSize <= limit

RecordsApart ==
  /\ pc = "header" => records = <<>>
  /\ pc # "header" /\ ~wrapped => EndBelow(records, offset)
  /\ Apart(records)

-----------------------------------------------------------------------------
(* Division.                                                               *)

LEMMA DivMod ==
  ASSUME NEW a \in Nat, NEW b \in Nat \ {0}
  PROVE  /\ a % b \in 0..b - 1 /\ a \div b \in Nat
         /\ a = (b * (a \div b)) + (a % b)
OBVIOUS

LEMMA DivUnique ==
  ASSUME NEW b \in Nat \ {0}, NEW q \in Nat, NEW r \in 0..b - 1
  PROVE  ((b * q) + r) % b = r /\ ((b * q) + r) \div b = q
OBVIOUS

\* Multiples of a number are added apart from the rest.
LEMMA DivPlus ==
  ASSUME NEW b \in Nat \ {0}, NEW q \in Nat, NEW k \in Nat
  PROVE  /\ ((q * b) + k) % b = k % b
         /\ ((q * b) + k) \div b = q + (k \div b)
<1>1. PICK p \in Nat, r \in 0..b - 1 : k = (b * p) + r /\ k % b = r /\ k \div b = p
  BY DivMod
<1>2. (q * b) + k = (b * (q + p)) + r
  BY <1>1
<1>3. q + p \in Nat
  BY <1>1
<1>4. ((b * (q + p)) + r) % b = r /\ ((b * (q + p)) + r) \div b = q + p
  BY <1>1, <1>3, DivUnique
<1>5. QED BY <1>1, <1>2, <1>4

\* A sum of multiples is a multiple.
LEMMA MultiplePlus ==
  ASSUME NEW b \in Nat \ {0}, NEW x \in Nat, NEW y \in Nat, x % b = 0, y % b = 0
  PROVE  (x + y) % b = 0
<1>1. PICK q \in Nat : x = q * b
  <2> DEFINE q == x \div b
  <2>1. q \in Nat /\ x = (b * q) + (x % b)
    BY DivMod
  <2> HIDE DEF q
  <2>2. x = q * b
    BY <2>1
  <2>3. QED BY <2>1, <2>2
<1>2. ((q * b) + y) % b = y % b
  BY DivPlus
<1>3. QED BY <1>1, <1>2

\* What Count says of the bytes of a read.
LEMMA CountBound ==
  ASSUME NEW k \in Nat
  PROVE  /\ Count(k) \in Nat /\ Count(k) * RecordSize <= k
         /\ \A i \in 1..Count(k) : i * RecordSize <= k
<1>1. RecordSize \in Nat \ {0}
  BY ReaderAssumption
<1>2. Count(k) \in Nat /\ k = (RecordSize * Count(k)) + (k % RecordSize) /\ k % RecordSize \in Nat
  BY <1>1, DivMod DEF Count
<1>3. Count(k) * RecordSize <= k
  BY <1>1, <1>2
<1>4. ASSUME NEW i \in 1..Count(k) PROVE i * RecordSize <= k
  <2>1. PICK d \in Nat : Count(k) = i + d
    <3>1. Count(k) - i \in Nat /\ Count(k) = i + (Count(k) - i)
      BY <1>2
    <3>2. QED BY <3>1
  <2>2. Count(k) * RecordSize = (i * RecordSize) + (d * RecordSize) /\ d * RecordSize \in Nat
    BY <1>1, <2>1
  <2>3. i * RecordSize \in Nat
    BY <1>1
  <2>4. QED BY <1>2, <1>3, <2>2, <2>3
<1>5. QED BY <1>2, <1>3, <1>4

-----------------------------------------------------------------------------
(* Reads.                                                                  *)

LEMMA FullRead ==
  ASSUME NEW length \in Nat, NEW size \in Nat \ {0}, offset \in Nat
  PROVE  /\ Full(length, size) \in Int /\ Full(length, size) <= size
         /\ offset >= length <=> Full(length, size) = 0
         /\ offset < length /\ offset % Block # 0 <=> Full(length, size) = -1
         /\ Full(length, size) > 0 =>
              Full(length, size) = IF size <= length - offset THEN size ELSE length - offset
BY ReaderAssumption DEF Full, Lesser

\* The faults never become fewer, and without one a read returns what it can.
LEMMA NoFault ==
  ASSUME NEW length \in Nat, NEW size \in Nat \ {0}, offset \in Nat, NEW k \in Int,
         faults \in Nat, Pread(length, size, k)
  PROVE  faults' \in Nat /\ (faults' = 0 => faults = 0 /\ k = Full(length, size))
BY FullRead DEF Pread

\* Advancing by what was read.
LEMMA AdvanceType ==
  ASSUME offset \in Nat, wrapped \in BOOLEAN, NEW k \in Nat, Advance(k)
  PROVE  /\ offset' \in Nat /\ wrapped' \in BOOLEAN
         /\ wrapped => wrapped'
         /\ offset + k < OffsetSpan => offset' = offset + k
         /\ ~wrapped' => offset' = offset + k
<1>1. OffsetSpan \in Nat \ {0}
  BY ReaderAssumption
<1> DEFINE end == offset + k
<1>2. offset' = end % OffsetSpan /\ wrapped' = (wrapped \/ end >= OffsetSpan)
  BY DEF Advance
<1>3. end \in Nat
  OBVIOUS
<1> HIDE DEF end
<1>4. end % OffsetSpan \in Nat /\ (end < OffsetSpan => end % OffsetSpan = end)
  BY <1>1, <1>3
<1>5. end < OffsetSpan \/ end >= OffsetSpan
  BY <1>1, <1>3
<1>6. (end >= OffsetSpan) \in BOOLEAN
  BY <1>1, <1>3
<1>7. QED BY <1>2, <1>4, <1>5, <1>6, Zenon DEF end

-----------------------------------------------------------------------------
(* The types.                                                              *)

LEMMA TypeInit == Init => TypeOK
<1> SUFFICES ASSUME Init PROVE TypeOK
  OBVIOUS
<1>1. header \in Nat /\ log \in Nat
  BY ReaderAssumption DEF Init
<1>2. buffer \in [0..HeaderBuffer - 1 -> Nat \cup {None}]
  BY DEF Init
<1>3. <<>> \in Seq(Nat) /\ FALSE \in BOOLEAN
  OBVIOUS
<1>4. QED BY <1>1, <1>2, <1>3 DEF Init, TypeOK

\* The starts of the records of a read.
Starts(k) == [i \in 1..Count(k) |-> offset + (i - 1) * RecordSize]

LEMMA StartsType ==
  ASSUME offset \in Nat, NEW k \in Nat
  PROVE  Starts(k) \in Seq(Nat) /\ Len(Starts(k)) = Count(k)
<1>1. Count(k) \in Nat /\ RecordSize \in Nat
  BY CountBound, ReaderAssumption
<1>2. ASSUME NEW i \in 1..Count(k) PROVE offset + (i - 1) * RecordSize \in Nat
  <2>1. i - 1 \in Nat
    BY <1>1
  <2>2. (i - 1) * RecordSize \in Nat
    BY <1>1, <2>1
  <2>3. QED BY <2>2
<1>3. Starts(k) \in [1..Count(k) -> Nat]
  BY <1>2 DEF Starts
<1>4. \A n \in Nat : \A t \in [1..n -> Nat] : t \in Seq(Nat) /\ Len(t) = n
  OBVIOUS
<1>5. QED BY <1>1, <1>3, <1>4

LEMMA TypeStep == TypeOK /\ [Next]_vars => TypeOK'
<1> SUFFICES ASSUME TypeOK, [Next]_vars PROVE TypeOK'
  OBVIOUS
<1> USE DEF TypeOK
<1>a. HeaderBuffer \in Nat \ {0} /\ READ_BUFFER_SIZE \in Nat \ {0}
  BY ReaderAssumption
<1>1. CASE ReadHeader
  <2>1. PICK k \in 1..HeaderBuffer :
          /\ Pread(header, HeaderBuffer, k)
          /\ buffer' = [i \in DOMAIN buffer |-> IF i < k THEN offset + i ELSE buffer[i]]
          /\ Advance(k)
    BY <1>1 DEF ReadHeader
  <2>2. faults' \in Nat
    BY <1>a, <2>1, NoFault
  <2>3. offset' \in Nat /\ wrapped' \in BOOLEAN
    BY <1>a, <2>1, AdvanceType
  <2>4. buffer' \in [0..HeaderBuffer - 1 -> Nat \cup {None}]
    BY <1>a, <2>1
  <2>5. QED BY <1>1, <2>2, <2>3, <2>4 DEF ReadHeader, files
<1>2. CASE HeaderRead
  <2>1. PICK k \in {-1, 0} : Pread(header, HeaderBuffer, k)
    BY <1>2 DEF HeaderRead
  <2>2. faults' \in Nat
    BY <1>a, <2>1, NoFault
  <2>3. Count(offset) \in Nat
    BY CountBound
  <2>4. QED BY <1>2, <2>2, <2>3 DEF HeaderRead, files
<1>3. CASE ReadSegment
  <2>1. PICK k \in 1..READ_BUFFER_SIZE :
          /\ Pread(log, READ_BUFFER_SIZE, k)
          /\ records' = IF wrapped THEN records ELSE records \o Starts(k)
          /\ Advance(k)
    BY <1>3 DEF ReadSegment, Starts
  <2>2. faults' \in Nat
    BY <1>a, <2>1, NoFault
  <2>3. offset' \in Nat /\ wrapped' \in BOOLEAN
    BY <1>a, <2>1, AdvanceType
  <2>4. Starts(k) \in Seq(Nat)
    BY <1>a, <2>1, StartsType
  <2>5. records' \in Seq(Nat)
    BY <2>1, <2>4
  <2>6. QED BY <1>3, <2>2, <2>3, <2>5 DEF ReadSegment, files
<1>4. CASE EndOfLog
  <2>1. PICK k \in {-1, 0} : Pread(log, READ_BUFFER_SIZE, k)
    BY <1>4 DEF EndOfLog
  <2>2. faults' \in Nat
    BY <1>a, <2>1, NoFault
  <2>3. QED BY <1>4, <2>2 DEF EndOfLog, files
<1>5. CASE UNCHANGED vars
  BY <1>5 DEF vars, files
<1>6. QED BY <1>1, <1>2, <1>3, <1>4, <1>5 DEF Next, Load, Loaded

LEMMA Typed == Spec => []TypeOK
BY TypeInit, TypeStep, PTL DEF Spec

-----------------------------------------------------------------------------
(* The header.                                                             *)

LEMMA HeaderInit == Init => HeaderReads /\ HeaderWhole
<1> SUFFICES ASSUME Init PROVE HeaderReads /\ HeaderWhole
  OBVIOUS
<1>1. header \in Nat /\ 0 % Block = 0
  BY ReaderAssumption DEF Init
<1>2. QED BY <1>1 DEF Init, HeaderReads, HeaderWhole

LEMMA HeaderStep == TypeOK /\ HeaderReads /\ HeaderWhole /\ [Next]_vars
                      => (HeaderReads /\ HeaderWhole)'
<1> SUFFICES ASSUME TypeOK, HeaderReads, HeaderWhole, [Next]_vars
             PROVE  HeaderReads' /\ HeaderWhole'
  OBVIOUS
<1>a. /\ HeaderBuffer \in Nat \ {0} /\ READ_BUFFER_SIZE \in Nat \ {0}
      /\ Block \in Nat \ {0} /\ HeaderBuffer % Block = 0
      /\ OffsetSpan \in Nat /\ HeaderBuffer < OffsetSpan
  BY ReaderAssumption
<1>b. header \in Nat /\ log \in Nat /\ offset \in Nat /\ faults \in Nat /\ wrapped \in BOOLEAN
      /\ DOMAIN buffer = 0..HeaderBuffer - 1
  BY DEF TypeOK
<1>1. CASE ReadHeader
  <2>1. PICK k \in 1..HeaderBuffer :
          /\ Pread(header, HeaderBuffer, k)
          /\ buffer' = [i \in DOMAIN buffer |-> IF i < k THEN offset + i ELSE buffer[i]]
          /\ Advance(k)
    BY <1>1 DEF ReadHeader
  <2>2. pc = "header" /\ pc' = "header" /\ header' = header
    BY <1>1 DEF ReadHeader, files
  <2> SUFFICES ASSUME faults' = 0, header < OffsetSpan
               PROVE  /\ offset' \in 0..header
                      /\ offset' < header => offset' % Block = 0
                      /\ IF header <= HeaderBuffer
                           THEN offset' = header /\ \A i \in 0..header - 1 : buffer'[i] = i
                           ELSE /\ offset' >= HeaderBuffer
                                /\ offset' > HeaderBuffer => buffer'[0] \in Nat \ {0}
    BY <2>2 DEF HeaderReads, HeaderWhole
  <2>3. faults = 0 /\ k = Full(header, HeaderBuffer)
    BY <1>a, <1>b, <2>1, NoFault
  <2>4. /\ offset < header
        /\ k = IF HeaderBuffer <= header - offset THEN HeaderBuffer ELSE header - offset
    <3>1. Full(header, HeaderBuffer) > 0
      BY <2>3
    <3>2. ~(offset >= header)
      BY <1>a, <1>b, <3>1, FullRead
    <3>3. k = IF HeaderBuffer <= header - offset THEN HeaderBuffer ELSE header - offset
      BY <1>a, <1>b, <2>3, <3>1, FullRead
    <3>4. QED BY <1>b, <3>2, <3>3
  <2>5. offset' = offset + k /\ offset' \in 0..header
    BY <1>a, <1>b, <2>1, <2>4, AdvanceType
  <2>6. offset % Block = 0
    BY <2>2, <2>3, <2>4 DEF HeaderReads
  <2>7. offset' < header => offset' % Block = 0
    <3> SUFFICES ASSUME offset' < header PROVE offset' % Block = 0
      OBVIOUS
    <3>1. k = HeaderBuffer
      BY <1>a, <1>b, <2>4, <2>5
    <3>2. (offset + HeaderBuffer) % Block = 0
      BY <1>a, <1>b, <2>6, MultiplePlus
    <3>3. QED BY <2>5, <3>1, <3>2
  <2>8. ASSUME header <= HeaderBuffer
        PROVE  offset' = header /\ \A i \in 0..header - 1 : buffer'[i] = i
    <3>1. offset = 0
      BY <1>b, <2>2, <2>3, <2>4, <2>8 DEF HeaderReads
    <3>2. k = header
      BY <1>a, <1>b, <2>4, <2>8, <3>1
    <3>3. QED BY <1>a, <1>b, <2>1, <2>5, <2>8, <3>1, <3>2
  <2>9. ASSUME ~(header <= HeaderBuffer)
        PROVE  /\ offset' >= HeaderBuffer
               /\ offset' > HeaderBuffer => buffer'[0] \in Nat \ {0}
    <3>1. buffer'[0] = offset
      BY <1>a, <1>b, <2>1
    <3>2. offset > 0 => offset >= HeaderBuffer
      BY <2>2, <2>3, <2>9 DEF HeaderReads
    <3>3. QED BY <1>a, <1>b, <2>1, <2>4, <2>5, <2>9, <3>1, <3>2
  <2>10. QED BY <2>5, <2>7, <2>8, <2>9
<1>2. CASE HeaderRead
  <2>1. PICK k \in {-1, 0} : Pread(header, HeaderBuffer, k)
    BY <1>2 DEF HeaderRead
  <2>2. /\ pc = "header" /\ pc' = "log" /\ header' = header /\ buffer' = buffer
        /\ headerCount' = Count(offset)
    BY <1>2 DEF HeaderRead, files
  <2> SUFFICES ASSUME faults' = 0, header < OffsetSpan
               PROVE  IF header <= HeaderBuffer
                        THEN /\ headerCount' = header \div RecordSize
                             /\ \A i \in 0..headerCount' * RecordSize - 1 : buffer[i] = i
                        ELSE buffer[0] # 0
    BY <1>a, <1>b, <2>2 DEF HeaderReads, HeaderWhole
  <2>3. faults = 0 /\ k = Full(header, HeaderBuffer)
    BY <1>a, <1>b, <2>1, NoFault
  <2>4. ~(offset < header /\ offset % Block # 0)
    BY <2>2, <2>3 DEF HeaderReads
  <2>5. offset = header
    <3>1. offset >= header
      BY <1>a, <1>b, <2>1, <2>3, <2>4, FullRead
    <3>2. offset \in 0..header
      BY <2>2, <2>3 DEF HeaderReads
    <3>3. QED BY <1>b, <3>1, <3>2
  <2>6. CASE header <= HeaderBuffer
    <3>1. headerCount' = header \div RecordSize
      BY <2>2, <2>5 DEF Count
    <3>2. headerCount' \in Nat /\ headerCount' * RecordSize <= header
      BY <1>b, <2>2, <2>5, CountBound
    <3>3. headerCount' * RecordSize \in Int
      BY <3>2, ReaderAssumption
    <3>4. \A i \in 0..header - 1 : buffer[i] = i
      BY <1>b, <2>2, <2>3, <2>5, <2>6 DEF HeaderReads
    <3>5. 0..headerCount' * RecordSize - 1 \subseteq 0..header - 1
      <4> DEFINE n == headerCount' * RecordSize
      <4>1. n \in Int /\ n <= header
        BY <3>2, <3>3
      <4> HIDE DEF n
      <4>2. 0..n - 1 \subseteq 0..header - 1
        BY <1>b, <4>1
      <4>3. QED BY <4>2 DEF n
    <3>6. QED BY <2>6, <3>1, <3>4, <3>5
  <2>7. CASE ~(header <= HeaderBuffer)
    BY <1>a, <1>b, <2>2, <2>3, <2>5, <2>7 DEF HeaderReads
  <2>8. QED BY <2>6, <2>7
<1>3. CASE ReadSegment \/ EndOfLog
  <2>1. PICK k \in Int : Pread(log, READ_BUFFER_SIZE, k)
    BY <1>a, <1>3 DEF ReadSegment, EndOfLog
  <2>2. faults' = 0 => faults = 0
    BY <1>a, <1>b, <2>1, NoFault
  <2>3. pc = "log" /\ pc' # "header" /\ UNCHANGED <<header, buffer, headerCount>>
    BY <1>3 DEF ReadSegment, EndOfLog, files
  <2>4. QED BY <2>2, <2>3 DEF HeaderReads, HeaderWhole
<1>4. CASE UNCHANGED vars
  BY <1>4 DEF vars, files, HeaderReads, HeaderWhole
<1>5. QED BY <1>1, <1>2, <1>3, <1>4 DEF Next, Load, Loaded

\* A header that fits is read as a whole and counted right; of a longer one the
\* start is lost (io.h:144-159).  For every length and every size of a record and
\* of the buffer, as long as no read fails or is short.
THEOREM HeaderRight == Spec => []HeaderWhole
<1>1. Spec => [](HeaderReads /\ HeaderWhole)
  BY Typed, HeaderInit, HeaderStep, PTL DEF Spec
<1>2. QED BY <1>1, PTL

-----------------------------------------------------------------------------
(* The order log.                                                          *)

LEMMA LogInit == Init => LogReads
BY DEF Init, LogReads

LEMMA Appended ==
  ASSUME NEW s \in Seq(Nat), NEW t \in Seq(Nat)
  PROVE  /\ s \o t \in Seq(Nat) /\ Len(s \o t) = Len(s) + Len(t)
         /\ \A i \in 1..Len(s \o t) : (s \o t)[i] = IF i <= Len(s) THEN s[i] ELSE t[i - Len(s)]
OBVIOUS

\* Where the records of a read start, counted from the start of the log.
LEMMA StartsAt ==
  ASSUME NEW k \in Nat, NEW n \in Nat, offset = n * RecordSize, NEW i \in 1..Count(k)
  PROVE  Starts(k)[i] = (n + i - 1) * RecordSize
<1>1. RecordSize \in Nat \ {0} /\ i - 1 \in Nat
  BY CountBound, ReaderAssumption
<1>2. Starts(k)[i] = (n * RecordSize) + ((i - 1) * RecordSize)
  BY DEF Starts
<1>3. (n * RecordSize) + ((i - 1) * RecordSize) = (n + (i - 1)) * RecordSize
  BY <1>1
<1>4. n + (i - 1) = n + i - 1
  BY <1>1
<1>5. QED BY <1>2, <1>3, <1>4

LEMMA LogStep == TypeOK /\ RecordsApart /\ LogReads /\ [Next]_vars => LogReads'
<1> SUFFICES ASSUME TypeOK, RecordsApart, LogReads, [Next]_vars PROVE LogReads'
  OBVIOUS
<1>a. /\ HeaderBuffer \in Nat \ {0} /\ READ_BUFFER_SIZE \in Nat \ {0}
      /\ Block \in Nat \ {0} /\ READ_BUFFER_SIZE % Block = 0
      /\ RecordSize \in Nat \ {0} /\ READ_BUFFER_SIZE % RecordSize = 0
  BY ReaderAssumption
<1>b. /\ header \in Nat /\ log \in Nat /\ offset \in Nat /\ faults \in Nat
      /\ wrapped \in BOOLEAN /\ records \in Seq(Nat)
  BY DEF TypeOK
<1>1. CASE ReadHeader
  BY <1>1 DEF ReadHeader, LogReads
<1>2. CASE HeaderRead
  <2>1. pc = "header" /\ pc' = "log" /\ offset' = 0 /\ log' = log /\ records' = records
    BY <1>2 DEF HeaderRead, files
  <2>2. records' = <<>>
    BY <2>1 DEF RecordsApart
  <2>3. /\ 0 % Block = 0 /\ Len(<<>>) = 0 /\ 0 * RecordSize = 0 /\ 0 \div RecordSize = 0
        /\ 0 \in 0..log /\ 1..0 = {}
    BY <1>a, <1>b
  <2>4. QED BY <2>1, <2>2, <2>3 DEF LogReads
<1>3. CASE ReadSegment
  <2>1. PICK k \in 1..READ_BUFFER_SIZE :
          /\ Pread(log, READ_BUFFER_SIZE, k)
          /\ records' = IF wrapped THEN records ELSE records \o Starts(k)
          /\ Advance(k)
    BY <1>3 DEF ReadSegment, Starts
  <2>2. pc = "log" /\ pc' = "log" /\ log' = log
    BY <1>3 DEF ReadSegment, files
  <2> DEFINE n == Len(records)
             next == records \o Starts(k)
  <2> SUFFICES ASSUME ~wrapped', faults' = 0
               PROVE  /\ offset' \in 0..log
                      /\ offset' < log => offset' = Len(records') * RecordSize /\ offset' % Block = 0
                      /\ offset' = log => Len(records') = log \div RecordSize
                      /\ \A i \in 1..Len(records') : records'[i] = (i - 1) * RecordSize
    BY <2>2 DEF LogReads
  <2>3. faults = 0 /\ k = Full(log, READ_BUFFER_SIZE)
    BY <1>a, <1>b, <2>1, NoFault
  <2>4. ~wrapped /\ offset' = offset + k
    BY <1>a, <1>b, <2>1, AdvanceType
  <2>5. /\ offset < log
        /\ k = IF READ_BUFFER_SIZE <= log - offset THEN READ_BUFFER_SIZE ELSE log - offset
    <3>1. Full(log, READ_BUFFER_SIZE) > 0
      BY <2>3
    <3>2. ~(offset >= log)
      BY <1>a, <1>b, <3>1, FullRead
    <3>3. k = IF READ_BUFFER_SIZE <= log - offset THEN READ_BUFFER_SIZE ELSE log - offset
      BY <1>a, <1>b, <2>3, <3>1, FullRead
    <3>4. QED BY <1>b, <3>2, <3>3
  <2>6. /\ offset = n * RecordSize /\ offset % Block = 0 /\ n \in Nat
        /\ \A i \in 1..n : records[i] = (i - 1) * RecordSize
    BY <1>b, <2>2, <2>3, <2>4, <2>5 DEF LogReads
  <2>7. records' = next
    BY <2>1, <2>4
  <2>8. Starts(k) \in Seq(Nat) /\ Len(Starts(k)) = Count(k) /\ Count(k) \in Nat
    BY <1>a, <1>b, <2>1, StartsType, CountBound
  <2>9. /\ Len(next) = n + Count(k)
        /\ \A i \in 1..Len(next) : next[i] = IF i <= n THEN records[i] ELSE Starts(k)[i - n]
    BY <1>b, <2>8, Appended
  <2>10. offset' \in 0..log
    BY <1>a, <1>b, <2>1, <2>4, <2>5
  <2>11. ASSUME offset' < log
         PROVE  offset' = Len(records') * RecordSize /\ offset' % Block = 0
    <3>1. k = READ_BUFFER_SIZE
      BY <1>a, <1>b, <2>4, <2>5, <2>11
    <3>2. offset' % Block = 0
      BY <1>a, <1>b, <2>4, <2>6, <3>1, MultiplePlus
    <3>3. k = Count(k) * RecordSize
      <4>1. k = (RecordSize * Count(k)) + (k % RecordSize)
        BY <1>a, <3>1, DivMod DEF Count
      <4>2. QED BY <1>a, <2>8, <3>1, <4>1
    <3> HIDE DEF n
    <3>4. (n * RecordSize) + (Count(k) * RecordSize) = (n + Count(k)) * RecordSize
      <4>1. \A x, y, z \in Nat : (x * z) + (y * z) = (x + y) * z
        OBVIOUS
      <4>2. n \in Nat /\ Count(k) \in Nat /\ RecordSize \in Nat
        BY <1>a, <2>6, <2>8
      <4>3. QED BY <4>1, <4>2
    <3>5. QED BY <2>4, <2>6, <2>7, <2>9, <3>2, <3>3, <3>4
  <2>12. ASSUME offset' = log PROVE Len(records') = log \div RecordSize
    <3> HIDE DEF n
    <3>1. ((n * RecordSize) + k) \div RecordSize = n + (k \div RecordSize)
      <4>1. n \in Nat /\ k \in Nat /\ RecordSize \in Nat \ {0}
        BY <1>a, <2>1, <2>6
      <4>2. QED BY <4>1, DivPlus, Zenon
    <3>2. QED BY <2>4, <2>6, <2>7, <2>9, <2>12, <3>1 DEF Count
  <2>13. ASSUME NEW i \in 1..Len(records') PROVE records'[i] = (i - 1) * RecordSize
    <3>1. CASE i <= n
      BY <2>6, <2>7, <2>9, <3>1
    <3>2. CASE ~(i <= n)
      <4> HIDE DEF n
      <4>1. i - n \in 1..Count(k) /\ n + (i - n) - 1 = i - 1
        BY <2>6, <2>7, <2>8, <2>9, <3>2
      <4>2. Starts(k)[i - n] = (n + (i - n) - 1) * RecordSize
        BY <1>a, <2>1, <2>6, <4>1, StartsAt
      <4>3. QED BY <2>7, <2>9, <3>2, <4>1, <4>2
    <3>3. QED BY <3>1, <3>2
  <2>14. QED BY <2>10, <2>11, <2>12, <2>13
<1>4. CASE EndOfLog
  <2>1. PICK k \in {-1, 0} : Pread(log, READ_BUFFER_SIZE, k)
    BY <1>4 DEF EndOfLog
  <2>2. pc = "log" /\ pc' = "done" /\ UNCHANGED <<log, offset, records, wrapped>>
    BY <1>4 DEF EndOfLog, files
  <2>3. faults' = 0 => faults = 0 /\ k = Full(log, READ_BUFFER_SIZE)
    BY <1>a, <1>b, <2>1, NoFault
  <2>4. ASSUME ~wrapped', faults' = 0 PROVE offset = log
    <3>1. offset \in 0..log /\ (offset < log => offset % Block = 0)
      BY <2>2, <2>3, <2>4 DEF LogReads
    <3>2. offset >= log
      BY <1>a, <1>b, <2>1, <2>3, <2>4, <3>1, FullRead
    <3>3. QED BY <1>b, <3>1, <3>2
  <2>5. QED BY <2>2, <2>3, <2>4 DEF LogReads
<1>5. CASE UNCHANGED vars
  BY <1>5 DEF vars, files, LogReads
<1>6. QED BY <1>1, <1>2, <1>3, <1>4, <1>5 DEF Next, Load, Loaded

LEMMA ApartInit == Init => RecordsApart
<1> SUFFICES ASSUME Init PROVE RecordsApart
  OBVIOUS
<1>1. records = <<>> /\ pc = "header" /\ 1..Len(<<>>) = {}
  BY DEF Init
<1>2. QED BY <1>1 DEF RecordsApart, Apart

LEMMA ApartStep == TypeOK /\ RecordsApart /\ [Next]_vars => RecordsApart'
<1> SUFFICES ASSUME TypeOK, RecordsApart, [Next]_vars PROVE RecordsApart'
  OBVIOUS
<1>a. READ_BUFFER_SIZE \in Nat \ {0} /\ RecordSize \in Nat \ {0}
  BY ReaderAssumption
<1>b. offset \in Nat /\ wrapped \in BOOLEAN /\ records \in Seq(Nat)
  BY DEF TypeOK
<1>1. CASE ReadHeader
  BY <1>1 DEF ReadHeader, RecordsApart
<1>2. CASE HeaderRead
  <2>1. pc = "header" /\ pc' = "log" /\ records' = records
    BY <1>2 DEF HeaderRead
  <2>2. records' = <<>> /\ 1..Len(<<>>) = {}
    BY <2>1 DEF RecordsApart
  <2>3. QED BY <2>1, <2>2 DEF RecordsApart, EndBelow, Apart
<1>3. CASE ReadSegment
  <2>1. PICK k \in 1..READ_BUFFER_SIZE :
          /\ records' = IF wrapped THEN records ELSE records \o Starts(k)
          /\ Advance(k)
    BY <1>3 DEF ReadSegment, Starts
  <2>2. pc = "log" /\ pc' = "log"
    BY <1>3 DEF ReadSegment
  <2>3. CASE wrapped
    <3>1. records' = records /\ wrapped'
      BY <1>a, <1>b, <2>1, <2>3, AdvanceType
    <3>2. QED BY <2>2, <3>1 DEF RecordsApart
  <2>4. CASE ~wrapped
    <3> DEFINE n == Len(records)
               next == records \o Starts(k)
    <3>1. records' = next /\ n \in Nat
      BY <1>b, <2>1, <2>4
    <3>2. EndBelow(records, offset) /\ Apart(records)
      BY <2>2, <2>4 DEF RecordsApart
    <3>3. Starts(k) \in Seq(Nat) /\ Len(Starts(k)) = Count(k) /\ Count(k) \in Nat
      BY <1>a, <1>b, <2>1, StartsType, CountBound
    <3>4. /\ Len(next) = n + Count(k)
          /\ \A i \in 1..Len(next) : next[i] = IF i <= n THEN records[i] ELSE Starts(k)[i - n]
      BY <1>b, <3>3, Appended
    <3>5. /\ \A i \in 1..n : records[i] \in Nat /\ records[i] + RecordSize <= offset
          /\ \A i, j \in 1..n : i < j => records[i] + RecordSize <= records[j]
      BY <1>b, <3>2 DEF EndBelow, Apart
    <3>6. ASSUME NEW i \in 1..Count(k)
          PROVE  /\ Starts(k)[i] \in Nat /\ Starts(k)[i] >= offset
                 /\ Starts(k)[i] + RecordSize <= offset + k
      <4>1. Starts(k)[i] = offset + ((i - 1) * RecordSize)
        BY DEF Starts
      <4>2. i - 1 \in Nat /\ i \in Nat
        BY <3>3
      <4>3. ((i - 1) * RecordSize) + RecordSize = i * RecordSize /\ (i - 1) * RecordSize \in Nat
        BY <1>a, <4>2
      <4>4. i * RecordSize <= k
        BY <2>1, <1>a, CountBound
      <4> DEFINE x == (i - 1) * RecordSize
                 y == i * RecordSize
      <4>5. Starts(k)[i] = offset + x /\ x + RecordSize = y /\ x \in Nat /\ y <= k
        BY <4>1, <4>3, <4>4
      <4> HIDE DEF x, y
      <4>6. QED BY <1>a, <1>b, <2>1, <4>5
    <3>7. ASSUME NEW i \in 1..Count(k), NEW j \in 1..Count(k), i < j
          PROVE  Starts(k)[i] + RecordSize <= Starts(k)[j]
      <4>1. PICK d \in Nat : j = i + 1 + d
        <5>1. j - i - 1 \in Nat /\ j = i + 1 + (j - i - 1)
          BY <3>3, <3>7
        <5>2. QED BY <5>1
      <4>2. i - 1 \in Nat /\ j - 1 = (i - 1) + (1 + d)
        BY <3>3, <4>1
      <4>3. (j - 1) * RecordSize = ((i - 1) * RecordSize) + (RecordSize + (d * RecordSize))
        BY <1>a, <4>1, <4>2
      <4>4. d * RecordSize \in Nat /\ (i - 1) * RecordSize \in Nat
        BY <1>a, <4>1, <4>2
      <4>5. Starts(k)[i] = offset + ((i - 1) * RecordSize)
            /\ Starts(k)[j] = offset + ((j - 1) * RecordSize)
        BY DEF Starts
      <4> DEFINE x == (i - 1) * RecordSize
                 y == (j - 1) * RecordSize
                 z == d * RecordSize
      <4>6. /\ Starts(k)[i] = offset + x /\ Starts(k)[j] = offset + y
            /\ y = x + (RecordSize + z) /\ x \in Nat /\ z \in Nat
        BY <4>3, <4>4, <4>5
      <4> HIDE DEF x, y, z
      <4>7. QED BY <1>a, <1>b, <4>6
    <3> HIDE DEF n, next
    <3>8. \A i \in 1..Len(next) : i > n => i - n \in 1..Count(k)
      BY <3>1, <3>3, <3>4
    <3>9. Apart(next)
      <4> SUFFICES ASSUME NEW i \in 1..Len(next), NEW j \in 1..Len(next), i < j
                   PROVE  next[i] + RecordSize <= next[j]
        BY DEF Apart
      <4>0. i \in Nat /\ j \in Nat
        BY <3>1, <3>3, <3>4
      <4>1. CASE j <= n
        <5>1. i \in 1..n /\ j \in 1..n /\ i <= n
          BY <3>1, <4>0, <4>1
        <5>2. next[i] = records[i] /\ next[j] = records[j]
          BY <3>4, <4>1, <5>1
        <5>3. QED BY <3>5, <5>1, <5>2
      <4>2. CASE i <= n /\ j > n
        <5>1. i \in 1..n /\ j - n \in 1..Count(k) /\ ~(j <= n)
          BY <3>1, <3>8, <4>0, <4>2
        <5>2. next[i] = records[i] /\ next[j] = Starts(k)[j - n]
          BY <3>4, <4>2, <5>1
        <5>3. /\ records[i] \in Nat /\ records[i] + RecordSize <= offset
              /\ Starts(k)[j - n] \in Nat /\ Starts(k)[j - n] >= offset
          BY <3>5, <3>6, <5>1
        <5>4. QED BY <1>a, <1>b, <5>2, <5>3
      <4>3. CASE i > n
        <5>1. /\ i - n \in 1..Count(k) /\ j - n \in 1..Count(k) /\ i - n < j - n
              /\ ~(i <= n) /\ ~(j <= n)
          BY <3>1, <3>8, <4>0, <4>3
        <5>2. next[i] = Starts(k)[i - n] /\ next[j] = Starts(k)[j - n]
          BY <3>4, <5>1
        <5>3. QED BY <3>7, <5>1, <5>2
      <4>4. QED BY <3>1, <4>0, <4>1, <4>2, <4>3
    <3>10. ASSUME ~wrapped' PROVE EndBelow(next, offset')
      <4>1. offset' = offset + k
        BY <1>a, <1>b, <2>1, <3>10, AdvanceType
      <4> SUFFICES ASSUME NEW i \in 1..Len(next) PROVE next[i] + RecordSize <= offset + k
        BY <4>1 DEF EndBelow
      <4>2. CASE i <= n
        <5>1. i \in 1..n /\ next[i] = records[i]
          BY <3>1, <3>3, <3>4, <4>2
        <5>2. records[i] \in Nat /\ records[i] + RecordSize <= offset
          BY <3>5, <5>1
        <5>3. QED BY <1>a, <1>b, <2>1, <5>1, <5>2
      <4>3. CASE i > n
        <5>1. i - n \in 1..Count(k) /\ ~(i <= n)
          BY <3>1, <3>3, <3>4, <3>8, <4>3
        <5>2. QED BY <3>4, <3>6, <5>1
      <4>4. QED BY <3>1, <3>3, <3>4, <4>2, <4>3
    <3>11. QED BY <2>2, <3>1, <3>9, <3>10 DEF RecordsApart
  <2>5. QED BY <2>3, <2>4
<1>4. CASE EndOfLog
  BY <1>4 DEF EndOfLog, RecordsApart
<1>5. CASE UNCHANGED vars
  BY <1>5 DEF vars, RecordsApart
<1>6. QED BY <1>1, <1>2, <1>3, <1>4, <1>5 DEF Next, Load, Loaded

\* The segments of an order log have its records once and in order, and all of
\* them at the end (io.h:161-175), for every length, record and buffer, as long
\* as offset does not wrap and no read fails or is short.
THEOREM LogRight == Spec => []LogWhole
<1>1. TypeOK /\ RecordsApart /\ LogReads => LogWhole
  <2>1. TypeOK => DOMAIN records = 1..Len(records)
    BY DEF TypeOK
  <2>2. TypeOK /\ pc = "header" /\ RecordsApart => DOMAIN records = {}
    BY DEF RecordsApart
  <2>3. QED BY <2>1, <2>2 DEF LogReads, LogWhole
<1>2. QED BY Typed, ApartInit, ApartStep, LogInit, LogStep, <1>1, PTL DEF Spec

\* No byte of an order log is in two records, whatever reads fail or are short
\* and however often offset wraps (io.h:162-164).
THEOREM BytesOnce == Spec => []NoByteTwice
<1>1. TypeOK /\ RecordsApart => NoByteTwice
  BY DEF TypeOK, RecordsApart, Apart, NoByteTwice
<1>2. QED BY Typed, ApartInit, ApartStep, <1>1, PTL DEF Spec

=============================================================================
