-------------------------- MODULE BufferRingDelivery --------------------------
(***************************************************************************)
(* The ring of buffers delivers the days to the workers as SegmentStream   *)
(* promises.                                                               *)
(***************************************************************************)
EXTENDS BufferRing

\* What a worker is to do with the buffers of a day: the segments of its order
\* log with an engine made from that day's path and header, then its end.
Day(d) ==
  [s \in 1..Segments[d] + 1 |->
     [engine |-> <<d, d>>,
      orders |-> IF s <= Segments[d] THEN <<d, s>> ELSE <<>>,
      flag   |-> IF s > Segments[d] THEN "FILE_END"
                 ELSE IF s = 1 THEN "FILE_HEAD" ELSE "IN_PROCESS"]]

StreamOf(days) == FlattenSeq([i \in DOMAIN days |-> Day(days[i])])

Stream == StreamOf(Listed)

Abstract == INSTANCE SegmentStream
              WITH Capacity <- BUFFER_NUM, stream <- Stream, sent <- published

\* Every worker processes every segment of the days from the start date on, once
\* and in the order of the dates, with the engine of its day (entrance.cpp:13-67,
\* io.h:108-188); the engine is made at the head of the day and completed at its
\* end.  A day without orders is never processed, and none after it.
Implements == Abstract!Spec

Empty == {d \in ToSet(Listed) : Segments[d] = 0}

\* Every call of sentResult returns, as no line of client.h makes sure: the server
\* reads what is sent, and no SIGPIPE ends the process there.
SendsReturn == \A w \in Worker : []<>~Sends(w)

\* If all listed days have orders, all sessions of all days are completed, unless
\* sentResult does not return (entrance.cpp:13-67).
EveryDayCompletes ==
  SendsReturn /\ Empty = {} => <>(\A w \in Worker : seen[w] = Stream /\ pc[w] = "wait")

\* The process crashes only when a worker comes to a day without orders.  What the
\* others lose of the days before it is less than a ring: results of those days
\* that have not been sent by then never are (entrance.cpp:44-63, io.h:162).
EndsAtEmptyDay ==
  crashed => \E i \in DOMAIN Listed :
    LET before == StreamOf(SubSeq(Listed, 1, i - 1))
    IN /\ Segments[Listed[i]] = 0 /\ \A j \in 1..i - 1 : Segments[Listed[j]] # 0
       /\ \E w \in Worker : seen[w] = before
       /\ \A w \in Worker : Len(seen[w]) > Len(before) - BUFFER_NUM

\* What the spin loops of the loader and of a worker wait for has not come.
LoaderSpins  == ioPc \in {"head", "next"} /\ ~Free
WorkerSpins(w) == pc[w] = "wait" /\ w \in finish_bit[index[w]]

\* The threads never all wait for each other (entrance.cpp:15, io.h:137, io.h:169):
\* when none of them goes on, the loader is through and nothing is left to process.
StopsWhenAllDone ==
  (LoaderSpins \/ ioPc = "done") /\ (\A w \in Worker : WorkerSpins(w)) =>
    ioPc = "done" /\ \A w \in Worker : seen[w] = Stream

=============================================================================
