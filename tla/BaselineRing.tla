---------------------------- MODULE BaselineRing ----------------------------
(***************************************************************************)
(* The program of src/baseline_entrance.cpp: the ring, the loader function *)
(* and nearly the matching_thread of the entrance, scheduled differently.  *)
(* main itself loads a day, and only then creates the workers for it,      *)
(* which end with the day; it joins them before it loads the next.  Each   *)
(* day starts at buffer 0: the index direct_io_load returns is dropped.    *)
(***************************************************************************)
EXTENDS BufferRingDelivery

NoWorker == [w \in Worker |-> "none"]

BaselineInit ==
  /\ finish_bit = [i \in Slots |-> Worker] /\ flag = [i \in Slots |-> "IN_PROCESS"]
  /\ path = [i \in Slots |-> None] /\ header = [i \in Slots |-> None]
  /\ order_data = [i \in Slots |-> <<>>] /\ order_count = [i \in Slots |-> 0]
  /\ start_date \in StartDates /\ path_list = <<>>
  /\ ioPc = "list" /\ day = 1 /\ offset = 0 /\ ioIndex = 0
  /\ pc = NoWorker /\ index = [w \in Worker |-> 0]
  /\ engine = [w \in Worker |-> None] /\ crashed = FALSE
  /\ published = 0 /\ seen = [w \in Worker |-> <<>>]

-----------------------------------------------------------------------------
(* main                                                                    *)

LoadReturnsIndex ==                       \* mutant: the next day starts where this one ends
  /\ ioPc = "end" /\ Publish
  /\ ioIndex' = INCR(ioIndex)
  /\ ioPc' = "create"
  /\ UNCHANGED <<flag, path, header, order_data, order_count, day, offset, args, work, seen>>

\* direct_io_load publishes the end of the day and returns.
LoadReturns ==
  /\ ioPc = "end" /\ Publish
  /\ ioIndex' = 0
  /\ ioPc' = "create"
  /\ UNCHANGED <<flag, path, header, order_data, order_count, day, offset, args, work, seen>>

\* A worker may run before the others are created.  Its engine pointer is not
\* initialised.
CreateWorker(w) ==
  /\ ioPc = "create" /\ pc[w] = "none"
  /\ pc' = [pc EXCEPT ![w] = "wait"]
  /\ index' = [index EXCEPT ![w] = 0]
  /\ engine' = [engine EXCEPT ![w] = None]
  /\ ioPc' = IF \A v \in Worker \ {w} : pc[v] # "none" THEN "join" ELSE "create"
  /\ UNCHANGED <<buffers, day, offset, ioIndex, args, crashed, published, seen>>

Join ==
  /\ ioPc = "join" /\ \A w \in Worker : pc[w] = "ended"
  /\ pc' = NoWorker
  /\ NextDay
  /\ UNCHANGED <<buffers, offset, ioIndex, args, index, engine, crashed, published, seen>>

-----------------------------------------------------------------------------
(* matching_thread                                                         *)

\* The thread ends with the day, after it has released the last buffer.
ReleaseOrEnd(w) ==
  /\ pc[w] = "release"
  /\ finish_bit' = [finish_bit EXCEPT ![index[w]] = @ \cup {w}]
  /\ IF flag[index[w]] = "FILE_END"
       THEN /\ pc' = [pc EXCEPT ![w] = "ended"]
            /\ UNCHANGED index
       ELSE /\ index' = [index EXCEPT ![w] = INCR(@)]
            /\ pc' = [pc EXCEPT ![w] = "wait"]
  /\ UNCHANGED <<flag, path, header, order_data, order_count, io, engine, crashed, published, seen>>

-----------------------------------------------------------------------------

Main == /\ ~crashed
        /\ \/ List \/ StartDay \/ ReadHeader \/ ReadSegment \/ PublishSegment \/ NextBuffer
           \/ EndOfLog \/ LoadReturns \/ (\E w \in Worker : CreateWorker(w)) \/ Join

BaselineWork(w) == /\ ~crashed
                   /\ \/ Acquire(w) \/ StartEngine(w) \/ InsertOrders(w) \/ UseNoEngine(w)
                      \/ Complete(w) \/ ReleaseOrEnd(w)

\* main waits for a buffer that only a worker could release, before any worker exists.
LoadsForEver == ioPc = "next" /\ ~Free /\ pc = NoWorker

\* main has returned, or the process has crashed, or main spins for ever.
BaselineStops ==
  /\ ioPc = "done" \/ crashed \/ LoadsForEver
  /\ UNCHANGED vars

BaselineNext == Main \/ (\E w \in Worker : BaselineWork(w)) \/ BaselineStops

\* No thread is descheduled for ever; sentResult need not return.
BaselineSpec ==
  /\ BaselineInit /\ [][BaselineNext]_vars
  /\ WF_vars(Main) /\ \A w \in Worker : WF_vars(BaselineWork(w) /\ ~Sends(w))

-----------------------------------------------------------------------------
(* Properties.  Implements says that the workers get the segments as those *)
(* of the entrance do (baseline_entrance.cpp:13-68).                       *)

\* A day and its end fit into the ring, and it has orders.
Completes(d) == Segments[d] \in 1..BUFFER_NUM - 1

FirstStop == {d \in ToSet(Listed) : ~Completes(d) /\ \A e \in ToSet(Listed) : e < d => Completes(e)}

\* Where the program stops, it stops rightly: main returns only when every session
\* has all days; the process crashes only at a day without orders, and main spins
\* only at a day too long for the ring, with no earlier day of either kind and all
\* sessions of the earlier days completed (baseline_entrance.cpp:86-93, io.h:169).
StopsRightly ==
  /\ ioPc = "done" => FirstStop = {} /\ \A w \in Worker : seen[w] = Stream
  /\ crashed \/ LoadsForEver =>
       \E i \in DOMAIN Listed :
         /\ \A j \in 1..i - 1 : Completes(Listed[j])
         /\ IF crashed THEN Segments[Listed[i]] = 0 ELSE Segments[Listed[i]] >= BUFFER_NUM
         /\ \A w \in Worker : seen[w] = StreamOf(SubSeq(Listed, 1, i - 1))

\* All sessions of all days are completed up to the first day that has no orders,
\* where the process crashes, or that with its end does not fit into the ring,
\* where main spins for ever (baseline_entrance.cpp:86-93, io.h:169); when there
\* is no such day main returns.  All this unless a call of sentResult does not return:
\* main then waits in join for its worker.
RunsUpToFirstStop ==
  SendsReturn =>
    <>[] /\ \A w \in Worker :
              seen[w] = StreamOf(SelectSeq(Listed, LAMBDA d : \A e \in FirstStop : d < e))
         /\ IF FirstStop = {} THEN ioPc = "done"
            ELSE IF FirstStop \subseteq Empty THEN crashed
            ELSE LoadsForEver

=============================================================================
