------------------------------ MODULE BufferRing ------------------------------
(***************************************************************************)
(* The threads of src/entrance.cpp and the ring of buffers of src/io.h     *)
(* between them.  io_thread lists the days from the start date on and      *)
(* loads one after the other, the order log of a day in segments of        *)
(* READ_BUFFER_SIZE; each matching thread runs one session over every day  *)
(* with an engine of its own.                                              *)
(*                                                                         *)
(* A buffer passes from the loader to all workers and back by finish_bit,  *)
(* the one atomic variable: bit w is set when worker w has finished with   *)
(* the buffer.  Both sides spin on it; a turn of a spin loop that changes  *)
(* nothing is a stuttering step.  The other fields are plain memory that   *)
(* finish_bit orders, so each access to them is a step of its thread.      *)
(***************************************************************************)
EXTENDS Integers, Sequences, SequencesExt

CONSTANTS
  Worker,        \* WORKER_THREAD_NUM matching threads
  BUFFER_NUM,
  Segments,      \* Segments[d]: reads that the order log of entry d of DATA_PREFIX takes
  StartDates,    \* the arguments of the program, None for none
  None           \* no argument, no engine

ASSUME RingAssumption == BUFFER_NUM \in Nat \ {0}

\* Entries are numbered in the order of their names, which are dates.  Nothing is
\* read from an order log that is empty or cannot be opened, as that of an entry
\* which is not the directory of a day.
ASSUME DaysAssumption == Segments \in Seq(Nat)

\* An argument is known by the first entry that is not before it.
ASSUME StartAssumption ==
  /\ StartDates \subseteq (1..Len(Segments) + 1) \cup {None}
  /\ None \notin Nat /\ None \notin Nat \X Nat

VARIABLES
  \* buffers[i], i = 0..BUFFER_NUM - 1
  finish_bit,    \* the workers whose bit is set
  flag,
  path,          \* the day it is of
  header,        \* the day of its prev_trade_info and alphas
  order_data,    \* the segment in it: <<day, number>>
  order_count,   \* 1 if the segment counts, 0 if there are no orders
  \* io_thread and direct_io_load
  start_date, path_list, ioPc, day, offset, ioIndex,
  \* matching_thread
  pc, index, engine,
  crashed        \* the process has ended

\* History: what was published, and what each worker processed.
VARIABLES published, seen

buffers == <<finish_bit, flag, path, header, order_data, order_count>>
io      == <<start_date, path_list, ioPc, day, offset, ioIndex>>
work    == <<pc, index, engine, crashed>>
vars    == <<buffers, io, work, published, seen>>

args    == <<start_date, path_list>>

Slots == 0..BUFFER_NUM - 1

IncrUnmasked(i) == i + 1                  \* mutant: off the end of the ring

INCR(i) == (i + 1) % BUFFER_NUM

Init ==
  /\ finish_bit = [i \in Slots |-> Worker] /\ flag = [i \in Slots |-> "IN_PROCESS"]
  /\ path = [i \in Slots |-> None] /\ header = [i \in Slots |-> None]
  /\ order_data = [i \in Slots |-> <<>>] /\ order_count = [i \in Slots |-> 0]
  /\ start_date \in StartDates /\ path_list = <<>>
  /\ ioPc = "list" /\ day = 1 /\ offset = 0 /\ ioIndex = 0
  /\ pc = [w \in Worker |-> "wait"] /\ index = [w \in Worker |-> 0]
  /\ engine = [w \in Worker |-> None] /\ crashed = FALSE
  /\ published = 0 /\ seen = [w \in Worker |-> <<>>]

-----------------------------------------------------------------------------
(* io_thread: direct_io_load for every day.                                *)

\* The entries that are not before the start date, sorted.
Listed == LET before == IF start_date = None THEN 0 ELSE start_date - 1
          IN  [i \in 1..Len(Segments) - before |-> before + i]

ListUnsorted ==                           \* mutant: not sorted, in some order of readdir
  /\ ioPc = "list"
  /\ path_list' = Reverse(Listed)
  /\ ioPc' = IF Listed = <<>> THEN "done" ELSE "head"
  /\ UNCHANGED <<buffers, start_date, day, offset, ioIndex, work, published, seen>>

\* load_path_list: what readdir gives in any order is sorted.
List ==
  /\ ioPc = "list"
  /\ path_list' = Listed
  /\ ioPc' = IF Listed = <<>> THEN "done" ELSE "head"
  /\ UNCHANGED <<buffers, start_date, day, offset, ioIndex, work, published, seen>>

Free == finish_bit[ioIndex] = Worker

\* The first buffer of a day.
StartDay ==
  /\ ioPc = "head" /\ Free
  /\ flag' = [flag EXCEPT ![ioIndex] = "FILE_HEAD"]
  /\ path' = [path EXCEPT ![ioIndex] = path_list[day]]
  /\ offset' = 0
  /\ ioPc' = "header"
  /\ UNCHANGED <<finish_bit, header, order_data, order_count, day, ioIndex, args, work, published, seen>>

ReadHeader ==
  /\ ioPc = "header"
  /\ header' = [header EXCEPT ![ioIndex] = path_list[day]]
  /\ ioPc' = "read"
  /\ UNCHANGED <<finish_bit, flag, path, order_data, order_count, day, offset, ioIndex, args, work,
                 published, seen>>

ReadSegment ==
  /\ ioPc = "read" /\ offset < Segments[path_list[day]]
  /\ offset' = offset + 1
  /\ order_data' = [order_data EXCEPT ![ioIndex] = <<path_list[day], offset + 1>>]
  /\ order_count' = [order_count EXCEPT ![ioIndex] = 1]
  /\ ioPc' = "publish"
  /\ UNCHANGED <<finish_bit, flag, path, header, day, ioIndex, args, work, published, seen>>

Publish ==
  /\ finish_bit' = [finish_bit EXCEPT ![ioIndex] = {}]
  /\ published' = published + 1

PublishSegment ==
  /\ ioPc = "publish"
  /\ Publish
  /\ ioIndex' = INCR(ioIndex)
  /\ ioPc' = "next"
  /\ UNCHANGED <<flag, path, header, order_data, order_count, day, offset, args, work, seen>>

NextBufferUnchecked ==                    \* mutant: the spin loop is left out
  /\ ioPc = "next"
  /\ flag' = [flag EXCEPT ![ioIndex] = "IN_PROCESS"]
  /\ order_count' = [order_count EXCEPT ![ioIndex] = 0]
  /\ ioPc' = "read"
  /\ UNCHANGED <<finish_bit, path, header, order_data, day, offset, ioIndex, args, work, published, seen>>

NextBufferKeepsCount ==                   \* mutant: order_count is not reset
  /\ ioPc = "next" /\ Free
  /\ flag' = [flag EXCEPT ![ioIndex] = "IN_PROCESS"]
  /\ ioPc' = "read"
  /\ UNCHANGED <<finish_bit, path, header, order_data, order_count, day, offset, ioIndex, args, work,
                 published, seen>>

NextBuffer ==
  /\ ioPc = "next" /\ Free
  /\ flag' = [flag EXCEPT ![ioIndex] = "IN_PROCESS"]
  /\ order_count' = [order_count EXCEPT ![ioIndex] = 0]
  /\ ioPc' = "read"
  /\ UNCHANGED <<finish_bit, path, header, order_data, day, offset, ioIndex, args, work, published, seen>>

\* pread found nothing more: the buffer at hand ends the day.  When it is the
\* first, nothing heads the day, and order_count is that of its last use.
EndOfLog ==
  /\ ioPc = "read" /\ offset >= Segments[path_list[day]]
  /\ flag' = [flag EXCEPT ![ioIndex] = "FILE_END"]
  /\ ioPc' = "end"
  /\ UNCHANGED <<finish_bit, path, header, order_data, order_count, day, offset, ioIndex, args, work,
                 published, seen>>

NextDay == /\ day' = day + 1
           /\ ioPc' = IF day < Len(path_list) THEN "head" ELSE "done"

PublishEndSameBuffer ==                   \* mutant: returns buffer_index, not INCR of it
  /\ ioPc = "end" /\ Publish /\ NextDay
  /\ UNCHANGED <<flag, path, header, order_data, order_count, offset, ioIndex, args, work, seen>>

PublishEnd ==
  /\ ioPc = "end" /\ Publish /\ NextDay
  /\ ioIndex' = INCR(ioIndex)
  /\ UNCHANGED <<flag, path, header, order_data, order_count, offset, args, work, seen>>

-----------------------------------------------------------------------------
(* matching_thread                                                         *)

Acquire(w) ==
  /\ pc[w] = "wait" /\ w \notin finish_bit[index[w]]
  /\ pc' = [pc EXCEPT ![w] = "start"]
  /\ UNCHANGED <<buffers, io, index, engine, crashed, published, seen>>

\* A buffer that heads a day brings a new engine, with the path under which its
\* results are sent and the instruments and alphas of the header.
StartEngine(w) ==
  /\ pc[w] = "start"
  /\ engine' = IF flag[index[w]] = "FILE_HEAD"
                 THEN [engine EXCEPT ![w] = <<path[index[w]], header[index[w]]>>]
                 ELSE engine
  /\ pc' = [pc EXCEPT ![w] = "orders"]
  /\ UNCHANGED <<buffers, io, index, crashed, published, seen>>

\* What a worker does with the buffer at hand: whose engine, which orders.
Processed(w) ==
  [engine |-> engine[w],
   orders |-> IF order_count[index[w]] = 0 THEN <<>> ELSE order_data[index[w]],
   flag   |-> flag[index[w]]]

NoEngine(w) ==
  engine[w] = None /\ (order_count[index[w]] # 0 \/ flag[index[w]] = "FILE_END")

InsertOrders(w) ==
  /\ pc[w] = "orders" /\ ~NoEngine(w)
  /\ seen' = [seen EXCEPT ![w] = Append(@, Processed(w))]
  /\ pc' = [pc EXCEPT ![w] = "finish"]
  /\ UNCHANGED <<buffers, io, index, engine, crashed, published>>

\* A call through the engine pointer when there is no engine: after the first day
\* it is null; before, it is not initialised, and the delete of what is no engine
\* ends the process at the latest.
UseNoEngine(w) ==
  /\ pc[w] = "orders" /\ NoEngine(w)
  /\ crashed' = TRUE
  /\ UNCHANGED <<buffers, io, pc, index, engine, published, seen>>

CompleteAtEveryBuffer(w) ==               \* mutant: the flag is not looked at
  /\ pc[w] = "finish"
  /\ engine' = [engine EXCEPT ![w] = None]
  /\ pc' = [pc EXCEPT ![w] = "release"]
  /\ UNCHANGED <<buffers, io, index, crashed, published, seen>>

\* onComplete sends the results of the day, and the engine is deleted.
Complete(w) ==
  /\ pc[w] = "finish"
  /\ engine' = IF flag[index[w]] = "FILE_END" THEN [engine EXCEPT ![w] = None] ELSE engine
  /\ pc' = [pc EXCEPT ![w] = "release"]
  /\ UNCHANGED <<buffers, io, index, crashed, published, seen>>

ReleaseNext(w) ==                         \* mutant: index is advanced before the bit is set
  /\ pc[w] = "release"
  /\ finish_bit' = [finish_bit EXCEPT ![INCR(index[w])] = @ \cup {w}]
  /\ index' = [index EXCEPT ![w] = INCR(@)]
  /\ pc' = [pc EXCEPT ![w] = "wait"]
  /\ UNCHANGED <<flag, path, header, order_data, order_count, io, engine, crashed, published, seen>>

Release(w) ==
  /\ pc[w] = "release"
  /\ finish_bit' = [finish_bit EXCEPT ![index[w]] = @ \cup {w}]
  /\ index' = [index EXCEPT ![w] = INCR(@)]
  /\ pc' = [pc EXCEPT ![w] = "wait"]
  /\ UNCHANGED <<flag, path, header, order_data, order_count, io, engine, crashed, published, seen>>

-----------------------------------------------------------------------------

IO == /\ ~crashed
      /\ \/ List \/ StartDay \/ ReadHeader \/ ReadSegment \/ PublishSegment \/ NextBuffer
         \/ EndOfLog \/ PublishEnd

Work(w) == /\ ~crashed
           /\ \/ Acquire(w) \/ StartEngine(w) \/ InsertOrders(w) \/ UseNoEngine(w)
              \/ Complete(w) \/ Release(w)

\* Everything is loaded and processed, and the workers spin for ever; or the
\* process has ended.
AllDone ==
  /\ \/ crashed
     \/ ioPc = "done" /\ \A w \in Worker : pc[w] = "wait" /\ w \in finish_bit[index[w]]
  /\ UNCHANGED vars

Next == IO \/ (\E w \in Worker : Work(w)) \/ AllDone

Spec == Init /\ [][Next]_vars

\* The worker is in onComplete, whose sentResult connects and sends without a timeout.
Sends(w) == pc[w] = "finish" /\ flag[index[w]] = "FILE_END"

\* No thread is descheduled for ever.  Nothing is said of the return of sentResult:
\* a worker that waits in it for ever is one that takes no step from Sends.
FairSpec == Spec /\ WF_vars(IO) /\ \A w \in Worker : WF_vars(Work(w) /\ ~Sends(w))

-----------------------------------------------------------------------------
(* Properties.                                                             *)

TypeOK ==
  /\ finish_bit \in [Slots -> SUBSET Worker]
  /\ flag \in [Slots -> {"FILE_HEAD", "IN_PROCESS", "FILE_END"}]
  /\ ioPc \in {"list", "head", "header", "read", "publish", "next", "end", "done"}
  /\ ioIndex \in Slots /\ day \in Nat /\ offset \in Nat
  /\ pc \in [Worker -> {"wait", "start", "orders", "finish", "release"}]
  /\ index \in [Worker -> Slots]
  /\ order_count \in [Slots -> {0, 1}]
  /\ published \in Nat /\ crashed \in BOOLEAN

\* The loader writes to the buffer ioIndex, the worker reads the buffer index[w].
Writing    == ioPc \in {"header", "read", "publish", "end"}
Reading(w) == pc[w] \in {"start", "orders", "finish", "release"}

\* No buffer is written while a worker reads it: finish_bit hands it over.
ExclusiveAccess ==
  Writing => \A w \in Worker : Reading(w) => index[w] # ioIndex

=============================================================================
