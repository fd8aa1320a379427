# Verification of the Ubiquant matching engine

The program replays recorded trading days. For each day it reads the closing
positions, the target positions a strategy asked for (*alphas*) and the order
log of the market. In each of five sessions it matches the market's orders
with the slices into which it cuts every alpha (TWAP), and it reports at which
prices the slices went out and what position and profit each instrument ends
with. This directory holds TLA+ models of it, TLC runs that check them on small
instances, and TLAPS proofs of the main properties for all parameters.

Paths below are relative to the repository's `src/`.

## 1. Inventory

### Components

| component | source | state | operations |
|---|---|---|---|
| ContractEngine | `contract_engine.{h,cpp}` | two heaps of resting orders, last price, limits, position, cash, TWAP array and its head | `insertAlpha`, `insertOrderLog` (six order types), `onComplete`, getters; inside: `processTwapOrdersIfNecessary`, `processTrade`, `tradeOrder` |
| BinaryHeap | `binary_heap.h` | array used from entry 1, capacity, size | `insert` (grows), `pop`, `top`, `topPtr` |
| comparators, rounding, records | `common.h` | none | price-time-type priority, `highPrecisionRound2` |
| buffer ring | `io.h`, `entrance.cpp`, `config.h` | 8 buffers: atomic `finish_bit`, flag, path, counts, data | `direct_io_load` on the loader, `matching_thread` on five workers |
| TradeEngine | `trade_engine.{h,cpp}` | hash table instrument -> index, array of engines, timestamp offset | `initContract`, `insertAlpha`, `insertOrderLog`, `onComplete`, the two sorted reports |
| day selection | `io.h:48-64` | none | list, filter and sort the day directories |
| baseline program | `baseline_entrance.cpp` | the ring | loads a day, then starts and joins the workers |
| file reader | `io.h:108-188` | byte offset, counts, header buffers | the loops of `pread` inside `direct_io_load` |
| result transfer | `net/client.h`, `net/server.cpp` | one socket per result, two files | `sentResult`, `accept`, `handleClient` |

Tests (`test/`) replay data and compare files; googletest is vendored.

### Interactions

The loader thread (`io_thread`, run by `main`) fills buffers with the segments
of a day's order log. Each of the five workers reads every buffer and feeds a
`TradeEngine` of its own, made at the head of a day and completed at its end.
A `TradeEngine` routes each record to the `ContractEngine` of its instrument.
A `ContractEngine` is sequential: one thread calls it, and each call runs to its
end. It uses its heaps only through `insert`, `top`, `topPtr` and `pop`. At the
end of a day the results of each session go to the server over a connection of
their own. The only shared memory is the ring, and the only synchronisation is
`finish_bit`.

### What is hard

* **Long sequential behaviour.** The book's correctness depends on sequences of
  calls: six order types, of which three match after being placed and three
  sweep the book on their own; AllOrNothing takes resting orders out before it
  knows whether it can use them; TWAP slices come between order logs.
* **Boundaries.** Equal timestamps, equal prices, slices of volume 0, the fifth
  price level, the edge of a heap's array, the last entry of the ring.
* **Concurrency.** Spin-waits on one atomic byte hand plain memory back and
  forth between six threads; buffers are reused, so every field not reset is
  that of another segment or day.
* **Failure.** Files that are missing, empty, cut or too long; reads that fail;
  connections that break at any byte, a server that stops with a file half
  written, sockets that are never closed.
* **Streams.** TCP keeps bytes but not messages: every `send` and `recv` may do a
  part of what it is asked for, and only some of the loops ask again.

### What makes each component correct

* ContractEngine: the book is never crossed between calls (`BookUncrossed`);
  prices are within the daily limits (`PricesInLimits`) and orders trade in
  price-time-type priority (`PriorityRespected`, `PricesWorsen`,
  `AtMostBestLevels`); an AllOrNothing order is filled or has no effect
  (`AllOrNothingFilled`, `NothingOnCancel`); a trade takes the same from both
  sides (`TradesTakeBothSides`); the alpha is worked off without losing a share
  (`PositionAddsUp`), in time (`TwapInTime`), with cash booked as the position is
  (`PnlOnlyRevalues`); every call returns (`EveryCallReturns`).
* BinaryHeap: it is a priority queue (`HeapOrder`, `Implements`) and its calls
  return (`EveryCallReturns`).
* Buffer ring: exclusive access, every segment to every worker once and in
  order with the engine of its day, no deadlock (`ExclusiveAccess`,
  `Implements`, `StopsWhenAllDone`, `EveryDayCompletes`); what is lost when an entry without orders
  ends the process (`EndsAtEmptyDay`). Day selection: the days from the start
  date on, in order (part of `Implements`). Baseline: the same delivery, and
  which days it completes (`StopsRightly`, `RunsUpToFirstStop`).
* File reader: the counts and the buffers agree (`HeaderWhole`), the segments are
  the log (`LogWhole`), no record is made of another's bytes (`NoByteTwice`),
  the loops end for files below 4 GiB, and how they may for others (`EndsBelowSpan`).
* TradeEngine: it behaves as a map from instruments to engines (`Delivered`,
  `Implements`); where it does not, only instruments that lost their slot or their
  engine lose records, and only such records go astray (`OnlyDisplacedStray`). Its
  reports are complete and sorted (`TwapReportRight`, `PnlReportRight`).
* Result transfer: what the server stores is what was sent, and positions only
  behind their TWAP orders (`StoredIsSent`, `TwapBeforePnl`); results are lost
  only for the reasons the code has (`SocketsRunOut`, `EveryResultStored`).

## 2. Modules

| module | what it is |
|---|---|
| `Common` | order types, directions, comparators, rounding (`common.h`) |
| `ContractEngine` | the specification of one instrument's engine |
| `ContractLedger` | its properties that sum over orders |
| `PriorityQueue` | abstract: what a heap promises |
| `BinaryHeap` | the array heap, and its refinement of `PriorityQueue` |
| `BufferRing` | the loader, the workers and the ring between them |
| `SegmentStream` | abstract: what the ring promises |
| `BufferRingDelivery` | the refinement of `SegmentStream` by `BufferRing`, and its liveness |
| `BaselineRing` | the baseline program: the ring of `BufferRing`, scheduled by `main` |
| `FileReader` | the bytes of the files that the reads of the loader give |
| `TradeEngine` | one session of a day: the table of instruments, the routing of records |
| `TradeReports` | its two sorted reports |
| `EngineMap` | abstract: what a trade engine promises |
| `ResultTransfer` | clients, connections, the server's threads and its files |
| `MCContract`, `MCHeap`, `MCRing`, `MCBaseline`, `MCFileReader`, `MCTrade`, `MCTransfer` | constants for TLC |
| `ContractEngine_proofs`, `ContractBook_proofs`, `ContractLedger_proofs`, `BinaryHeap_proofs`, `BufferRing_proofs`, `FileReader_proofs`, `TradeEngine_proofs`, `ResultTransfer_proofs` | proofs |

Operators whose comment starts with `mutant` are the plausible errors that show
what each property detects; no specification uses them.

### ContractEngine

A step is one iteration of a loop of the code, and `pc` names the loop: `order`
and `close` are the TWAP loop inside `insertOrderLog` and `onComplete`, `match` is
`processTrade` (with its return address in `resume`), `sweep` is
BestFivePriceNoLeft and ImmediateDealNoLeft, `collect`, `fill` and `cancel` are
the three loops of AllOrNothing. The environment (`InsertAlpha`,
`InsertOrderLog`, `OnComplete`) calls only when `pc = "idle"`, in the order in
which `matching_thread` calls: all alphas of the day, then the order logs by
time, then `onComplete`, which may end the day at any point.

Abstractions:

* **Money.** Prices are integers of cents. The doubles of the code hold whole
  cents up to a tolerance of 1E-6 and are compared with that tolerance, so
  integer comparison is what the code intends. The drift of doubles is not
  modelled. The only rounding with an effect is that of limits, `Round2`, which
  takes hundredths of a cent. The product of a price and a volume is whole cents
  and its rounding is dropped.
* **Heaps** are sets of orders. `Tops` is the set of orders none precedes: one,
  except where the comparator does not tell two orders apart. A real heap picks
  one of them; the model allows each, so it has every behaviour of the code.
  In a real heap a tie is always broken the same way; the model may break it
  differently at each step, which only adds behaviours.
* **uid** names an order so that two equal ones stay two members of a set.
* **BestLevels** is the 5 of `contract_engine.cpp:130` and **Second** the 1000 of
  `contract_engine.cpp:20`, as constants, so that small runs reach them.
* **History.** `alphas`, `alphaTime`, `logs`, `logTime` bound and order the input;
  `selfTraded` and `tape` are read by properties only.
* **Input.** `price_off` of a type that takes its price from the book is in
  `OtherOffs`. `LogGap` and `AlphaGap` are the least distance of two order logs
  and of two alphas of the instrument: 0 is all that sorted input gives.

### BinaryHeap

Each turn of a sift loop is a step; meanwhile the entry `index` is a hole and
`held` the order that will fill it, as in the code. Entries never written, and
the one that `pop` gives up, are `Uninitialised`, so that reading one is visible.
`ReduceTop` is the contract engine's write through `topPtr`. Callers insert orders
with distinct uids and ask `isEmpty` before `pop`, as the engine does.

### BufferRing

One step per access of a thread to a field that another thread uses. The turns
of a spin loop are stuttering. `finish_bit` is the set of workers whose bit is
set (a `std::atomic` in the code, so `|=` is one step); `order_count` is 1 for
the records of a segment and 0 for none. A segment is what one `pread` of
`READ_BUFFER_SIZE` gives. `BUFFER_NUM` is a power of two in the code, where
`& (BUFFER_NUM - 1)` is the remainder the model takes. `None` is the engine
pointer before the first day and after `delete`.

*Days.* An entry of `DATA_PREFIX` is a number, in the order of the names;
`Segments[d]` is the number of reads its order log takes, 0 if the file is empty
or cannot be opened. `List` is `load_path_list`: the filter by the argument and
the sort, whatever order `readdir` gives. When the first read of a day gives
nothing, the head buffer is published as an end buffer (`io.h:141,176`): no
engine is made for the day, and `order_count` is that of the buffer's last use.
`UseNoEngine` is what a worker then does: a call through the null pointer (or,
on the first day, one that was never initialised), which ends the process.

*Results.* `Complete` stands for `onComplete`, which ends with `sentResult`: a
connection and five calls of `send` that block, without a timeout. `Sends(w)` says
that worker `w` is at that call. What happens inside is in `ResultTransfer`.

### BaselineRing

`baseline_entrance.cpp` has the same `direct_io_load` and, but for its end,
the same `matching_thread`, so the module EXTENDS `BufferRingDelivery` and takes
`List` to `EndOfLog` and `Acquire` to `Complete` from it. What differs is its
own: `LoadReturns` (the index that `direct_io_load` returns is dropped, every day
starts at buffer 0), `CreateWorker`, `ReleaseOrEnd` (a worker ends with the day)
and `Join`. A worker may have ended before the next is created.

### FileReader

`BufferRing` counts reads; here a byte of a file is known by its position, and a
`pread` may give fewer bytes than there are, or an error. One header stands for
both (`prev_trade_info` and `alpha` have the same loop). `HeaderRead` and
`EndOfLog` come when `pread` returns 0 or less: the code does not tell an error
from the end of the file. `Full` has the error that `O_DIRECT` gives for an offset
that is not a multiple of `Block`. `offset` is a `uint32_t`; `OffsetSpan` is 2^32.
`records` is history: the positions at which the published records start, and
only until the offset wraps. A `Segments[d]` of `BufferRing` is the
number of `ReadSegment` steps of a day. `MaxFaults` bounds the reads that go wrong.

### TradeEngine

One action per operation: each is a call that `matching_thread` makes from one
thread, and runs to its end. `InitContract`, `InsertAlpha` and `InsertOrderLog`
choose their input; `phase` keeps the order of the calls in `entrance.cpp:17-63`.

* **getOrInsertInstrument** is split into what it returns (`IndexOf`) and what it
  does to the table (`GetOrInsert`), both by the test of the home slot only
  (`Hit`). The probe is the code's, with its `index < MOD`: slot `MOD` is the
  memory behind the table. `contractEngines` follows it in the object
  (`trade_engine.h:77-78`), so its first word is the pointer of the first engine,
  which is neither 0 nor an instrument: the probe passes over it.
* **Undefined behaviour.** Nothing initialises `contractEngines`, and the
  `TradeEngine` of a day may get the memory of an earlier one, so an entry that was
  not assigned may hold an old pointer, to memory that an engine of today has got
  since. Such an entry is `Unset`, and so is what lies behind the array. A call through
  it ends the process (`crashed`), is lost, or reaches *any* engine of the session
  (`Reached`). The assignment of an entry behind the array (`Overrun`) ends the process,
  does no harm or damages any of the engines, and a damaged engine counts as `Unset`.
  Left out: that the call damages something other than the engines' lists of calls.
* **Engines** are the calls they received, with the 32-bit timestamps they got
  (`Narrow` is the cast, `IntSpan` is 2^31); `ContractEngine` says what they do
  with them. In `TradeReports` each alpha stands for one slice of the schedule.
* **Names.** An instrument is the number its eight characters make with the first
  in the lowest byte; `CharSpan` and `IdLength` are 256 and 8. The characters are
  shifted out one by one, as in the code (`Rest`).
* **Reports.** `std::sort` is `Sorted`: the entries in any order that the comparator
  does not contradict, so nothing is claimed of the order of equal ones.
* **Input.** Order logs and alphas are of instruments that have a closing position
  and every day has an alpha, whose time is within an int of all others
  (`DayAssumption`). Without one, `timestampOffset` stays -1.
* **History.** `known`, `sent`, `alphas` and `logs`.

### ResultTransfer

A result is a stream of bytes: name, size of the TWAP orders, TWAP orders, size of
the positions, positions. A byte is its position, so that a file is a result, a
position and a length, and "the right bytes" is a statement about three numbers.

* **Client.** A step is a system call of `sentResult`. `Send` goes on up to the end
  of the buffer of its call (`Sends`) or to what the network takes (`Window`).
  Which sockets the code closes, and which it forgets, is kept in `sockets`: one on
  which everything was sent is never closed, and a process has `MaxFds`.
* **Server.** `Accept` makes a thread for each connection. `RecvData` may return any
  part of what is there. The two sizes and the name are read by one `recv` each; a
  short one leaves the rest of the variable as it was: `split` is then true, and
  size and name are any of `Garbage` and `Names`.
* **Faults**, `MaxFaults` of them: `Break`, a connection refused, a file that cannot
  be opened, `CrashServer` with up to `Unflushed` bytes of an open file lost, and a
  header in pieces. A write to a connection whose other end is gone fails or is
  SIGPIPE, which ends the process and with it all sessions.
* `spoilt` and `split` are history: whose result a fault was about.

## 3. Runs

| run | instance | shows |
|---|---|---|
| `contract_safety` | 1 alpha, 2 slices, 4 order logs, volumes 1 and 3, 2 levels | 10 properties, at every step of every call |
| `contract_alphas` | 2 alphas, 3 slices each, 3 order logs that may share a timestamp | alphas of both signs and slices of volume 0 add up, in time; every call returns |
| `contract_tie_price` | 3 order logs on 2 timestamps | violation, see below |
| `contract_close_alphas` | 2 alphas closer than a window | violation, see below |
| `heap` | 7 orders, capacity 1 to 8 | the array heap implements the priority queue |
| `ring` | 3 workers, 2 buffers, entries of 1, 3, 0, 1, 3 and 1 segments, 4 start dates | exclusive access and delivery; no circular wait; every day completes if `sentResult` returns; what an entry without orders does |
| `baseline` | 3 workers, 4 buffers, entries of 1, 3, 1, 4, 2, 0 and 1 segments, 4 start dates | the same delivery; it stops at the first day that is too long or empty, in the way that `StopsRightly` and, if `sentResult` returns, `RunsUpToFirstStop` say |
| `file_reader` | files of 0 to 38 bytes, buffers of 8 and 6, a span of 32, 2 faults | counts, records and buffers agree; the loops end below the span, and beyond it only as `EndsBelowSpan` says |
| `trade_routing` | 3 instruments apart in 4 slots, 3 alphas, 1 order log, times beyond an int | the table is a map; the reports are complete and sorted |
| `trade_collisions` | 2 of 3 instruments in the last slot, 2 engines of room | only displaced instruments lose records, and only their records reach other engines |
| `trade_lost` | 2 of 3 instruments in the last slot | violation, see below |
| `transfer` | 2 sessions, 3 results, 2 sockets, 1 fault | stored files are what was sent; why a result may be missing |

Why the bounds are enough to see the interesting cases:

* *Prices.* With a close of 100 the daily band is 90 to 110 and Rule 3.3.16
  allows 10 from the base: the offsets -10, 0, 10 reach both daily limits in one
  order and are refused beyond them, and give several price levels on each side.
* *Volumes* 1 and 2 give full and partial fills on either side; 1 and 3 let one
  order go through three others.
* *Order logs.* Four are three resting orders on up to three levels and one that
  sweeps or collects them, while `BestLevels` is 2; or two of them, one that meets
  them and one more that meets what is left.
* *Alphas.* Three slices of a difference of 1, 2 or 3 have volumes 0, 1 and 2.
* *Heap.* Seven orders fill three levels, with nodes of one child and of two, and
  growth happens at sizes 1, 2 and 4. Orders 4 and 5 tie.
* *Ring.* Every buffer of the ring of 2 is reused as head, middle and end of a
  day, and a day is longer than the ring. With no start date the process ends at
  entry 3, with 4 the three days behind it complete, with 7 there is nothing to do.
* *Baseline.* A day of 3 segments with its end just fits into 4 buffers, one of 4
  does not; the days before leave their end in buffers that the next one uses.
* *File reader.* Files end inside a record, at and around the end of a buffer and
  of the span; with 33 and 35 bytes the wrapped offset of a log gets unaligned, with
  32 and 38 it does not. Records (3 bytes) and header buffers (8) do not divide, records and
  log buffers do, as 36 divides `READ_BUFFER_SIZE` (`ReaderAssumption`).
* *Trade engine.* Instruments 3, 5 and 6 are sorted 6, 3, 5 by name, which is
  neither their order as numbers nor a rotation by the table. 3 and 7 share the
  last slot and 4 is at home in the first: the probe for the second of them reads
  the entry behind the table, wraps, and passes over another instrument. Two
  records of an instrument that collided exceed two engines. An instrument never
  takes a second slot, so the table keeps a free one and every probe ends.
* *Transfer.* The third result finds two sockets open or closed, by what happened
  to the first two. Headers and data are longer than one `recv` may give; one
  session has no TWAP orders. One fault can be of one result while the others go on.

Fairness. `ContractEngine!FairSpec` has weak fairness of the engine's steps: a
call is sequential code of one thread, which keeps running. Nothing obliges the
environment to call. `BinaryHeap!Spec` has the same for its sift loops.
`BufferRing!FairSpec` has weak fairness of the loader and of each worker, except
where a worker is in `sentResult` (`Sends`). All other steps are code of operating
system threads that wait only in spin loops, whose conditions, once true, stay true
until the thread itself acts. `sentResult` is different: `connect` and `send` block
without a timeout (`client.h:28-62`), and `ResultTransfer` has a worker that waits
there for ever (`Stalled`) and a SIGPIPE that ends the process. So the two liveness
properties of the ring, `EveryDayCompletes` and `RunsUpToFirstStop`, have as a premise
that each such call returns (`SendsReturn`): the code does not see to it, the server
and the network must. One call that does not return stops the whole ring once the
loader is back at the buffer.
`BaselineSpec` has the same for `main` and its workers, `FileReader!Spec` for the
loader's loop. `ResultTransfer!FairSpec` has weak fairness of all threads
together, which is less: some thread that can run does. Each has a bounded number
of steps, so all get their turn. Nothing obliges a fault to happen or a server
that stopped to start again.

Deadlock is checked in every run but `transfer`; the end of a day and of all days,
a crash and the endless spinning of the baseline's `main` are explicit stuttering
steps (`Terminated`, `AllDone`, `BaselineStops`, `Loaded`). In `transfer` the
system really stops: when all is sent, or a worker waits in `send` for a
thread of the server that has returned; `EveryResultStored` says in which ways.

### Findings

1. **A tie gives a market sale its own price field** (`contract_engine.cpp:266`,
   run `contract_tie_price`). `tradeOrder` takes the purchase's price only if the
   sale is *strictly* later. A sale of type 3, 4 or 5 in the millisecond of a
   resting purchase trades at its `price_off`, so the last price leaves the
   limits that `contract_engine.h:31` states. It cannot happen to a purchase, nor
   when the order logs of an instrument have distinct timestamps: that is
   theorem `WithinLimits`.
2. **The TWAP array is not sorted when alphas overlap**
   (`contract_engine.cpp:231`, run `contract_close_alphas`). Only its head is
   compared with the time, so a due slice of a second alpha waits behind a later
   slice of the first, against the comment at `contract_engine.cpp:29`. It cannot
   happen when alphas of an instrument are at least
   `(sessionNum - 1) * sessionLength` seconds apart (2 s to 12 s for
   the sessions of `common.h:71`): that is theorem `SlicesInTime`.

3. **An instrument that collides in the table loses its records**
   (`trade_engine.cpp:120`, run `trade_lost`). Only the home slot counts as a hit.
   What the probe finds is inserted again with a new index, whose engine was never
   made, so the call goes through an uninitialised pointer. The table stands for
   the map of `trade_engine.h:80`, and `initContract` is to make the instrument's
   engine (`trade_engine.h:46`). It needs two instruments of a day whose ids are
   equal modulo 20021; without that, and with at most `MAX_CONTRACT_NUM`
   instruments, theorem `RecordsDelivered` says that every record arrives.

Also visible in the model: a trade between two orders of our own books only the
sale (`contract_engine.cpp:271-277`), where the two bookings should cancel. Cash and
position are booked together, so at the price of the trade the profit is what it was;
but the position stays short by the volume traded, and the profit goes wrong with the
first price that differs. No property catches this as an error, for nothing in the
repository says what the result should be. `PositionAddsUp` takes it in, as
`selfTraded`, and theorem `NoShareLost` says that it is all that is ever missing.

## 4. Proofs

All hold for every value of the constants that satisfies the named assumptions
(`SessionAssumption`, `DataAssumption`, `HeapAssumption`, `RingAssumption`,
`StartAssumption`, `DaysAssumption`, `ReaderAssumption`, `TableAssumption`,
`DayAssumption`, `UnsetAssumption`, `NameAssumption`, `StreamAssumption`,
`BoundsAssumption`). They give
the constants their types, and say little else: a log buffer holds whole records and
whole blocks, the header buffer whole blocks, and the span of the offset is more than
one whole header buffer (`io.h:164` with the sizes of `config.h`: 4 KB or 2 MB, and
2^32); the table of instruments
has a free slot, and the times of a day are within an `int` of each other
(`DayAssumption`); nothing is left of an id behind its eight characters
(`NameAssumption`: it has eight bytes); the workers are finitely many. A theorem that needs more states it as
a hypothesis, named in the table.

| theorem | statement |
|---|---|
| `TypeCorrect` | `Spec => []TypeOK` of the contract engine |
| `ProfitRevalues` | `Spec => PnlOnlyRevalues` |
| `NeverCrossed` | `Spec => []BookUncrossed` |
| `PriorityKept` | `Spec => PriorityRespected` |
| `CancelledWithoutTrace` | `Spec => NothingOnCancel` |
| `FilledInFull` | `Spec => []AllOrNothingFilled` |
| `NoShareLost` | `Spec => []PositionAddsUp` |
| `BothSidesTrade` | `Spec => TradesTakeBothSides` |
| `WithinLimits` | if `LogGap > 0`, `Spec => []PricesInLimits` |
| `WorseningPrices` | if `LogGap > 0`, `Spec => []PricesWorsen` |
| `LevelsKept` | if `LogGap > 0`, `Spec => []AtMostBestLevels` |
| `SlicesInTime` | if `AlphaGap >= Span`, `Spec => []TwapInTime` |
| `HeapTypeCorrect` | `Spec => []TypeOK` of the heap, which the run leaves to `Implements` |
| `InOrder` | `Spec => []HeapOrder` |
| `HeapIsQueue` | the heap implements `PriorityQueue` |
| `Exclusive` | `Spec => []ExclusiveAccess` |
| `RingTypeCorrect` | `Spec => []TypeOK` of the ring |
| `Delivered` (ring) | the ring implements `SegmentStream` |
| `LossIsBounded` | `Spec => []EndsAtEmptyDay` |
| `NeverAllWaiting` | `Spec => []StopsWhenAllDone` |
| `BaselineDelivers` | the baseline program implements `SegmentStream` |
| `BaselineStopsRightly` | if `Worker # {}`, `BaselineSpec => []StopsRightly` |
| `HeaderRight` | `Spec => []HeaderWhole` |
| `LogRight` | `Spec => []LogWhole` |
| `BytesOnce` | `Spec => []NoByteTwice` |
| `TradeTypeCorrect` | `Spec => []TypeOK` of the trade engine, on any day |
| `StrayOnlyDisplaced` | `Spec => []OnlyDisplacedStray`, on any day |
| `RecordsDelivered` | if `HomesDistinct` and `Room`, `Spec => []Delivered` |
| `NeverStray` | if `HomesDistinct` and `Room`, `Spec => []~crashed` |
| `RecordsImplement` | if `HomesDistinct` and `Room`, the trade engine implements `EngineMap` |
| `TwapReported` | if `HomesDistinct` and `Room`, `Spec => []TwapReportRight` |
| `PnlReported` | if `HomesDistinct` and `Room`, `Spec => []PnlReportRight` |
| `StoredCorrectly` | `Spec => []StoredIsSent` |
| `TwapFirst` | `Spec => []TwapBeforePnl` |
| `TransferTypeCorrect` | `Spec => []TypeOK` of the transfer |
| `LeakedByResults` | `Spec => []SocketsRunOut`: sockets left behind are of results whose TWAP orders were begun, sent or not, and there is none left only when all but those in the other workers' hands are such |

Inductive invariants:

* *Types.* `TypeOK` is not inductive: that the rest of a collected order can go
  back needs what `pending` holds to be on the other side of the order in hand,
  and `pending` to be empty outside AllOrNothing. `TypeInv` adds this.
* *Book.* While AllOrNothing has orders out of the book, the book being
  uncrossed does not say that it stays so when they come back. The invariant is
  about the orders at rest *and* collected together: no sale among them is at or
  below a purchase among them, unless the matching loop runs.
* *Priority.* A trade takes a top of the book or the head of the queue. For the
  queue the invariant (`PendingSorted`) is that it is sorted by priority and that
  nothing at rest has priority over what is in it. No distinct times are needed.
* *AllOrNothing.* The volume of the queue from the entry at hand on
  (`Remaining`, a suffix sum, so that taking the head and appending a last order are
  both one equation) covers what the order still needs, from the moment it was found
  to be enough; so the queue is not empty before the order is.
* *Prices.* The limits hold for the last price, the book, the collected orders
  and the slices sent; that a trade stays inside them needs to know, for each
  kind of trade, that the order whose price is taken has one: resting orders are
  older than the order in hand. That is where distinct times are used.
* *Prices of one order* (`WorsenInv`). In `processTrade` the only order that can cross
  the other side is the one placed last: before it came the book was not crossed. So
  one side of every trade of the call is that order, the other side comes in the order
  of the heap, and the prices are those of the other side; or, for a slice, which has
  the price of the best level, all the same. For AllOrNothing it is the queue whose
  prices get worse. Distinct times say whose price a trade takes.
* *Ledger* (`OrdersInv`). Sums over sets are used only by adding and removing one
  element (`SumRemove`, `SumAdd`), and for that each order must be one element: a
  uid names one order at rest, collected or in hand, an order collected is in no heap
  and once in the queue, and the orders at rest are finitely many. A trade then takes its
  volume from one element of a side and from our position if the order is ours; a slice
  moves from the schedule to the book. The slices of an alpha add up one by one: the
  first k have `(diff * k) \div sessionNum`. An order in hand is never ours, which is
  why its trades book only the other side.
* *Levels* (`LevelInv`). Every price on the tape of a sweep is one of the levels counted;
  `lastPriceLevel` is one of them, or still the -1 that is no price. Prices are not
  negative by `WithinLimits`. In the matching loop before the sweep all trades are at
  the price of one slice, by `WorsenInv`.
* *TWAP.* The schedule is sorted, and no slice is later than the last alpha plus
  a window; then the head being not due says it for all.
* *Heap.* In the middle of a sift the array is in order everywhere but at the hole
  `index`, whose children do not precede its father. `held` is not preceded by the
  children of the hole on its way up, and does not precede its father on the way down;
  no order is in two entries. At the end of a sift this gives the order for the whole array, and the least index of an order
  that precedes the root would have a father that precedes it too: there is none.
* *Ring.* While the loader writes, all bits of its buffer are set; while a worker
  reads, its own bit is clear. Exclusive access follows, with no counting.
* *Delivery* (`Delivery`). The loader's place in the list of days and in the ring
  says what is published: the days before its own, and the segments read of this
  one. A worker is a known number of buffers behind it, less than a ring; each buffer in
  between holds the segment of that number, or the start or the end of its day, which
  is what the worker then does with it. A worker that calls through no engine is at a
  day whose head is its end. What the flattened days contain is a recursive function;
  what the proof needs of it is one equation per day, and that the concatenation up to
  a day is a prefix of that up to a later one.
* *No circular wait* (`CaughtUp`, from `Delivery`). A worker that waits has finished
  with all that was published, so its bit is set in every buffer; when all of them
  wait, the loader has every buffer and waits for none.
* *Baseline* (`BaselineInv`). While `main` loads there is no worker, and while workers
  run the whole day is loaded, segment s in buffer s - 1: if there is a worker to wait
  for, a day never goes round the ring. So a worker's `index` is how much of the day it
  has processed, and the days before it are done. `StopsAt` adds that each of those days
  fitted and had orders: a session ends only where there are orders, so a worker that is
  joined says both of its day. That takes a worker; without any, `main` would wait for
  nobody.
* *File reader.* `HeaderReads` and `LogReads` say what of the file is in the buffer and
  what was published, from `offset`, as long as no read failed; `RecordsApart`, with no
  such premise, that a record ends where the next read may begin at the earliest.
* *Trade engine, a day as it should be.* What `Delivered` says of an instrument
  depends on the table: whatever is in it is at home there, the known instruments
  are the ones in it, and their indices are distinct and all below `lastContract`,
  which is their number. `HomesDistinct` keeps an insertion out of the slot of
  another, `Room` keeps its index inside the array, and nothing sent before the
  offset is set keeps the times right when it is.
* *Reports*, from the same invariant. The instruments of the day and the indices below
  `lastContract` are in bijection, and so are the slices of an instrument and the
  alphas sent for it, so what is sorted is complete. Any finite set can be sorted by a
  comparator that is a strict weak order (`OrderOfAll`: put a last element last, the
  rest before it), so the choice of `Sorted` is met. Reversing an id twice is the
  identity (`ReversedTwice`), and reversed ids are in the order of the names
  (`ReversedOrder`, by the first character that differs).
* *Trade engine, any day* (`MixInv`). An instrument in the table is on the way of its
  own probe, so each is in one slot, and by the pigeonhole principle a slot is free
  for a new one. The home slot of a known instrument is taken. The engine of an
  instrument that is at home is the one its index names, if it is there, and has got all
  that was sent for the instrument, in order, with strays in between (`Served`); that
  of one that is not at home has got strays only (`Owners`). An instrument once displaced
  stays so, and a stray stays one. `Merged` says "all of it, in order, with others in
  between" of two sequences, and its lemmas say how it grows: by an element of both or
  by a stray.
* *Transfer.* Where a thread of the server is determines how much it has read, which
  name and size it has, and what the files of its result are; no two
  threads write to files of the same name. All of it only while `split` is false,
  which is the premise of both properties.
* *Sockets* (`SocketInv`). The sockets a client process holds are those of results
  that `sentResult` has returned from without closing them, which is only after the TWAP
  orders were begun, and at most one in the hands of each worker.

Induction. The theorems of the library that induct take an operator as a parameter,
which the installed provers cannot instantiate. Where a proof needs induction, the
set of the naturals that have the property is shown to have no least one missing
(`NatLessThanWellFounded`, or `SetInduction`, which states it for any set), and a
recursive function or a fold is first shown to exist, by building it, before its
equation is used (`SumsExist`).

Only model-checked: liveness (`EveryCallReturns`, `EveryDayCompletes`,
`RunsUpToFirstStop`, `EndsBelowSpan`, `EveryResultStored`), for fairness is out of
the prover's reach. Every safety property that a passing run checks is a theorem.

## 5. Not modelled

* **googletest** is vendored, and more than nine tenths of the repository's lines.
  The tests, the comparison of two result files and the data tools keep no state of
  the system. They are read as documentation.
* **`load_path_list_by_filesize`** (`io.h:66-106`): no program calls it.
* **Money as doubles** (`common.h:58`): prices are compared with a tolerance; models
  have whole cents.
* **Widths.** `diff * (i + 1)` in `int` (`contract_engine.cpp:22`) and the capacity
  `MAX_TWAP_LENGTH` of the TWAP array (`contract_engine.cpp:19`) are beyond the input
  that the models take: volumes are integers and the schedule a sequence. The
  narrowing of timestamps and the file offset are modelled.
* **Reads behind a buffer.** `HeaderWhole` says when a header is larger than its
  buffer; what the workers then read behind its end is left open.
* **After a split header** the files are whatever `Garbage` leads to; `StoredIsSent`
  claims nothing. Nor is it modelled that a second run of the client sends results
  of the same names again.
* **The setup of the server's socket**, its `listen` queue, debug logs and timing.
