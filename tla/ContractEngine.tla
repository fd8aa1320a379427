--------------------------- MODULE ContractEngine ---------------------------
(***************************************************************************)
(* struct ContractEngine (src/contract_engine.h, src/contract_engine.cpp): *)
(* the order book of one instrument in one session, the TWAP schedule that *)
(* the alphas of the day produce, and the position and cash that trading   *)
(* it leaves.                                                              *)
(*                                                                         *)
(* The engine is called by one thread.  A call runs to completion, so the  *)
(* environment only steps when pc = "idle"; inside a call every iteration  *)
(* of a loop of the code is one step, and pc says which loop is running.   *)
(* processTrade is called from two places: "resume" is its return address. *)
(*                                                                         *)
(* The two binary heaps are sets of orders here.  top() is any order that  *)
(* no other precedes: several when the comparator does not tell them apart.*)
(* Module BinaryHeap has the array and its sift loops, and shows that they *)
(* give exactly this.                                                      *)
(***************************************************************************)
EXTENDS Common, Sequences

CONSTANTS
  sessionNum,      \* TWAP slices of an alpha
  sessionLength,   \* seconds between two slices
  Second,          \* timestamps per second: 1000 in the program
  prevClosePrice,  \* in cents
  prevPosition,
  BestLevels       \* price levels BestFivePriceNoLeft may take: 5

\* The data of the day, as sets the environment picks from.
CONSTANTS
  MaxAlphas, AlphaTimes, Targets,
  AlphaGap,        \* least distance of two alphas of the instrument
  MaxLogs, LogTimes, Volumes, Types,
  PriceOffs,       \* price_off of a PriceLimit order
  OtherOffs,       \* price_off of the types that take their price from the book
  LogGap           \* least distance of two order logs of the instrument

ASSUME SessionAssumption ==
  /\ sessionNum \in Nat \ {0} /\ sessionLength \in Nat /\ Second \in Nat \ {0}
  /\ prevClosePrice \in Nat \ {0} /\ prevPosition \in Int
  /\ BestLevels \in Nat \ {0}

ASSUME DataAssumption ==
  /\ MaxAlphas \in Nat /\ AlphaTimes \subseteq Int /\ Targets \subseteq Int
  /\ MaxLogs \in Nat /\ LogTimes \subseteq Int /\ Volumes \subseteq Nat \ {0}
  /\ PriceOffs \subseteq Int /\ OtherOffs \subseteq Int /\ Types \subseteq LogTypes
  /\ AlphaGap \in Nat /\ LogGap \in Nat

VARIABLES
  heap,            \* heap[Sale] is saleHeap, heap[Buy] is buyHeap
  lastPrice,       \* price of the last trade
  income,          \* cash our trades brought in
  volume,          \* our position
  targetVolume,    \* the position the last alpha asked for
  twapOrders,      \* every slice of every alpha, in the order created
  twapHead,        \* how many of them have been sent to the book
  pc, resume,
  order,           \* the orderLog argument while it is not yet in the book
  levelNum, lastPriceLevel,   \* locals of BestFivePriceNoLeft
  volumeSum, pending          \* locals of AllOrNothing

\* History variables: nothing above depends on them except through the
\* environment's guards.
VARIABLES
  alphas, alphaTime,   \* alphas so far and the timestamp of the last
  logs, logTime,       \* order logs so far and the timestamp of the last
  selfTraded,          \* volume traded between two orders of our own
  tape                 \* prices of the trades of the order being executed

money == <<lastPrice, income, volume, selfTraded>>
twap  == <<targetVolume, twapOrders, twapHead>>
sweep == <<levelNum, lastPriceLevel>>
aon   == <<volumeSum, pending>>
input == <<alphas, alphaTime, logs, logTime>>
vars  == <<heap, money, twap, pc, resume, order, sweep, aon, input, tape>>

(***************************************************************************)
(* An order of the book, of the TWAP schedule or in hand.  uid names it: n *)
(* for the n-th order log, -j for the j-th slice.                          *)
(***************************************************************************)
Order == [uid : Int, timestamp : Int, volume : Nat, price : Int,
          direction : Directions, type : LogTypes \cup {MyContract}]

NoOrder == [uid |-> 0, timestamp |-> 0, volume |-> 0, price |-> 0,
            direction |-> Sale, type |-> PriceLimit]

\* Every resting order has volume left and lies on its own side.
Book == {h \in [Directions -> SUBSET Order] :
           \A direction \in Directions : \A o \in h[direction] :
             o.volume > 0 /\ o.direction = direction}

-----------------------------------------------------------------------------
(* The book.                                                               *)

WithOrder(h, o) == [h EXCEPT ![o.direction] = @ \cup {o}]

\* The order popped, or kept at the top with what is left of its volume.
TakenNotPopped(h, top, v) ==             \* mutant: an order used up stays
  [h EXCEPT ![top.direction] = (@ \ {top}) \cup {[top EXCEPT !.volume = @ - v]}]

Taken(h, top, v) == [h EXCEPT ![top.direction] =
                       IF v = top.volume THEN @ \ {top}
                       ELSE (@ \ {top}) \cup {[top EXCEPT !.volume = @ - v]}]

Tops(direction) == {o \in heap[direction] :
                      \A p \in heap[direction] : ~Before(direction, p, o)}

\* getCurrentBasePrice: the one price in this set.
BasePrice(direction) ==
  IF heap[Opposite(direction)] # {}
    THEN {o.price : o \in Tops(Opposite(direction))}
  ELSE IF heap[direction] # {} THEN {o.price : o \in Tops(direction)}
  ELSE {lastPrice}

\* Rule 3.3.13, computed once by the constructor.
upLimit   == Round2(110 * prevClosePrice)
downLimit == Round2(90 * prevClosePrice)

\* Rule 3.3.16: how far from the base price a limit order may be.
InBandDailyForgotten(direction, basePrice, price) ==   \* mutant
  IF direction = Buy
    THEN price <= Round2(Greater(102 * basePrice, 100 * basePrice + 1000))
    ELSE price >= Round2(Lesser(98 * basePrice, 100 * basePrice - 1000))

InBand(direction, basePrice, price) ==
  IF direction = Buy
    THEN /\ price >= downLimit
         /\ price <= Round2(Lesser(Greater(102 * basePrice, 100 * basePrice + 1000),
                                   100 * upLimit))
    ELSE /\ price <= upLimit
         /\ price >= Round2(Greater(Lesser(98 * basePrice, 100 * basePrice - 1000),
                                    100 * downLimit))

(***************************************************************************)
(* tradeOrder.  Rule 3.4.4: the price of the earlier order.                *)
(***************************************************************************)
TradeVolume(sale, buy) == Lesser(sale.volume, buy.volume)

TradePrice(sale, buy) ==
  IF sale.timestamp > buy.timestamp THEN buy.price ELSE sale.price

\* mutant: a purchase of ours is paid for but not added to the position
TradeOrderUnbooked(sale, buy) ==
  LET v     == TradeVolume(sale, buy)
      price == TradePrice(sale, buy)
  IN  /\ lastPrice' = price
      /\ \/ sale.type = MyContract /\ income' = income + price * v
                                   /\ volume' = volume - v
         \/ /\ sale.type # MyContract /\ buy.type = MyContract
            /\ income' = income - price * v /\ UNCHANGED volume
         \/ /\ sale.type # MyContract /\ buy.type # MyContract
            /\ UNCHANGED <<income, volume>>
      /\ selfTraded' = IF sale.type = MyContract /\ buy.type = MyContract
                         THEN selfTraded + v ELSE selfTraded
      /\ tape' = Append(tape, price)

TradeOrder(sale, buy) ==
  LET v     == TradeVolume(sale, buy)
      price == TradePrice(sale, buy)
  IN  /\ lastPrice' = price
      /\ \/ sale.type = MyContract /\ income' = income + price * v
                                   /\ volume' = volume - v
         \/ /\ sale.type # MyContract /\ buy.type = MyContract
            /\ income' = income - price * v /\ volume' = volume + v
         \/ /\ sale.type # MyContract /\ buy.type # MyContract
            /\ UNCHANGED <<income, volume>>
      /\ selfTraded' = IF sale.type = MyContract /\ buy.type = MyContract
                         THEN selfTraded + v ELSE selfTraded
      /\ tape' = Append(tape, price)

\* A trade of the order in hand against a resting one.
Execute(top) == IF order.direction = Sale THEN TradeOrder(order, top)
                                          ELSE TradeOrder(top, order)

-----------------------------------------------------------------------------
(* insertAlpha.                                                            *)

SliceRoundedDown(diff, i) == diff \div sessionNum    \* mutant: rest is lost

SliceVolume(diff, i) ==
  (diff * (i + 1)) \div sessionNum - (diff * i) \div sessionNum

Slices(timestamp, diff) ==
  [k \in 1..sessionNum |->
     [uid       |-> -(Len(twapOrders) + k),
      timestamp |-> timestamp + (k - 1) * sessionLength * Second,
      volume    |-> SliceVolume(Abs(diff), k - 1),
      price     |-> 0,
      direction |-> IF diff > 0 THEN Buy ELSE Sale,
      type      |-> MyContract]]

\* The matching thread feeds all alphas of the day before the first order log.
InsertAlpha ==
  /\ pc = "idle" /\ logs = 0 /\ alphas < MaxAlphas
  /\ \E timestamp \in AlphaTimes, target \in Targets :
       /\ alphas > 0 => timestamp >= alphaTime + AlphaGap
       /\ alphas' = alphas + 1 /\ alphaTime' = timestamp
       /\ targetVolume' = target
       /\ twapOrders' = IF target = targetVolume THEN twapOrders
                        ELSE twapOrders \o Slices(timestamp, target - targetVolume)
  /\ UNCHANGED <<heap, money, twapHead, pc, resume, order, sweep, aon, logs, logTime, tape>>

-----------------------------------------------------------------------------
(* insertOrderLog: due TWAP slices first, then the order by its type.      *)

InsertOrderLog ==
  /\ pc = "idle" /\ logs < MaxLogs
  /\ \E timestamp \in LogTimes, v \in Volumes, direction \in Directions,
        type \in Types : \E off \in IF type = PriceLimit THEN PriceOffs ELSE OtherOffs :
       /\ logs > 0 => timestamp >= logTime + LogGap
       /\ order' = [uid |-> logs + 1, timestamp |-> timestamp, volume |-> v,
                    price |-> off, direction |-> direction, type |-> type]
       /\ logTime' = timestamp
  /\ logs' = logs + 1
  /\ pc' = "order"
  /\ UNCHANGED <<heap, money, twap, resume, sweep, aon, alphas, alphaTime, tape>>

\* onComplete
OnComplete ==
  /\ pc = "idle"
  /\ pc' = "close"
  /\ UNCHANGED <<heap, money, twap, resume, order, sweep, aon, input, tape>>

CurrentTime == IF pc = "close" THEN MAX_INT ELSE order.timestamp

TwapDueLate == /\ twapHead < Len(twapOrders)      \* mutant: one tick late
               /\ twapOrders[twapHead + 1].timestamp + 1 < CurrentTime

TwapDue == /\ twapHead < Len(twapOrders)
           /\ twapOrders[twapHead + 1].timestamp < CurrentTime

\* One iteration of processTwapOrdersIfNecessary.
ProcessTwapOrder ==
  /\ pc \in {"order", "close"} /\ TwapDue
  /\ \E basePrice \in BasePrice(twapOrders[twapHead + 1].direction) :
       LET slice == [twapOrders[twapHead + 1] EXCEPT !.price = basePrice]
       IN  /\ twapOrders' = [twapOrders EXCEPT ![twapHead + 1] = slice]
           /\ heap' = IF slice.volume = 0 THEN heap ELSE WithOrder(heap, slice)
  /\ twapHead' = twapHead + 1
  /\ pc' = "match" /\ resume' = pc
  /\ UNCHANGED <<money, targetVolume, order, sweep, aon, input, tape>>

CloseDone ==
  /\ pc = "close" /\ ~TwapDue
  /\ pc' = "done"
  /\ UNCHANGED <<heap, money, twap, resume, order, sweep, aon, input, tape>>

\* The order in hand has no TWAP slice before it.
Placing(types) == pc = "order" /\ ~TwapDue /\ order.type \in types

\* The order of a resting type is in the book, or dropped: match, then return.
ThenMatch ==
  /\ order' = NoOrder
  /\ pc' = "match" /\ resume' = "idle"
  /\ UNCHANGED <<money, twap, sweep, aon, input, tape>>

PlacePriceLimit ==
  /\ Placing({PriceLimit})
  /\ \E basePrice \in BasePrice(order.direction) :
       LET price == basePrice + order.price
       IN  heap' = IF InBand(order.direction, basePrice, price)
                     THEN WithOrder(heap, [order EXCEPT !.price = price])
                     ELSE heap
  /\ ThenMatch

\* An order at the best price of one side; dropped when that side is empty.
PlaceAtBest ==
  /\ Placing({OppositeBestPrice, OurBestPrice})
  /\ LET side == IF order.type = OurBestPrice THEN order.direction
                                              ELSE Opposite(order.direction)
     IN  IF heap[side] = {} THEN UNCHANGED heap
         ELSE \E top \in Tops(side) :
                heap' = WithOrder(heap, [order EXCEPT !.price = top.price])
  /\ ThenMatch

-----------------------------------------------------------------------------
(* processTrade.                                                           *)

MatchTrade ==
  /\ pc = "match"
  /\ \E sale \in Tops(Sale), buy \in Tops(Buy) :
       /\ sale.price <= buy.price
       /\ TradeOrder(sale, buy)
       /\ LET v == TradeVolume(sale, buy)
          IN  heap' = Taken(Taken(heap, sale, v), buy, v)
  /\ UNCHANGED <<twap, pc, resume, order, sweep, aon, input>>

\* mutant: stops at equal prices
MatchDoneAtEqual ==
  /\ pc = "match"
  /\ \/ heap[Sale] = {} \/ heap[Buy] = {}
     \/ \E sale \in Tops(Sale), buy \in Tops(Buy) : sale.price >= buy.price
  /\ pc' = resume /\ resume' = "idle"
  /\ tape' = <<>>
  /\ UNCHANGED <<heap, money, twap, order, sweep, aon, input>>

MatchDone ==
  /\ pc = "match"
  /\ \/ heap[Sale] = {} \/ heap[Buy] = {}
     \/ \E sale \in Tops(Sale), buy \in Tops(Buy) : sale.price > buy.price
  /\ pc' = resume /\ resume' = "idle"
  /\ tape' = <<>>
  /\ UNCHANGED <<heap, money, twap, order, sweep, aon, input>>

-----------------------------------------------------------------------------
(* BestFivePriceNoLeft and ImmediateDealNoLeft: sweep the other side; what *)
(* is left of the order is dropped.                                        *)

Return ==
  /\ order' = NoOrder
  /\ pc' = "idle"
  /\ tape' = <<>>

StartSweep ==
  /\ Placing({BestFivePriceNoLeft, ImmediateDealNoLeft})
  /\ pc' = "sweep"
  /\ levelNum' = 0 /\ lastPriceLevel' = -1
  /\ UNCHANGED <<heap, money, twap, resume, order, aon, input, tape>>

\* mutant: the sixth level is still taken
LevelsUsedUpLate(top) == /\ order.type = BestFivePriceNoLeft
                         /\ top.price # lastPriceLevel
                         /\ levelNum > BestLevels

LevelsUsedUp(top) == /\ order.type = BestFivePriceNoLeft
                     /\ top.price # lastPriceLevel
                     /\ levelNum + 1 > BestLevels

SweepTrade ==
  /\ pc = "sweep" /\ order.volume > 0
  /\ \E top \in Tops(Opposite(order.direction)) :
       /\ ~LevelsUsedUp(top)
       /\ IF order.type = BestFivePriceNoLeft /\ top.price # lastPriceLevel
            THEN levelNum' = levelNum + 1 /\ lastPriceLevel' = top.price
            ELSE UNCHANGED sweep
       /\ Execute(top)
       /\ LET v == Lesser(order.volume, top.volume)
          IN  /\ order' = [order EXCEPT !.volume = @ - v]
              /\ heap'  = Taken(heap, top, v)
  /\ UNCHANGED <<twap, pc, resume, aon, input>>

SweepDone ==
  /\ pc = "sweep"
  /\ \/ order.volume = 0
     \/ heap[Opposite(order.direction)] = {}
     \/ \E top \in Tops(Opposite(order.direction)) : LevelsUsedUp(top)
  /\ levelNum' = 0 /\ lastPriceLevel' = -1
  /\ Return
  /\ UNCHANGED <<heap, money, twap, resume, aon, input>>

-----------------------------------------------------------------------------
(* AllOrNothing: pop orders until they cover the volume, then trade them   *)
(* all or put them all back.                                               *)

StartAllOrNothing ==
  /\ Placing({AllOrNothing})
  /\ pc' = "collect"
  /\ volumeSum' = 0
  /\ UNCHANGED <<heap, money, twap, resume, order, sweep, pending, input, tape>>

Collect ==
  /\ pc = "collect" /\ volumeSum < order.volume
  /\ \E top \in Tops(Opposite(order.direction)) :
       /\ heap' = [heap EXCEPT ![top.direction] = @ \ {top}]
       /\ volumeSum' = volumeSum + top.volume
       /\ pending' = Append(pending, top)
  /\ UNCHANGED <<money, twap, pc, resume, order, sweep, input, tape>>

\* mutant: one share short is taken for enough
CollectDoneShort ==
  /\ pc = "collect"
  /\ \/ volumeSum + 1 >= order.volume /\ pc' = "fill"
     \/ /\ volumeSum + 1 < order.volume /\ heap[Opposite(order.direction)] = {}
        /\ pc' = "cancel"
  /\ UNCHANGED <<heap, money, twap, resume, order, sweep, aon, input, tape>>

CollectDone ==
  /\ pc = "collect"
  /\ \/ volumeSum >= order.volume /\ pc' = "fill"
     \/ /\ volumeSum < order.volume /\ heap[Opposite(order.direction)] = {}
        /\ pc' = "cancel"
  /\ UNCHANGED <<heap, money, twap, resume, order, sweep, aon, input, tape>>

\* mutant: what is left of the last order collected is lost
FillDropsRest ==
  /\ pc = "fill" /\ pending # <<>>
  /\ Execute(Head(pending))
  /\ order' = [order EXCEPT !.volume = @ - Lesser(@, Head(pending).volume)]
  /\ pending' = Tail(pending)
  /\ UNCHANGED <<heap, twap, pc, resume, sweep, volumeSum, input>>

Fill ==
  /\ pc = "fill" /\ pending # <<>>
  /\ LET top == Head(pending)
         v   == Lesser(order.volume, top.volume)
     IN  /\ Execute(top)
         /\ order' = [order EXCEPT !.volume = @ - v]
         /\ heap'  = IF top.volume = v THEN heap
                     ELSE WithOrder(heap, [top EXCEPT !.volume = @ - v])
  /\ pending' = Tail(pending)
  /\ UNCHANGED <<twap, pc, resume, sweep, volumeSum, input>>

CancelForgets ==                          \* mutant: nothing is put back
  /\ pc = "cancel" /\ pending # <<>>
  /\ pending' = Tail(pending)
  /\ UNCHANGED <<heap, money, twap, pc, resume, order, sweep, volumeSum, input, tape>>

CancelWithoutPop ==                       \* mutant: the queue never gets empty
  /\ pc = "cancel" /\ pending # <<>>
  /\ heap' = WithOrder(heap, Head(pending))
  /\ UNCHANGED <<pending, money, twap, pc, resume, order, sweep, volumeSum, input, tape>>

Cancel ==
  /\ pc = "cancel" /\ pending # <<>>
  /\ heap' = WithOrder(heap, Head(pending))
  /\ pending' = Tail(pending)
  /\ UNCHANGED <<money, twap, pc, resume, order, sweep, volumeSum, input, tape>>

AllOrNothingDone ==
  /\ pc \in {"fill", "cancel"} /\ pending = <<>>
  /\ volumeSum' = 0
  /\ Return
  /\ UNCHANGED <<heap, money, twap, resume, sweep, pending, input>>

-----------------------------------------------------------------------------

Terminated == pc = "done" /\ UNCHANGED vars

Init ==
  /\ heap = [direction \in Directions |-> {}]
  /\ lastPrice = prevClosePrice /\ income = 0
  /\ volume = prevPosition /\ targetVolume = prevPosition
  /\ twapOrders = <<>> /\ twapHead = 0
  /\ pc = "idle" /\ resume = "idle" /\ order = NoOrder
  /\ levelNum = 0 /\ lastPriceLevel = -1
  /\ volumeSum = 0 /\ pending = <<>>
  /\ alphas = 0 /\ alphaTime = 0 /\ logs = 0 /\ logTime = 0
  /\ selfTraded = 0 /\ tape = <<>>

Environment == InsertAlpha \/ InsertOrderLog \/ OnComplete

Engine ==
  \/ ProcessTwapOrder \/ CloseDone
  \/ PlacePriceLimit \/ PlaceAtBest
  \/ MatchTrade \/ MatchDone
  \/ StartSweep \/ SweepTrade \/ SweepDone
  \/ StartAllOrNothing \/ Collect \/ CollectDone
  \/ Fill \/ Cancel \/ AllOrNothingDone

Next == Environment \/ Engine \/ Terminated

Spec == Init /\ [][Next]_vars

\* The thread inside a call is never descheduled for ever.
FairSpec == Spec /\ WF_vars(Engine)

-----------------------------------------------------------------------------
(* Properties.                                                             *)

\* Types; every resting or collected order has volume left and lies on its own
\* side: no order with nothing left stays in a heap or in the queue of
\* AllOrNothing.
TypeOK ==
  /\ heap \in Book
  /\ lastPrice \in Int /\ income \in Int /\ volume \in Int /\ targetVolume \in Int
  /\ twapOrders \in Seq(Order) /\ twapHead \in 0..Len(twapOrders)
  /\ pc \in {"idle", "order", "close", "match", "sweep", "collect", "fill",
             "cancel", "done"}
  /\ resume \in {"idle", "order", "close"}
  /\ order \in Order
  /\ levelNum \in Nat /\ lastPriceLevel \in Int
  /\ volumeSum \in Nat /\ pending \in Seq(Order)
  /\ \A i \in DOMAIN pending :
       pending[i].volume > 0 /\ pending[i].direction = Opposite(order.direction)
  /\ alphas \in Nat /\ alphaTime \in Int /\ logs \in Nat /\ logTime \in Int
  /\ selfTraded \in Nat /\ tape \in Seq(Int)

\* Outside processTrade no buyer is willing to pay what a seller asks: every
\* call that lets orders into the book matches them before it returns, and the
\* orders that sweep the book or put orders back into it never cross it.
BookUncrossed ==
  pc # "match" => \A sale \in heap[Sale], buy \in heap[Buy] : sale.price > buy.price

\* Rule 3.3.13 (contract_engine.h:31) for every price the engine produces: of
\* the last trade, of the resting orders, and of the TWAP slices reported.
PricesInLimits ==
  /\ lastPrice \in downLimit..upLimit
  /\ \A direction \in Directions : \A o \in heap[direction] : o.price \in downLimit..upLimit
  /\ \A i \in DOMAIN pending : pending[i].price \in downLimit..upLimit
  /\ \A j \in 1..twapHead : twapOrders[j].price \in downLimit..upLimit

\* contract_engine.cpp:29: when an order log is executed, all TWAP slices with
\* an earlier timestamp have been sent to the book.
TwapInTime ==
  pc \in {"sweep", "collect", "fill", "cancel"} \/ Placing(LogTypes) =>
    \A j \in twapHead + 1..Len(twapOrders) : twapOrders[j].timestamp >= order.timestamp

\* An order that executes alone gets prices from the best level outwards: a
\* sale never gets a better price after a worse one, a purchase neither.
PricesWorsen ==
  /\ \A i, j \in DOMAIN tape : i < j /\ pc \in {"sweep", "fill"} =>
       IF order.direction = Sale THEN tape[i] >= tape[j] ELSE tape[i] <= tape[j]
  /\ pc = "match" => \/ \A i, j \in DOMAIN tape : i < j => tape[i] >= tape[j]
                     \/ \A i, j \in DOMAIN tape : i < j => tape[i] <= tape[j]

\* AllOrNothing: once the orders collected cover it, trading them fills it.
AllOrNothingFilled == pc = "fill" /\ pending = <<>> => order.volume = 0

\* getPNL, in cents, before its final rounding (of whole cents: none).
PNL == lastPrice * volume - prevClosePrice * prevPosition + income

\* Profit moves only because the position held before a trade is valued at the
\* new price, never because of the shares that change hands in it: cash and
\* position are booked together, with the same price and volume.
PnlOnlyRevalues == [][PNL' - PNL = (lastPrice' - lastPrice) * volume]_vars

Collected == {pending[i] : i \in DOMAIN pending}
Resting(direction) == heap[direction] \cup {o \in Collected : o.direction = direction}

\* Looking for volume and giving up leave every resting order as it was, and
\* no trade is made: an AllOrNothing order that cannot be filled has no effect.
NothingOnCancel ==
  [][pc \notin {"collect", "cancel"}
     \/ /\ \A direction \in Directions : Resting(direction)' = Resting(direction)
        /\ money' = money]_vars

\* Price-time priority, and "Trade MyContract at last" (common.h:125).  A resting
\* order does not trade while an order of its side that is better priced, or as
\* good and earlier, or of the market where it is ours, stays untouched.
HasPriority(p, o) ==
  \/ IF o.direction = Sale THEN p.price < o.price ELSE p.price > o.price
  \/ p.price = o.price /\ p.timestamp < o.timestamp
  \/ /\ p.price = o.price /\ p.timestamp = o.timestamp
     /\ o.type = MyContract /\ p.type # MyContract

PriorityRespected ==
  [][\A direction \in Directions :
       \A o \in Resting(direction) \ Resting(direction)' :
         \A p \in Resting(direction) \cap Resting(direction)' : ~HasPriority(p, o)]_vars

\* Every call returns: the matching loop, the sweeps and the two queues of
\* AllOrNothing come to an end.
EveryCallReturns == pc \notin {"idle", "done"} ~> pc \in {"idle", "done"}

=============================================================================
