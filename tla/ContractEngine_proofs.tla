----------------------- MODULE ContractEngine_proofs -----------------------
(***************************************************************************)
(* Proofs about ContractEngine, for every value of its constants.          *)
(***************************************************************************)
EXTENDS ContractEngine, SequenceTheorems, TLAPS

\* Only AllOrNothing uses the queue of collected orders.
PendingOnlyInAon == pc \notin {"collect", "fill", "cancel"} => pending = <<>>

\* processTrade has a caller only while it runs, and an order log has volume
\* until it starts to execute.
CallStack == /\ pc # "match" => resume = "idle"
             /\ pc = "order" \/ resume = "order" => order.volume > 0

TypeInv == TypeOK /\ PendingOnlyInAon /\ CallStack

-----------------------------------------------------------------------------
(* The operators on the book.                                              *)

LEMMA OrderFields ==
  ASSUME NEW o \in Order
  PROVE  /\ o.timestamp \in Int /\ o.volume \in Nat /\ o.price \in Int
         /\ o.direction \in Directions /\ Opposite(o.direction) \in Directions
BY DEF Order, Opposite, Directions

LEMMA NoOrderType == NoOrder \in Order
BY DEF NoOrder, Order, Directions, LogTypes, PriceLimit, AllOrNothing

\* An order with another price is an order.
LEMMA Repriced ==
  ASSUME NEW o \in Order, NEW price \in Int
  PROVE  LET r == [o EXCEPT !.price = price]
         IN  /\ r \in Order /\ r.price = price /\ r.volume = o.volume
             /\ r.direction = o.direction /\ r.timestamp = o.timestamp
BY DEF Order

\* What is left of an order is an order.
LEMMA LeftOver ==
  ASSUME NEW o \in Order, NEW v \in Nat, v <= o.volume
  PROVE  LET r == [o EXCEPT !.volume = @ - v]
         IN  /\ r \in Order /\ r.volume = o.volume - v /\ r.price = o.price
             /\ r.direction = o.direction /\ r.timestamp = o.timestamp
BY DEF Order

\* The volume of a trade is at most that of either side.
LEMMA LesserVolume ==
  ASSUME NEW o1 \in Order, NEW o2 \in Order
  PROVE  LET v == Lesser(o1.volume, o2.volume)
         IN  v \in Nat /\ v <= o1.volume /\ v <= o2.volume
BY OrderFields DEF Lesser

\* Putting an order with volume on its own side keeps the book well formed.
LEMMA WithOrderType ==
  ASSUME NEW h \in Book, NEW o \in Order, o.volume > 0
  PROVE  WithOrder(h, o) \in Book
BY DEF WithOrder, Book, Order

\* So does taking at most the volume it has from an order of the book.
LEMMA TakenType ==
  ASSUME NEW h \in Book, NEW o \in Order, NEW v \in Nat, v <= o.volume
  PROVE  Taken(h, o, v) \in Book
<1>1. CASE v = o.volume
  BY <1>1 DEF Taken, Book, Order
<1>2. CASE v # o.volume
  <2> DEFINE rest == [o EXCEPT !.volume = @ - v]
  <2>1. rest \in Order /\ rest.volume > 0 /\ rest.direction = o.direction
    BY <1>2 DEF Order
  <2>2. Taken(h, o, v) = [h EXCEPT ![o.direction] = (@ \ {o}) \cup {rest}]
    BY <1>2 DEF Taken
  <2> HIDE DEF rest
  <2>3. QED BY <2>1, <2>2 DEF Book, Order
<1>3. QED BY <1>1, <1>2

\* An order with the highest priority is an order of the book.
LEMMA TopsType ==
  ASSUME heap \in Book, NEW direction \in Directions, NEW top \in Tops(direction)
  PROVE  /\ top \in Order /\ top.volume > 0 /\ top.direction = direction
         /\ top \in heap[direction]
BY DEF Tops, Book

\* The base price is a price.
LEMMA BasePriceType ==
  ASSUME heap \in Book, lastPrice \in Int, NEW direction \in Directions
  PROVE  BasePrice(direction) \subseteq Int
BY TopsType DEF BasePrice, Opposite, Directions, Order, Sale, Buy

\* The volumes the TWAP formula gives are natural numbers.
LEMMA SliceVolumeType ==
  ASSUME NEW diff \in Nat, NEW i \in Nat
  PROVE  SliceVolume(diff, i) \in Nat
<1>1. ASSUME NEW n \in Nat \ {0}, NEW d \in Nat, NEW j \in Nat
      PROVE  (d * (j + 1)) \div n - (d * j) \div n \in Nat
  <2>1. (d * j) \div n <= (d * (j + 1)) \div n
    OBVIOUS
  <2>2. (d * j) \div n \in Int /\ (d * (j + 1)) \div n \in Int
    OBVIOUS
  <2>3. QED BY <2>1, <2>2
<1>2. QED BY <1>1, SessionAssumption DEF SliceVolume

LEMMA SlicesType ==
  ASSUME twapOrders \in Seq(Order), NEW timestamp \in Int, NEW diff \in Int
  PROVE  Slices(timestamp, diff) \in Seq(Order)
<1>1. Abs(diff) \in Nat
  BY DEF Abs
<1>2. ASSUME NEW k \in 1..sessionNum
      PROVE  SliceVolume(Abs(diff), k - 1) \in Nat
  <2>1. k - 1 \in Nat
    BY SessionAssumption
  <2>2. QED BY <1>1, <2>1, SliceVolumeType
<1>3. ASSUME NEW k \in 1..sessionNum
      PROVE  timestamp + (k - 1) * sessionLength * Second \in Int
  <2>1. k - 1 \in Nat /\ sessionLength \in Nat /\ Second \in Nat
    BY SessionAssumption
  <2>2. (k - 1) * sessionLength \in Nat
    BY <2>1
  <2>3. (k - 1) * sessionLength * Second \in Nat
    BY <2>1, <2>2
  <2>4. QED BY <2>3
<1>4. ASSUME NEW k \in 1..sessionNum
      PROVE  Slices(timestamp, diff)[k] \in Order
  <2>1. -(Len(twapOrders) + k) \in Int
    BY SessionAssumption
  <2>2. Slices(timestamp, diff)[k] =
          [uid       |-> -(Len(twapOrders) + k),
           timestamp |-> timestamp + (k - 1) * sessionLength * Second,
           volume    |-> SliceVolume(Abs(diff), k - 1),
           price     |-> 0,
           direction |-> IF diff > 0 THEN Buy ELSE Sale,
           type      |-> MyContract]
    BY DEF Slices
  <2>3. QED BY <1>2, <1>3, <2>1, <2>2 DEF Order, Directions
<1>5. DOMAIN Slices(timestamp, diff) = 1..sessionNum
  BY DEF Slices
<1>6. Slices(timestamp, diff) \in [1..sessionNum -> Order]
  BY <1>4, <1>5 DEF Slices
<1>7. QED BY <1>6, SessionAssumption

\* A trade keeps the cash, the position and the tape within their types.
LEMMA TradeOrderType ==
  ASSUME NEW sale \in Order, NEW buy \in Order, TradeOrder(sale, buy),
         income \in Int, volume \in Int, selfTraded \in Nat, tape \in Seq(Int)
  PROVE  /\ lastPrice' \in Int /\ income' \in Int /\ volume' \in Int
         /\ selfTraded' \in Nat /\ tape' \in Seq(Int)
<1> DEFINE v == TradeVolume(sale, buy)
           price == TradePrice(sale, buy)
<1>1. v \in Nat /\ price \in Int
  BY DEF TradeVolume, TradePrice, Lesser, Order
<1>2. price * v \in Int
  BY <1>1
<1>3. QED BY <1>1, <1>2 DEF TradeOrder

LEMMA ExecuteType ==
  ASSUME order \in Order, NEW top \in Order, Execute(top),
         income \in Int, volume \in Int, selfTraded \in Nat, tape \in Seq(Int)
  PROVE  /\ lastPrice' \in Int /\ income' \in Int /\ volume' \in Int
         /\ selfTraded' \in Nat /\ tape' \in Seq(Int)
BY TradeOrderType DEF Execute

-----------------------------------------------------------------------------
(* Types.                                                                  *)

LEMMA InitType == Init => TypeInv
<1> SUFFICES ASSUME Init PROVE TypeInv
  OBVIOUS
<1>1. heap \in Book
  BY DEF Init, Book, Directions
<1>3. twapOrders \in Seq(Order) /\ pending \in Seq(Order) /\ tape \in Seq(Int)
  BY DEF Init
<1>4. QED
  BY <1>1, NoOrderType, <1>3, SessionAssumption
  DEF Init, TypeInv, TypeOK, PendingOnlyInAon, CallStack

\* The calls the environment makes.
LEMMA EnvironmentType == TypeInv /\ Environment => TypeInv'
<1> SUFFICES ASSUME TypeInv, Environment PROVE TypeInv'
  OBVIOUS
<1> USE DEF TypeInv, TypeOK, PendingOnlyInAon, CallStack
<1>1. CASE InsertAlpha
  <2>1. PICK timestamp \in AlphaTimes, target \in Targets :
          /\ alphaTime' = timestamp /\ targetVolume' = target
          /\ twapOrders' = IF target = targetVolume THEN twapOrders
                           ELSE twapOrders \o Slices(timestamp, target - targetVolume)
    BY <1>1 DEF InsertAlpha
  <2>2. timestamp \in Int /\ target \in Int
    BY DataAssumption
  <2>3. Slices(timestamp, target - targetVolume) \in Seq(Order)
    BY <2>2, SlicesType
  <2>4. twapOrders' \in Seq(Order) /\ Len(twapOrders) <= Len(twapOrders')
    BY <2>1, <2>3
  <2>5. twapHead' \in 0..Len(twapOrders')
    BY <1>1, <2>4 DEF InsertAlpha
  <2>6. QED
    BY <1>1, <2>1, <2>2, <2>4, <2>5
    DEF InsertAlpha, money, sweep, aon
<1>2. CASE InsertOrderLog
  <2>1. PICK timestamp \in LogTimes, v \in Volumes, direction \in Directions,
             type \in Types :
          \E off \in IF type = PriceLimit THEN PriceOffs ELSE OtherOffs :
            /\ order' = [uid |-> logs + 1, timestamp |-> timestamp, volume |-> v,
                         price |-> off, direction |-> direction, type |-> type]
            /\ logTime' = timestamp
    BY <1>2 DEF InsertOrderLog
  <2>2. /\ timestamp \in Int /\ v \in Nat /\ v > 0 /\ type \in LogTypes
        /\ logs + 1 \in Int /\ PriceOffs \cup OtherOffs \subseteq Int
    BY DataAssumption
  <2>3. order' \in Order /\ order'.volume > 0 /\ logTime' \in Int
    BY <2>1, <2>2 DEF Order
  <2>4. QED
    BY <1>2, <2>3 DEF InsertOrderLog, money, twap, sweep, aon
<1>3. CASE OnComplete
  BY <1>3 DEF OnComplete, money, twap, sweep, aon, input
<1>4. QED BY <1>1, <1>2, <1>3 DEF Environment

\* The queue of collected orders without its first order.
LEMMA TailOfPending ==
  ASSUME pending \in Seq(Order), pending # <<>>
  PROVE  /\ Tail(pending) \in Seq(Order) /\ Head(pending) = pending[1]
         /\ 1 \in DOMAIN pending /\ Head(pending) \in Order
         /\ \A i \in DOMAIN Tail(pending) :
              i + 1 \in DOMAIN pending /\ Tail(pending)[i] = pending[i + 1]
OBVIOUS

\* The steps inside a call.
LEMMA EngineType == TypeInv /\ Engine => TypeInv'
<1> SUFFICES ASSUME TypeInv, Engine PROVE TypeInv'
  OBVIOUS
<1> DEFINE Moneys == /\ lastPrice \in Int /\ income \in Int /\ volume \in Int
                     /\ selfTraded \in Nat /\ tape \in Seq(Int)
           Queue  == /\ volumeSum \in Nat /\ pending \in Seq(Order)
                     /\ \A i \in DOMAIN pending :
                          /\ pending[i].volume > 0
                          /\ pending[i].direction = Opposite(order.direction)
           Inputs == /\ alphas \in Nat /\ alphaTime \in Int
                     /\ logs \in Nat /\ logTime \in Int
           Slots  == /\ targetVolume \in Int /\ twapOrders \in Seq(Order)
                     /\ twapHead \in 0..Len(twapOrders)
           Sweep  == levelNum \in Nat /\ lastPriceLevel \in Int
           Control == /\ pc \in {"idle", "order", "close", "match", "sweep", "collect",
                                 "fill", "cancel", "done"}
                      /\ resume \in {"idle", "order", "close"}
                      /\ PendingOnlyInAon /\ CallStack
<1>a. TypeInv <=> /\ heap \in Book /\ order \in Order
                  /\ Moneys /\ Queue /\ Inputs /\ Slots /\ Sweep /\ Control
  BY DEF TypeInv, TypeOK
<1>b. TypeInv' <=> /\ heap' \in Book /\ order' \in Order
                   /\ Moneys' /\ Queue' /\ Inputs' /\ Slots' /\ Sweep' /\ Control'
  BY DEF TypeInv, TypeOK
<1>c. heap \in Book /\ order \in Order /\ Moneys /\ Queue /\ Inputs /\ Slots /\ Sweep /\ Control
  BY <1>a
<1>d. /\ order.volume \in Nat /\ order.price \in Int
      /\ order.direction \in Directions /\ Opposite(order.direction) \in Directions
  BY <1>c, OrderFields
<1> USE DEF PendingOnlyInAon, CallStack
<1>1. CASE ProcessTwapOrder
  <2> DEFINE head == twapOrders[twapHead + 1]
  <2>0. twapHead < Len(twapOrders)
    BY <1>1 DEF ProcessTwapOrder, TwapDue
  <2>1. twapHead + 1 \in 1..Len(twapOrders) /\ head \in Order
    <3>1. twapHead + 1 \in 1..Len(twapOrders)
      BY <1>c, <2>0
    <3>2. QED BY <1>c, <3>1
  <2>2. PICK basePrice \in BasePrice(head.direction) :
          LET slice == [head EXCEPT !.price = basePrice]
          IN  /\ twapOrders' = [twapOrders EXCEPT ![twapHead + 1] = slice]
              /\ heap' = IF slice.volume = 0 THEN heap ELSE WithOrder(heap, slice)
    BY <1>1 DEF ProcessTwapOrder
  <2> DEFINE slice == [head EXCEPT !.price = basePrice]
  <2>3. basePrice \in Int
    BY <1>c, <2>1, OrderFields, BasePriceType
  <2>4. slice \in Order /\ slice.volume \in Nat
    BY <2>1, <2>3, Repriced, OrderFields
  <2>s. /\ twapOrders' = [twapOrders EXCEPT ![twapHead + 1] = slice]
        /\ heap' = IF slice.volume = 0 THEN heap ELSE WithOrder(heap, slice)
    BY <2>2
  <2> HIDE DEF slice
  <2>5. heap' \in Book
    BY <1>c, <2>s, <2>4, WithOrderType
  <2>6. twapOrders' \in Seq(Order) /\ Len(twapOrders') = Len(twapOrders)
    BY <1>c, <2>1, <2>s, <2>4
  <2>7. Slots'
    BY <1>c, <1>1, <2>1, <2>6 DEF ProcessTwapOrder
  <2>8. QED
    BY <1>b, <1>c, <1>1, <2>5, <2>7 DEF ProcessTwapOrder, money, sweep, aon, input
<1>2. CASE CloseDone
  BY <1>b, <1>c, <1>2 DEF CloseDone, money, twap, sweep, aon, input
<1>3. CASE PlacePriceLimit
  <2>1. heap' \in Book
    <3>1. PICK basePrice \in BasePrice(order.direction) :
            heap' = IF InBand(order.direction, basePrice, basePrice + order.price)
                      THEN WithOrder(heap, [order EXCEPT !.price = basePrice + order.price])
                      ELSE heap
      BY <1>3 DEF PlacePriceLimit
    <3>2. basePrice \in Int /\ basePrice + order.price \in Int
      BY <1>c, <1>d, BasePriceType
    <3>3. order.volume > 0
      BY <1>c, <1>3 DEF PlacePriceLimit, Placing
    <3>4. QED BY <1>c, <3>1, <3>2, <3>3, Repriced, WithOrderType
  <2>2. QED
    BY <1>b, <1>c, <1>3, <2>1, NoOrderType
    DEF PlacePriceLimit, Placing, ThenMatch, money, twap, sweep, aon, input
<1>4. CASE PlaceAtBest
  <2> DEFINE side == IF order.type = OurBestPrice THEN order.direction
                                                 ELSE Opposite(order.direction)
  <2>1. side \in Directions
    BY <1>d
  <2>2. heap' \in Book
    <3>1. CASE heap[side] = {}
      BY <1>c, <1>4, <3>1 DEF PlaceAtBest
    <3>2. CASE heap[side] # {}
      <4>1. PICK top \in Tops(side) : heap' = WithOrder(heap, [order EXCEPT !.price = top.price])
        BY <1>4, <3>2 DEF PlaceAtBest
      <4>2. top.price \in Int
        BY <1>c, <2>1, TopsType, OrderFields
      <4>3. order.volume > 0
        BY <1>c, <1>4 DEF PlaceAtBest, Placing
      <4>4. QED BY <1>c, <4>1, <4>2, <4>3, Repriced, WithOrderType
    <3>3. QED BY <3>1, <3>2
  <2>3. QED
    BY <1>b, <1>c, <1>4, <2>2, NoOrderType
    DEF PlaceAtBest, Placing, ThenMatch, money, twap, sweep, aon, input
<1>5. CASE MatchTrade
  <2>1. PICK sale \in Tops(Sale), buy \in Tops(Buy) :
          /\ TradeOrder(sale, buy)
          /\ heap' = Taken(Taken(heap, sale, TradeVolume(sale, buy)), buy, TradeVolume(sale, buy))
    BY <1>5 DEF MatchTrade
  <2>2. sale \in Order /\ buy \in Order
    BY <1>c, TopsType DEF Directions
  <2>3. /\ TradeVolume(sale, buy) \in Nat
        /\ TradeVolume(sale, buy) <= sale.volume /\ TradeVolume(sale, buy) <= buy.volume
    BY <2>2, LesserVolume DEF TradeVolume
  <2>4. heap' \in Book
    BY <1>c, <2>1, <2>2, <2>3, TakenType
  <2>5. Moneys'
    BY <1>c, <2>1, <2>2, TradeOrderType
  <2>6. QED
    BY <1>b, <1>c, <1>5, <2>4, <2>5 DEF MatchTrade, twap, sweep, aon, input
<1>6. CASE MatchDone
  <2>1. Moneys'
    BY <1>c, <1>6 DEF MatchDone, money
  <2>2. QED BY <1>b, <1>c, <1>6, <2>1 DEF MatchDone, twap, sweep, aon, input
<1>7. CASE StartSweep
  BY <1>b, <1>c, <1>7 DEF StartSweep, Placing, money, twap, aon, input
<1>8. CASE SweepTrade
  <2>1. PICK top \in Tops(Opposite(order.direction)) :
          /\ IF order.type = BestFivePriceNoLeft /\ top.price # lastPriceLevel
               THEN levelNum' = levelNum + 1 /\ lastPriceLevel' = top.price
               ELSE UNCHANGED sweep
          /\ Execute(top)
          /\ order' = [order EXCEPT !.volume = @ - Lesser(order.volume, top.volume)]
          /\ heap' = Taken(heap, top, Lesser(order.volume, top.volume))
    BY <1>8 DEF SweepTrade
  <2>2. top \in Order /\ top.price \in Int
    BY <1>c, <1>d, TopsType, OrderFields
  <2> DEFINE v == Lesser(order.volume, top.volume)
  <2>3. v \in Nat /\ v <= order.volume /\ v <= top.volume
    BY <1>c, <2>2, LesserVolume
  <2>4. heap' \in Book
    BY <1>c, <2>1, <2>2, <2>3, TakenType
  <2>5. order' \in Order /\ order'.direction = order.direction
    BY <1>c, <2>1, <2>3, LeftOver
  <2>6. Sweep'
    BY <1>c, <2>1, <2>2 DEF sweep
  <2>7. Moneys'
    BY <1>c, <2>1, <2>2, ExecuteType
  <2>8. Queue' /\ Inputs' /\ Slots'
    BY <1>c, <1>8, <2>5 DEF SweepTrade, twap, aon, input
  <2>9. Control'
    BY <1>c, <1>8 DEF SweepTrade, aon
  <2>10. QED BY <1>b, <2>4, <2>5, <2>6, <2>7, <2>8, <2>9
<1>9. CASE SweepDone
  <2>1. Queue' /\ Control'
    BY <1>c, <1>9 DEF SweepDone, Return, aon
  <2>2. Moneys' /\ Sweep'
    BY <1>c, <1>9 DEF SweepDone, Return, money
  <2>3. QED
    BY <1>b, <1>c, <1>9, <2>1, <2>2, NoOrderType DEF SweepDone, Return, twap, input
<1>10. CASE StartAllOrNothing
  BY <1>b, <1>c, <1>10 DEF StartAllOrNothing, Placing, money, twap, sweep, input
<1>11. CASE Collect
  <2>1. PICK top \in Tops(Opposite(order.direction)) :
          /\ heap' = [heap EXCEPT ![top.direction] = @ \ {top}]
          /\ volumeSum' = volumeSum + top.volume
          /\ pending' = Append(pending, top)
    BY <1>11 DEF Collect
  <2>2. /\ top \in Order /\ top.volume > 0 /\ top.volume \in Nat
        /\ top.direction = Opposite(order.direction)
    BY <1>c, <1>d, TopsType, OrderFields
  <2>3. heap' \in Book
    BY <1>c, <1>d, <2>1, <2>2 DEF Book
  <2>4. Queue'
    BY <1>c, <1>11, <2>1, <2>2 DEF Collect
  <2>5. QED
    BY <1>b, <1>c, <1>11, <2>3, <2>4 DEF Collect, money, twap, sweep, input
<1>12. CASE CollectDone
  BY <1>b, <1>c, <1>12 DEF CollectDone, money, twap, sweep, aon, input
<1>13. CASE Fill
  <2> DEFINE top == Head(pending)
             v   == Lesser(order.volume, top.volume)
  <2>1. top \in Order /\ top.volume > 0
    BY <1>c, <1>13, TailOfPending DEF Fill
  <2>2. v \in Nat /\ v <= order.volume /\ v <= top.volume
    BY <1>c, <2>1, LesserVolume
  <2>3. /\ Execute(top)
        /\ order' = [order EXCEPT !.volume = @ - v]
        /\ heap' = IF top.volume = v THEN heap ELSE WithOrder(heap, [top EXCEPT !.volume = @ - v])
        /\ pending' = Tail(pending)
    BY <1>13 DEF Fill
  <2>4. /\ [top EXCEPT !.volume = @ - v] \in Order
        /\ [top EXCEPT !.volume = @ - v].volume = top.volume - v
    BY <2>1, <2>2, LeftOver
  <2> HIDE DEF v, top
  <2>5. heap' \in Book
    <3>1. top.volume # v => top.volume - v > 0
      BY <2>1, <2>2, OrderFields
    <3>2. QED BY <1>c, <2>3, <2>4, <3>1, WithOrderType
  <2>6. order' \in Order /\ order'.direction = order.direction
    BY <1>c, <2>2, <2>3, LeftOver
  <2>7. Queue'
    BY <1>c, <1>13, <2>3, <2>6, TailOfPending DEF Fill
  <2>8. Moneys'
    BY <1>c, <2>1, <2>3, ExecuteType
  <2>9. Control' /\ Inputs' /\ Slots' /\ Sweep'
    <3>1. Control'
      BY <1>c, <1>13 DEF Fill
    <3>2. QED BY <1>c, <1>13, <3>1 DEF Fill, twap, sweep, input
  <2>10. QED BY <1>b, <2>5, <2>6, <2>7, <2>8, <2>9
<1>14. CASE Cancel
  <2>1. Head(pending) \in Order /\ Head(pending).volume > 0
    BY <1>c, <1>14, TailOfPending DEF Cancel
  <2>2. heap' \in Book
    BY <1>c, <1>14, <2>1, WithOrderType DEF Cancel
  <2>3. Queue'
    BY <1>c, <1>14, TailOfPending DEF Cancel
  <2>4. QED
    BY <1>b, <1>c, <1>14, <2>2, <2>3 DEF Cancel, money, twap, sweep, input
<1>15. CASE AllOrNothingDone
  <2>1. Queue' /\ Control'
    BY <1>c, <1>15 DEF AllOrNothingDone, Return
  <2>2. Moneys'
    BY <1>c, <1>15 DEF AllOrNothingDone, Return, money
  <2>3. QED
    BY <1>b, <1>c, <1>15, <2>1, <2>2, NoOrderType DEF AllOrNothingDone, Return, twap, sweep, input
<1>16. QED
  BY <1>1, <1>2, <1>3, <1>4, <1>5, <1>6, <1>7, <1>8, <1>9, <1>10, <1>11, <1>12,
     <1>13, <1>14, <1>15 DEF Engine

LEMMA StutterType == TypeInv /\ UNCHANGED vars => TypeInv'
BY DEF TypeInv, TypeOK, PendingOnlyInAon, CallStack, vars, money, twap, sweep, aon, input

LEMMA TypeCorrectStrong == Spec => []TypeInv
<1>1. TypeInv /\ [Next]_vars => TypeInv'
  BY EnvironmentType, EngineType, StutterType DEF Next, Terminated
<1>2. QED BY InitType, <1>1, PTL DEF Spec

\* Every reachable state is of the right types, and no order without volume
\* rests in a heap (contract_engine.cpp:140, :185, :235, :299).
THEOREM TypeCorrect == Spec => []TypeOK
<1>1. TypeInv => TypeOK
  BY DEF TypeInv
<1>2. QED BY TypeCorrectStrong, <1>1, PTL

-----------------------------------------------------------------------------
(* Cash and position.                                                      *)

\* A trade changes the profit by what the new price does to the position held
\* before: the shares and the cash that change hands balance.
LEMMA TradeOrderRevalues ==
  ASSUME NEW sale \in Order, NEW buy \in Order, TradeOrder(sale, buy),
         lastPrice \in Int, income \in Int, volume \in Int
  PROVE  PNL' - PNL = (lastPrice' - lastPrice) * volume
<1> DEFINE v == TradeVolume(sale, buy)
           price == TradePrice(sale, buy)
           worth == lastPrice * volume
           paid  == prevClosePrice * prevPosition
<1>1. v \in Int /\ price \in Int
  BY DEF TradeVolume, TradePrice, Lesser, Order
<1>2. paid \in Int /\ worth \in Int
  BY SessionAssumption
<1>3. /\ lastPrice' = price
      /\ \/ income' = income + price * v /\ volume' = volume - v
         \/ income' = income - price * v /\ volume' = volume + v
         \/ income' = income /\ volume' = volume
  BY DEF TradeOrder
<1> HIDE DEF v, price
<1>4. /\ price * (volume - v) = price * volume - price * v
      /\ price * (volume + v) = price * volume + price * v
      /\ (price - lastPrice) * volume = price * volume - worth
      /\ price * volume \in Int /\ price * v \in Int
  BY <1>1
<1>5. PNL = worth - paid + income
  BY DEF PNL
<1>6. PNL' = price * volume' - paid + income'
  BY <1>3 DEF PNL
<1> HIDE DEF worth, paid
<1>7. price * volume' + income' = price * volume + income
  BY <1>1, <1>3, <1>4
<1>8. price * volume' \in Int /\ income' \in Int
  BY <1>1, <1>3, <1>4
<1>9. PNL' - PNL = price * volume - worth
  BY <1>2, <1>4, <1>5, <1>6, <1>7, <1>8
<1>10. QED BY <1>3, <1>4, <1>9

LEMMA StepRevalues ==
  TypeInv /\ [Next]_vars => [PNL' - PNL = (lastPrice' - lastPrice) * volume]_vars
<1> SUFFICES ASSUME TypeInv, [Next]_vars
             PROVE  PNL' - PNL = (lastPrice' - lastPrice) * volume
  OBVIOUS
<1>a. /\ heap \in Book /\ order \in Order /\ pending \in Seq(Order)
      /\ lastPrice \in Int /\ income \in Int /\ volume \in Int
      /\ Opposite(order.direction) \in Directions
  BY OrderFields DEF TypeInv, TypeOK
<1>1. CASE UNCHANGED money
  <2>1. lastPrice' = lastPrice /\ income' = income /\ volume' = volume
    BY <1>1 DEF money
  <2>2. PNL' = PNL /\ PNL \in Int
    BY <1>a, <2>1, SessionAssumption DEF PNL
  <2>3. QED BY <1>a, <2>1, <2>2
<1>2. CASE MatchTrade
  <2>1. PICK sale \in Tops(Sale), buy \in Tops(Buy) : TradeOrder(sale, buy)
    BY <1>2 DEF MatchTrade
  <2>2. sale \in Order /\ buy \in Order
    BY <1>a, TopsType DEF Directions
  <2>3. QED BY <1>a, <2>1, <2>2, TradeOrderRevalues
<1>3. ASSUME NEW top \in Order, Execute(top)
      PROVE  PNL' - PNL = (lastPrice' - lastPrice) * volume
  BY <1>a, <1>3, TradeOrderRevalues DEF Execute
<1>4. CASE SweepTrade
  <2>1. PICK top \in Tops(Opposite(order.direction)) : Execute(top)
    BY <1>4 DEF SweepTrade
  <2>2. top \in Order
    BY <1>a, TopsType
  <2>3. QED BY <1>3, <2>1, <2>2
<1>5. CASE Fill
  <2>1. Execute(Head(pending)) /\ pending # <<>>
    BY <1>5 DEF Fill
  <2>2. Head(pending) \in Order
    BY <1>a, <2>1, TailOfPending
  <2>3. QED BY <1>3, <2>1, <2>2
<1>6. CASE Environment \/ Terminated \/ UNCHANGED vars
  BY <1>6, <1>1 DEF Environment, InsertAlpha, InsertOrderLog, OnComplete, Terminated, vars
<1>7. CASE Engine
  <2>1. UNCHANGED money \/ MatchTrade \/ SweepTrade \/ Fill
    BY <1>7 DEF Engine, ProcessTwapOrder, CloseDone, PlacePriceLimit, PlaceAtBest, ThenMatch,
       MatchDone, StartSweep, SweepDone, StartAllOrNothing, Collect, CollectDone, Cancel,
       AllOrNothingDone
  <2>2. QED BY <2>1, <1>1, <1>2, <1>4, <1>5
<1>8. QED BY <1>6, <1>7 DEF Next

\* tradeOrder (contract_engine.cpp:271-277) books cash and position with the
\* same price and the same volume, on every path that trades.
THEOREM ProfitRevalues == Spec => PnlOnlyRevalues
<1>1. QED BY TypeCorrectStrong, StepRevalues, PTL DEF Spec, PnlOnlyRevalues

-----------------------------------------------------------------------------
(* The schedule of TWAP slices is worked through in time, if the alphas of *)
(* an instrument are far enough apart.                                     *)

\* Time from the first slice of an alpha to its last.
Span == (sessionNum - 1) * sessionLength * Second

\* The schedule is sorted, though only its head is ever looked at.
Sorted ==
  \A i, j \in 1..Len(twapOrders) :
    i <= j => twapOrders[i].timestamp <= twapOrders[j].timestamp

ScheduleInv ==
  /\ Sorted
  /\ alphas = 0 => twapOrders = <<>>
  /\ \A i \in 1..Len(twapOrders) : twapOrders[i].timestamp <= alphaTime + Span

InTime ==
  \A j \in twapHead + 1..Len(twapOrders) : twapOrders[j].timestamp >= order.timestamp

Executing == pc \in {"sweep", "collect", "fill", "cancel"}

-----------------------------------------------------------------------------
(* The slices of one alpha.                                                *)

LEMMA SliceTimes ==
  ASSUME NEW timestamp \in Int, NEW i \in 1..sessionNum, NEW j \in 1..sessionNum, i <= j
  PROVE  LET t(k) == timestamp + (k - 1) * sessionLength * Second
         IN  timestamp <= t(i) /\ t(i) <= t(j) /\ t(j) <= timestamp + Span
<1> DEFINE m(k) == (k - 1) * sessionLength * Second
<1>1. ASSUME NEW x \in Nat, NEW y \in Nat, x <= y, NEW l \in Nat, NEW s \in Nat
      PROVE  x * l * s <= y * l * s /\ x * l * s \in Nat /\ y * l * s \in Nat
  <2>1. PICK d \in Nat : y = x + d
    <3>1. y - x \in Nat /\ y = x + (y - x)
      BY <1>1
    <3>2. QED BY <3>1
  <2>2. x * l \in Nat /\ d * l \in Nat /\ y * l = x * l + d * l
    BY <2>1
  <2>3. (x * l) * s \in Nat /\ (d * l) * s \in Nat /\ (y * l) * s = (x * l) * s + (d * l) * s
    BY <2>2
  <2>4. QED BY <2>3
<1>2. /\ i - 1 \in Nat /\ j - 1 \in Nat /\ sessionNum - 1 \in Nat
      /\ i - 1 <= j - 1 /\ j - 1 <= sessionNum - 1
      /\ sessionLength \in Nat /\ Second \in Nat
  BY SessionAssumption
<1>3. m(i) <= m(j) /\ m(i) \in Nat /\ m(j) \in Nat
  BY <1>1, <1>2
<1>4. m(j) <= Span /\ Span \in Nat
  BY <1>1, <1>2 DEF Span
<1>5. QED BY <1>3, <1>4

LEMMA SlicesTimes ==
  ASSUME NEW timestamp, NEW diff
  PROVE  /\ DOMAIN Slices(timestamp, diff) = 1..sessionNum
         /\ \A k \in 1..sessionNum :
              Slices(timestamp, diff)[k].timestamp
                = timestamp + (k - 1) * sessionLength * Second
BY DEF Slices

-----------------------------------------------------------------------------

LEMMA ScheduleInit == Init => ScheduleInv
BY DEF Init, ScheduleInv, Sorted

LEMMA ScheduleStep ==
  ASSUME AlphaGap >= Span
  PROVE  TypeInv /\ ScheduleInv /\ [Next]_vars => ScheduleInv'
<1> SUFFICES ASSUME TypeInv, ScheduleInv, [Next]_vars PROVE ScheduleInv'
  OBVIOUS
<1>a. /\ twapOrders \in Seq(Order) /\ twapHead \in 0..Len(twapOrders) /\ heap \in Book
      /\ alphas \in Nat /\ alphaTime \in Int
      /\ \A i \in 1..Len(twapOrders) : twapOrders[i].timestamp \in Int
  BY OrderFields DEF TypeInv, TypeOK
<1>1. CASE InsertAlpha
  <2>1. PICK timestamp \in AlphaTimes, target \in Targets :
          /\ alphas > 0 => timestamp >= alphaTime + AlphaGap
          /\ alphas' = alphas + 1 /\ alphaTime' = timestamp
          /\ twapOrders' = IF target = targetVolume THEN twapOrders
                           ELSE twapOrders \o Slices(timestamp, target - targetVolume)
    BY <1>1 DEF InsertAlpha
  <2> DEFINE s == Slices(timestamp, target - targetVolume)
             n == Len(twapOrders)
  <2>2. timestamp \in Int /\ target \in Int /\ AlphaGap \in Nat /\ targetVolume \in Int
    BY DataAssumption DEF TypeInv, TypeOK
  <2>3. s \in Seq(Order) /\ sessionNum \in Nat
    BY <1>a, <2>2, SlicesType, SessionAssumption
  <2>4. /\ Len(s) = sessionNum
        /\ \A k \in 1..sessionNum :
             s[k].timestamp = timestamp + (k - 1) * sessionLength * Second
    BY <2>3, SlicesTimes
  <2>5. Span \in Nat
    <3>1. sessionNum - 1 \in Nat /\ sessionLength \in Nat /\ Second \in Nat
      BY SessionAssumption
    <3>2. QED BY <3>1 DEF Span
  \* Nothing scheduled before is later than this alpha.
  <2>6. \A i \in 1..n : twapOrders[i].timestamp <= timestamp
    <3>1. CASE alphas = 0
      BY <3>1, <1>a DEF ScheduleInv
    <3>2. CASE alphas > 0
      BY <3>2, <1>a, <2>1, <2>2, <2>5 DEF ScheduleInv
    <3>3. QED BY <1>a, <3>1, <3>2
  <2>s. target # targetVolume => twapOrders' = twapOrders \o s
    BY <2>1
  <2> HIDE DEF s
  <2>7. CASE target = targetVolume
    BY <2>1, <2>2, <2>5, <2>6, <2>7, <1>a DEF ScheduleInv, Sorted
  <2>8. CASE target # targetVolume
    <3>1. /\ twapOrders' = twapOrders \o s /\ Len(twapOrders') = n + sessionNum
          /\ \A i \in 1..n : twapOrders'[i] = twapOrders[i]
          /\ \A k \in 1..sessionNum : twapOrders'[n + k] = s[k]
      <4>1. twapOrders' = twapOrders \o s
        BY <2>s, <2>8
      <4>2. /\ Len(twapOrders \o s) = n + Len(s)
            /\ \A i \in 1..n + Len(s) :
                 (twapOrders \o s)[i] = IF i <= n THEN twapOrders[i] ELSE s[i - n]
        BY <1>a, <2>3, ConcatProperties
      <4>3. n \in Nat /\ Len(s) = sessionNum
        BY <1>a, <2>4
      <4> HIDE DEF n
      <4>4. ASSUME NEW i \in 1..n PROVE (twapOrders \o s)[i] = twapOrders[i]
        BY <2>3, <4>2, <4>3
      <4>5. ASSUME NEW k \in 1..sessionNum PROVE (twapOrders \o s)[n + k] = s[k]
        <5>1. n + k \in 1..n + Len(s) /\ ~(n + k <= n) /\ (n + k) - n = k
          BY <2>3, <4>3
        <5>2. QED BY <4>2, <5>1
      <4>6. QED BY <4>1, <4>2, <4>3, <4>4, <4>5
    <3>2. ASSUME NEW i \in 1..Len(twapOrders'), i > n
          PROVE  /\ i - n \in 1..sessionNum /\ twapOrders'[i] = s[i - n]
                 /\ twapOrders'[i].timestamp
                      = timestamp + ((i - n) - 1) * sessionLength * Second
                 /\ twapOrders'[i].timestamp \in Int
      <4>1. i - n \in 1..sessionNum /\ i = n + (i - n)
        BY <1>a, <2>3, <3>1, <3>2
      <4>2. twapOrders'[i] = s[i - n] /\ s[i - n] \in Order
        BY <2>3, <2>4, <3>1, <4>1
      <4>3. QED BY <2>4, <4>1, <4>2, OrderFields
    <3>3. ASSUME NEW i \in 1..Len(twapOrders'), NEW j \in 1..Len(twapOrders'), i <= j
          PROVE  twapOrders'[i].timestamp <= twapOrders'[j].timestamp
      <4>1. CASE j <= n
        BY <3>1, <3>3, <4>1, <1>a DEF ScheduleInv, Sorted
      <4>2. CASE i <= n /\ j > n
        <5>1. timestamp <= twapOrders'[j].timestamp
          BY <2>2, <3>2, <4>2, SliceTimes
        <5>2. twapOrders'[i].timestamp <= timestamp /\ twapOrders'[i].timestamp \in Int
          BY <2>6, <3>1, <4>2, <1>a
        <5>3. QED BY <2>2, <3>2, <4>2, <5>1, <5>2
      <4>3. CASE i > n
        <5>1. j > n /\ i - n <= j - n
          BY <1>a, <3>1, <3>3, <4>3, <2>3
        <5>2. QED BY <2>2, <3>2, <3>3, <4>3, <5>1, SliceTimes
      <4>4. QED BY <1>a, <2>3, <3>1, <4>1, <4>2, <4>3
    <3>4. ASSUME NEW i \in 1..Len(twapOrders')
          PROVE  twapOrders'[i].timestamp <= alphaTime' + Span
      <4>1. CASE i <= n
        BY <1>a, <2>1, <2>2, <2>5, <2>6, <3>1, <4>1
      <4>2. CASE i > n
        BY <2>1, <2>2, <3>2, <4>2, SliceTimes
      <4>3. QED BY <1>a, <2>3, <3>1, <4>1, <4>2
    <3>5. alphas' # 0
      BY <1>a, <2>1
    <3>6. QED BY <3>3, <3>4, <3>5 DEF ScheduleInv, Sorted, Span
  <2>9. QED BY <2>7, <2>8
<1>2. CASE ProcessTwapOrder
  <2> DEFINE head == twapOrders[twapHead + 1]
  <2>1. twapHead < Len(twapOrders) /\ UNCHANGED <<alphas, alphaTime>>
    BY <1>2 DEF ProcessTwapOrder, TwapDue, input
  <2>2. twapHead + 1 \in 1..Len(twapOrders)
    BY <1>a, <2>1
  <2>3. head \in Order
    BY <1>a, <2>2
  <2>4. PICK basePrice \in BasePrice(head.direction) :
          twapOrders' = [twapOrders EXCEPT ![twapHead + 1] = [head EXCEPT !.price = basePrice]]
    BY <1>2 DEF ProcessTwapOrder
  <2>5. basePrice \in Int
    BY <1>a, <2>3, OrderFields, BasePriceType DEF TypeInv, TypeOK
  <2>6. [head EXCEPT !.price = basePrice].timestamp = head.timestamp
    BY <2>3, <2>5, Repriced
  <2>7. /\ Len(twapOrders') = Len(twapOrders)
        /\ \A i \in 1..Len(twapOrders) : twapOrders'[i].timestamp = twapOrders[i].timestamp
    BY <1>a, <2>2, <2>4, <2>6
  <2>8. alphas # 0
    BY <1>a, <2>1 DEF ScheduleInv
  <2>9. QED BY <2>1, <2>7, <2>8 DEF ScheduleInv, Sorted, Span
<1>3. CASE UNCHANGED <<alphas, alphaTime, twapOrders>>
  BY <1>3 DEF ScheduleInv, Sorted, Span
<1>4. CASE InsertOrderLog \/ OnComplete \/ Terminated \/ UNCHANGED vars
  <2>1. UNCHANGED <<alphas, alphaTime, twapOrders>>
    BY <1>4 DEF InsertOrderLog, OnComplete, Terminated, vars, input, twap
  <2>2. QED BY <2>1, <1>3
<1>5. CASE Engine
  <2>1. ProcessTwapOrder \/ UNCHANGED <<alphas, alphaTime, twapOrders>>
    BY <1>5 DEF Engine, CloseDone, PlacePriceLimit, PlaceAtBest, ThenMatch, MatchTrade,
       MatchDone, StartSweep, SweepTrade, SweepDone, StartAllOrNothing, Collect, CollectDone,
       Fill, Cancel, AllOrNothingDone, input, twap
  <2>2. QED BY <2>1, <1>2, <1>3
<1>6. QED BY <1>1, <1>4, <1>5 DEF Next, Environment

\* An order is placed when the head of the schedule is not due: with a sorted
\* schedule nothing behind it is.
LEMMA NothingDue == TypeInv /\ ScheduleInv /\ pc = "order" /\ ~TwapDue => InTime
<1> SUFFICES ASSUME TypeInv, ScheduleInv, pc = "order", ~TwapDue,
                    NEW j \in twapHead + 1..Len(twapOrders)
             PROVE  twapOrders[j].timestamp >= order.timestamp
  BY DEF InTime
<1>1. /\ twapOrders \in Seq(Order) /\ twapHead \in 0..Len(twapOrders) /\ order \in Order
  BY DEF TypeInv, TypeOK
<1>2. twapHead + 1 \in 1..Len(twapOrders) /\ j \in 1..Len(twapOrders) /\ twapHead + 1 <= j
  BY <1>1
<1>3. ~(twapOrders[twapHead + 1].timestamp < order.timestamp)
  BY <1>1, <1>2 DEF TwapDue, CurrentTime
<1>4. /\ twapOrders[twapHead + 1].timestamp \in Int /\ twapOrders[j].timestamp \in Int
      /\ order.timestamp \in Int
  BY <1>1, <1>2, OrderFields
<1>5. twapOrders[twapHead + 1].timestamp <= twapOrders[j].timestamp
  BY <1>2 DEF ScheduleInv, Sorted
<1>6. QED BY <1>3, <1>4, <1>5

\* An order that executes goes on with the schedule it found.
ExecutingInTime == Executing => InTime

LEMMA ExecutingStep ==
  TypeInv /\ ScheduleInv /\ ExecutingInTime /\ [Next]_vars => ExecutingInTime'
<1> SUFFICES ASSUME TypeInv, ScheduleInv, ExecutingInTime, [Next]_vars, Executing'
             PROVE  InTime'
  BY DEF ExecutingInTime
<1>a. order \in Order /\ heap \in Book /\ pending \in Seq(Order)
      /\ Opposite(order.direction) \in Directions
  BY OrderFields DEF TypeInv, TypeOK
<1>b. ASSUME UNCHANGED <<twapOrders, twapHead>>, order'.timestamp = order.timestamp,
             Executing \/ (pc = "order" /\ ~TwapDue)
      PROVE  InTime'
  BY <1>b, NothingDue DEF InTime, ExecutingInTime
<1>1. CASE StartSweep \/ StartAllOrNothing
  BY <1>1, <1>b DEF StartSweep, StartAllOrNothing, Placing, twap
<1>2. CASE SweepTrade
  <2>1. PICK top \in Tops(Opposite(order.direction)) :
          order' = [order EXCEPT !.volume = @ - Lesser(order.volume, top.volume)]
    BY <1>2 DEF SweepTrade
  <2>2. order'.timestamp = order.timestamp
    BY <1>a, <2>1, TopsType, LesserVolume, LeftOver
  <2>3. QED BY <1>2, <1>b, <2>2 DEF SweepTrade, Executing, twap
<1>3. CASE Collect \/ CollectDone \/ Cancel
  BY <1>3, <1>b DEF Collect, CollectDone, Cancel, Executing, twap
<1>4. CASE Fill
  <2>1. order' = [order EXCEPT !.volume = @ - Lesser(order.volume, Head(pending).volume)]
    BY <1>4 DEF Fill
  <2>2. Head(pending) \in Order
    BY <1>a, <1>4, TailOfPending DEF Fill
  <2>3. order'.timestamp = order.timestamp
    BY <1>a, <2>1, <2>2, LesserVolume, LeftOver
  <2>4. QED BY <1>4, <1>b, <2>3 DEF Fill, Executing, twap
<1>5. CASE Environment \/ ProcessTwapOrder \/ CloseDone \/ PlacePriceLimit \/ PlaceAtBest
           \/ MatchTrade \/ SweepDone \/ AllOrNothingDone \/ Terminated
  BY <1>5 DEF Environment, InsertAlpha, InsertOrderLog, OnComplete, ProcessTwapOrder,
     CloseDone, PlacePriceLimit, PlaceAtBest, ThenMatch, MatchTrade, SweepDone,
     AllOrNothingDone, Return, Terminated, vars, Executing
<1>6. CASE MatchDone
  BY <1>6 DEF MatchDone, Executing, TypeInv, TypeOK
<1>7. CASE UNCHANGED vars
  BY <1>7, <1>b DEF vars, twap, Executing
<1>8. QED BY <1>1, <1>2, <1>3, <1>4, <1>5, <1>6, <1>7 DEF Next, Engine

\* "Ensure all TWAP orders with timestamp < orderLog.timestamp are processed"
\* (contract_engine.cpp:29), if two alphas of an instrument are at least a whole
\* TWAP window apart.
THEOREM SlicesInTime ==
  ASSUME AlphaGap >= Span
  PROVE  Spec => []TwapInTime
<1>1. TypeInv /\ ScheduleInv /\ [Next]_vars => ScheduleInv'
  BY ScheduleStep
<1>2. Spec => []ScheduleInv
  BY TypeCorrectStrong, ScheduleInit, <1>1, PTL DEF Spec
<1>3. Init => ExecutingInTime
  BY DEF Init, ExecutingInTime, Executing
<1>4. Spec => []ExecutingInTime
  BY TypeCorrectStrong, <1>2, <1>3, ExecutingStep, PTL DEF Spec
<1>5. TypeInv /\ ScheduleInv /\ ExecutingInTime => TwapInTime
  BY NothingDue DEF TwapInTime, ExecutingInTime, Executing, InTime, Placing
<1>6. QED BY TypeCorrectStrong, <1>2, <1>4, <1>5, PTL

=============================================================================
