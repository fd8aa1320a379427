------------------------- MODULE ContractBook_proofs -------------------------
(***************************************************************************)
(* The book is never left crossed, its orders trade in the order of their  *)
(* priority, an AllOrNothing order that fails leaves it as it was, and no  *)
(* price leaves the daily limits or gets better in the course of an order: *)
(* whatever the orders, the alphas and the parameters of the session.      *)
(***************************************************************************)
EXTENDS ContractEngine_proofs

Uncrossed(h) == \A sale \in h[Sale], buy \in h[Buy] : sale.price > buy.price

\* Orders collected by AllOrNothing do not cross the side they will never meet
\* again: they may go back into the book.
PendingUncrossed ==
  \A i \in DOMAIN pending : \A o \in heap[order.direction] :
    IF order.direction = Sale THEN o.price > pending[i].price
                              ELSE o.price < pending[i].price

BookInv == BookUncrossed /\ PendingUncrossed

-----------------------------------------------------------------------------
(* What the operators on the book do to prices and timestamps.             *)

\* Taking volume from an order brings no new price and no new timestamp.
LEMMA TakenFrom ==
  ASSUME NEW h \in Book, NEW o \in Order, o \in h[o.direction],
         NEW v \in Nat, v <= o.volume, NEW direction \in Directions,
         NEW x \in Taken(h, o, v)[direction]
  PROVE  \E y \in h[direction] : y.price = x.price /\ y.timestamp = x.timestamp
<1> DEFINE rest == [o EXCEPT !.volume = @ - v]
<1>1. rest.price = o.price /\ rest.timestamp = o.timestamp
  BY LeftOver
<1>2. o.direction \in Directions /\ DOMAIN h = Directions
  BY OrderFields DEF Book
<1>3. x \in h[direction] \/ (direction = o.direction /\ x = rest)
  BY <1>2 DEF Taken
<1>4. QED BY <1>1, <1>3

\* A trade of the two tops likewise, on both sides.
LEMMA BothTakenFrom ==
  ASSUME heap \in Book, NEW sale \in Tops(Sale), NEW buy \in Tops(Buy),
         NEW v, v = TradeVolume(sale, buy), NEW direction \in Directions,
         NEW x \in Taken(Taken(heap, sale, v), buy, v)[direction]
  PROVE  \E y \in heap[direction] : y.price = x.price /\ y.timestamp = x.timestamp
<1>1. /\ sale \in Order /\ sale.direction = Sale /\ sale \in heap[sale.direction]
      /\ buy \in Order /\ buy.direction = Buy /\ buy \in heap[buy.direction]
  BY TopsType DEF Directions
<1>2. v \in Nat /\ v <= sale.volume /\ v <= buy.volume
  BY <1>1, LesserVolume DEF TradeVolume
<1>3. Taken(heap, sale, v) \in Book
  BY <1>1, <1>2, TakenType
<1>4. buy \in Taken(heap, sale, v)[buy.direction]
  BY <1>1 DEF Taken, Book, Sale, Buy, Directions
<1>5. PICK z \in Taken(heap, sale, v)[direction] : z.price = x.price /\ z.timestamp = x.timestamp
  BY <1>1, <1>2, <1>3, <1>4, TakenFrom
<1>6. QED BY <1>1, <1>2, <1>5, TakenFrom

LEMMA WithOrderFrom ==
  ASSUME NEW h \in Book, NEW o \in Order, NEW direction \in Directions
  PROVE  WithOrder(h, o)[direction] = IF direction = o.direction THEN h[direction] \cup {o}
                                                               ELSE h[direction]
BY OrderFields DEF WithOrder, Book

LEMMA WithOrderAtMost ==
  ASSUME NEW h \in Book, NEW o \in Order
  PROVE  \A direction \in Directions : WithOrder(h, o)[direction] \subseteq h[direction] \cup {o}
<1> SUFFICES ASSUME NEW direction \in Directions
             PROVE  WithOrder(h, o)[direction] \subseteq h[direction] \cup {o}
  OBVIOUS
<1>1. CASE direction = o.direction
  BY <1>1, WithOrderFrom
<1>2. CASE direction # o.direction
  BY <1>2, WithOrderFrom
<1>3. QED BY <1>1, <1>2

\* No order of a side is better priced than its top.
LEMMA TopsBest ==
  ASSUME heap \in Book, NEW direction \in Directions, NEW top \in Tops(direction),
         NEW o \in heap[direction]
  PROVE  IF direction = Sale THEN top.price <= o.price ELSE top.price >= o.price
<1>1. ~Before(direction, o, top) /\ o \in Order /\ top \in Order
  BY TopsType DEF Tops, Book
<1>2. QED BY <1>1, OrderFields DEF Before

-----------------------------------------------------------------------------

LEMMA BookInit == Init => BookInv
BY DEF Init, BookInv, BookUncrossed, PendingUncrossed, Directions

LEMMA BookStep == TypeInv /\ BookInv /\ [Next]_vars => BookInv'
<1> SUFFICES ASSUME TypeInv, BookInv, [Next]_vars PROVE BookInv'
  OBVIOUS
<1>a. /\ heap \in Book /\ order \in Order /\ pending \in Seq(Order)
      /\ order.direction \in Directions /\ Opposite(order.direction) \in Directions
      /\ PendingOnlyInAon
      /\ \A i \in DOMAIN pending : pending[i].direction = Opposite(order.direction)
  BY OrderFields DEF TypeInv, TypeOK
<1>b. pc # "match" => Uncrossed(heap)
  BY DEF BookInv, BookUncrossed, Uncrossed
<1>c. PendingUncrossed
  BY DEF BookInv
<1>d. ASSUME pc' # "match" => Uncrossed(heap'), PendingUncrossed' PROVE BookInv'
  BY <1>d DEF BookInv, BookUncrossed, Uncrossed
<1>e. ASSUME pending' = <<>> PROVE PendingUncrossed'
  BY <1>e DEF PendingUncrossed
\* Steps that leave the book alone.
<1>1. CASE UNCHANGED <<heap, pending>> /\ pc # "match"
           /\ (order' = order \/ pending' = <<>>)
  BY <1>1, <1>b, <1>c, <1>d DEF PendingUncrossed
<1>2. CASE InsertAlpha \/ InsertOrderLog \/ OnComplete
  <2>1. UNCHANGED <<heap, pending>> /\ pc = "idle"
    BY <1>2 DEF InsertAlpha, InsertOrderLog, OnComplete, aon
  <2>2. QED BY <2>1, <1>1, <1>a DEF PendingOnlyInAon
\* Steps that put an order into the book are followed by processTrade.
<1>3. CASE ProcessTwapOrder \/ PlacePriceLimit \/ PlaceAtBest
  <2>1. pc' = "match" /\ pending' = pending /\ pc \in {"order", "close"}
    BY <1>3 DEF ProcessTwapOrder, PlacePriceLimit, PlaceAtBest, Placing, ThenMatch, aon
  <2>2. pending' = <<>>
    BY <2>1, <1>a DEF PendingOnlyInAon
  <2>3. QED BY <2>1, <2>2, <1>d, <1>e
<1>4. CASE MatchTrade
  <2>1. pc' = "match" /\ pending' = pending /\ pc = "match"
    BY <1>4 DEF MatchTrade, aon
  <2>2. pending' = <<>>
    BY <2>1, <1>a DEF PendingOnlyInAon
  <2>3. QED BY <2>1, <2>2, <1>d, <1>e
\* processTrade ends only when the tops do not cross.
<1>5. CASE MatchDone
  <2>1. UNCHANGED <<heap, pending>> /\ pc = "match"
    BY <1>5 DEF MatchDone, aon
  <2>2. Uncrossed(heap)
    <3>1. CASE heap[Sale] = {} \/ heap[Buy] = {}
      BY <3>1 DEF Uncrossed
    <3>2. CASE \E sale \in Tops(Sale), buy \in Tops(Buy) : sale.price > buy.price
      <4>1. PICK sale \in Tops(Sale), buy \in Tops(Buy) : sale.price > buy.price
        BY <3>2
      <4>2. ASSUME NEW s \in heap[Sale], NEW b \in heap[Buy] PROVE s.price > b.price
        <5>1. /\ sale.price <= s.price /\ b.price <= buy.price
          BY <1>a, TopsBest DEF Directions, Sale, Buy
        <5>2. s \in Order /\ b \in Order /\ sale \in Order /\ buy \in Order
          BY <1>a, TopsType DEF Book, Directions
        <5>3. QED BY <4>1, <5>1, <5>2, OrderFields
      <4>3. QED BY <4>2 DEF Uncrossed
    <3>3. QED BY <1>5, <3>1, <3>2 DEF MatchDone
  <2>3. pending' = <<>>
    BY <2>1, <1>a DEF PendingOnlyInAon
  <2>4. QED BY <2>1, <2>2, <2>3, <1>d, <1>e
\* A sweep only takes orders away.
<1>6. CASE SweepTrade
  <2>1. pc = "sweep" /\ pc' = pc /\ pending' = pending
    BY <1>6 DEF SweepTrade, aon
  <2>2. PICK top \in Tops(Opposite(order.direction)) :
          heap' = Taken(heap, top, Lesser(order.volume, top.volume))
    BY <1>6 DEF SweepTrade
  <2>3. top \in Order /\ top \in heap[top.direction]
    BY <1>a, TopsType
  <2>4. ASSUME NEW direction \in Directions, NEW x \in heap'[direction]
        PROVE  \E y \in heap[direction] : y.price = x.price
    BY <1>a, <2>2, <2>3, LesserVolume, TakenFrom
  <2>5. Uncrossed(heap')
    BY <1>b, <2>1, <2>4 DEF Uncrossed, Directions
  <2>6. pending' = <<>>
    BY <2>1, <1>a DEF PendingOnlyInAon
  <2>7. QED BY <2>5, <2>6, <1>d, <1>e
<1>7. CASE Collect
  <2>1. pc = "collect" /\ order' = order
    BY <1>7 DEF Collect
  <2>2. PICK top \in Tops(Opposite(order.direction)) :
          /\ heap' = [heap EXCEPT ![top.direction] = @ \ {top}]
          /\ pending' = Append(pending, top)
    BY <1>7 DEF Collect
  <2>3. /\ top \in Order /\ top \in heap[Opposite(order.direction)]
        /\ top.direction = Opposite(order.direction)
    BY <1>a, TopsType
  <2>4. /\ \A direction \in Directions : heap'[direction] \subseteq heap[direction]
        /\ heap'[order.direction] = heap[order.direction]
    BY <1>a, <2>2, <2>3 DEF Book, Opposite, Directions, Sale, Buy
  <2>5. Uncrossed(heap')
    BY <1>b, <2>1, <2>4 DEF Uncrossed, Directions
  <2>6. PendingUncrossed'
    <3>1. ASSUME NEW o \in heap[order.direction]
          PROVE  IF order.direction = Sale THEN o.price > top.price ELSE o.price < top.price
      <4>1. o \in Order
        BY <1>a DEF Book
      <4>2. QED BY <1>a, <1>b, <2>1, <2>3, <4>1, OrderFields DEF Uncrossed, Opposite, Directions
    <3>2. \A i \in DOMAIN pending' : pending'[i] = top \/ (i \in DOMAIN pending /\ pending'[i] = pending[i])
      BY <1>a, <2>2, <2>3
    <3>3. QED BY <1>c, <2>1, <2>4, <3>1, <3>2 DEF PendingUncrossed
  <2>7. QED BY <2>5, <2>6, <1>d
\* Orders put back, whole or in part, were uncrossed when they were taken.
<1>8. ASSUME NEW o \in Order, pending # <<>>, o.price = Head(pending).price,
             o.direction = Head(pending).direction,
             heap' = heap \/ heap' = WithOrder(heap, o),
             pending' = Tail(pending), pc # "match", pc' # "match",
             order'.direction = order.direction
      PROVE  BookInv'
  <2>1. /\ 1 \in DOMAIN pending /\ Head(pending) = pending[1]
        /\ \A i \in DOMAIN pending' : i + 1 \in DOMAIN pending /\ pending'[i] = pending[i + 1]
    BY <1>a, <1>8, TailOfPending
  <2>2. o.direction = Opposite(order.direction)
    BY <1>a, <1>8, <2>1
  <2>b. /\ o.direction \in Directions /\ order.direction # o.direction
        /\ WithOrder(heap, o)[order.direction] = heap[order.direction]
        /\ WithOrder(heap, o)[o.direction] = heap[o.direction] \cup {o}
    <3>1. o.direction \in Directions /\ order.direction # o.direction
      BY <1>a, <2>2 DEF Opposite, Directions, Sale, Buy
    <3>2. QED BY <1>a, <1>8, <3>1, WithOrderFrom
  <2>3. heap'[order.direction] = heap[order.direction]
    BY <1>8, <2>b
  <2>4. PendingUncrossed'
    BY <1>c, <1>8, <2>1, <2>3 DEF PendingUncrossed
  <2>5. heap'[o.direction] \subseteq heap[o.direction] \cup {o}
    BY <1>8, <2>b
  <2>6. ASSUME NEW p \in heap[order.direction]
        PROVE  /\ p \in Order
               /\ IF order.direction = Sale THEN p.price > o.price ELSE p.price < o.price
    BY <1>a, <1>c, <1>8, <2>1 DEF PendingUncrossed, Book
  <2>7. Uncrossed(heap')
    <3>1. CASE order.direction = Sale
      BY <3>1, <1>b, <1>8, <2>2, <2>3, <2>5, <2>6 DEF Uncrossed, Opposite
    <3>2. CASE order.direction = Buy
      <4>1. o.direction = Sale /\ order.direction # Sale
        BY <2>2, <3>2 DEF Opposite, Sale, Buy
      <4>2. ASSUME NEW b \in heap[Buy] PROVE o.price > b.price
        BY <2>6, <3>2, <4>1, OrderFields
      <4>3. QED BY <4>1, <4>2, <3>2, <1>b, <1>8, <2>3, <2>5 DEF Uncrossed
    <3>3. QED BY <1>a, <3>1, <3>2 DEF Directions
  <2>8. QED BY <2>4, <2>7, <1>d
<1>9. CASE Fill
  <2> DEFINE top == Head(pending)
             v   == Lesser(order.volume, top.volume)
             rest == [top EXCEPT !.volume = @ - v]
  <2>1. /\ pending # <<>> /\ pending' = Tail(pending) /\ pc = "fill" /\ pc' = pc
        /\ order' = [order EXCEPT !.volume = @ - v]
        /\ heap' = IF top.volume = v THEN heap ELSE WithOrder(heap, rest)
    BY <1>9 DEF Fill
  <2>2. top \in Order
    BY <1>a, <2>1, TailOfPending
  <2>3. v \in Nat /\ v <= order.volume /\ v <= top.volume
    BY <1>a, <2>2, LesserVolume
  <2>4. rest \in Order /\ rest.price = top.price /\ rest.direction = top.direction
    BY <2>2, <2>3, LeftOver
  <2>5. order'.direction = order.direction
    BY <1>a, <2>1, <2>3, LeftOver
  <2> HIDE DEF rest, v
  <2>6. QED BY <2>1, <2>4, <2>5, <1>8
<1>10. CASE Cancel
  <2>1. /\ pending # <<>> /\ pending' = Tail(pending) /\ pc = "cancel" /\ pc' = pc
        /\ order' = order /\ heap' = WithOrder(heap, Head(pending))
    BY <1>10 DEF Cancel
  <2>2. Head(pending) \in Order
    BY <1>a, <2>1, TailOfPending
  <2>3. QED BY <2>1, <2>2, <1>8
<1>11. CASE CloseDone \/ StartSweep \/ StartAllOrNothing \/ CollectDone \/ Terminated
  <2>1. UNCHANGED <<heap, pending, order>> /\ pc # "match"
    BY <1>11 DEF CloseDone, StartSweep, StartAllOrNothing, CollectDone, Terminated,
                 Placing, vars, aon
  <2>2. QED BY <2>1, <1>1
<1>12. CASE SweepDone \/ AllOrNothingDone
  <2>1. UNCHANGED <<heap, pending>> /\ pc # "match" /\ (pc = "sweep" \/ pending = <<>>)
    BY <1>12 DEF SweepDone, AllOrNothingDone, aon
  <2>2. QED BY <2>1, <1>1, <1>a DEF PendingOnlyInAon
<1>13. CASE UNCHANGED vars
  <2>1. UNCHANGED <<heap, pending, order, pc>>
    BY <1>13 DEF vars, aon
  <2>2. QED BY <2>1, <1>b, <1>c, <1>d DEF PendingUncrossed
<1>14. QED
  BY <1>2, <1>3, <1>4, <1>5, <1>6, <1>7, <1>9, <1>10, <1>11, <1>12, <1>13
  DEF Next, Environment, Engine

\* Between trades no buyer of the book is willing to pay what a seller asks
\* (processTrade, contract_engine.cpp:288): the matching loop is complete, and
\* the sweeps and the queue of AllOrNothing never leave the book crossed.
THEOREM NeverCrossed == Spec => []BookUncrossed
<1>1. BookInv => BookUncrossed
  BY DEF BookInv
<1>2. QED BY TypeCorrectStrong, BookInit, BookStep, <1>1, PTL DEF Spec

-----------------------------------------------------------------------------
(* Priority.  AllOrNothing trades from a queue, not from the heap: the     *)
(* queue must be in the order of priority, and no order left in the heap   *)
(* come before one in it.                                                  *)

PendingSorted ==
  pc \in {"collect", "fill"} /\ order.volume > 0 =>
    \A i \in DOMAIN pending :
      /\ \A j \in DOMAIN pending :
           i < j => ~Before(pending[i].direction, pending[j], pending[i])
      /\ \A o \in heap[Opposite(order.direction)] :
           ~Before(pending[i].direction, o, pending[i])

\* Who has priority precedes the other in the heap: MyContract is the greatest
\* of the types.
LEMMA PriorityPrecedes ==
  ASSUME NEW o \in Order, NEW p \in Order, HasPriority(p, o)
  PROVE  Before(o.direction, p, o)
<1>1. /\ o.type \in LogTypes \cup {MyContract} /\ p.type \in LogTypes \cup {MyContract}
  BY DEF Order
<1>2. o.type = MyContract /\ p.type # MyContract => p.type < o.type
  BY <1>1 DEF LogTypes, MyContract, PriceLimit, AllOrNothing
<1>3. QED BY <1>2 DEF HasPriority, Before

LEMMA SortedInit == Init => PendingSorted
BY DEF Init, PendingSorted

LEMMA SortedStep == TypeInv /\ PendingSorted /\ [Next]_vars => PendingSorted'
<1> SUFFICES ASSUME TypeInv, PendingSorted, [Next]_vars PROVE PendingSorted'
  OBVIOUS
<1>a. /\ heap \in Book /\ order \in Order /\ pending \in Seq(Order)
      /\ order.direction \in Directions /\ Opposite(order.direction) \in Directions
      /\ PendingOnlyInAon
      /\ \A i \in DOMAIN pending : pending[i].direction = Opposite(order.direction)
  BY OrderFields DEF TypeInv, TypeOK
<1>b. ASSUME pc' \notin {"collect", "fill"} \/ pending' = <<>> PROVE PendingSorted'
  BY <1>b DEF PendingSorted
<1>1. CASE pc \notin {"collect", "fill", "cancel"} /\ pending' = pending
  BY <1>1, <1>a, <1>b DEF PendingOnlyInAon
<1>2. CASE InsertAlpha \/ InsertOrderLog \/ OnComplete \/ ProcessTwapOrder \/ CloseDone
  BY <1>2, <1>1 DEF InsertAlpha, InsertOrderLog, OnComplete, ProcessTwapOrder, CloseDone, aon
<1>3. CASE \/ PlacePriceLimit \/ PlaceAtBest \/ MatchTrade \/ MatchDone
           \/ StartSweep \/ SweepTrade \/ SweepDone \/ StartAllOrNothing
  BY <1>3, <1>1 DEF PlacePriceLimit, PlaceAtBest, Placing, ThenMatch, MatchTrade, MatchDone,
                    StartSweep, SweepTrade, SweepDone, StartAllOrNothing, aon
\* The order collected is a first one of the heap, and those before it were.
<1>4. CASE Collect
  <2>1. pc = "collect" /\ pc' = pc /\ order' = order
    BY <1>4 DEF Collect
  <2>2. PICK top \in Tops(Opposite(order.direction)) :
          /\ heap' = [heap EXCEPT ![top.direction] = @ \ {top}]
          /\ pending' = Append(pending, top)
    BY <1>4 DEF Collect
  <2>3. /\ top \in Order /\ top \in heap[Opposite(order.direction)]
        /\ top.direction = Opposite(order.direction)
        /\ \A p \in heap[Opposite(order.direction)] : ~Before(top.direction, p, top)
    BY <1>a, <2>2, TopsType DEF Tops
  <2>4. heap'[Opposite(order.direction)] \subseteq heap[Opposite(order.direction)]
    BY <1>a, <2>2, <2>3 DEF Book
  <2>5. \A i \in DOMAIN pending' :
          \/ i \in DOMAIN pending /\ pending'[i] = pending[i]
          \/ i \notin DOMAIN pending /\ pending'[i] = top /\ \A j \in DOMAIN pending' : ~(i < j)
    BY <1>a, <2>2, <2>3
  <2>6. CASE order.volume > 0
    <3>1. ASSUME NEW i \in DOMAIN pending
          PROVE  /\ \A j \in DOMAIN pending :
                      i < j => ~Before(pending[i].direction, pending[j], pending[i])
                 /\ \A o \in heap[Opposite(order.direction)] :
                      ~Before(pending[i].direction, o, pending[i])
      BY <2>1, <2>6 DEF PendingSorted
    <3>2. ASSUME NEW i \in DOMAIN pending'
          PROVE  /\ \A j \in DOMAIN pending' :
                      i < j => ~Before(pending'[i].direction, pending'[j], pending'[i])
                 /\ \A o \in heap'[Opposite(order.direction)] :
                      ~Before(pending'[i].direction, o, pending'[i])
      <4>1. CASE i \in DOMAIN pending /\ pending'[i] = pending[i]
        BY <4>1, <3>1, <2>3, <2>4, <2>5
      <4>2. CASE pending'[i] = top /\ \A j \in DOMAIN pending' : ~(i < j)
        BY <4>2, <2>3, <2>4
      <4>3. QED BY <2>5, <4>1, <4>2
    <3>3. QED BY <3>2, <2>1 DEF PendingSorted
  <2>7. QED BY <2>1, <2>6 DEF PendingSorted
<1>5. CASE CollectDone
  <2>1. UNCHANGED <<heap, order, pending>> /\ pc = "collect"
    BY <1>5 DEF CollectDone, aon
  <2>2. QED BY <2>1 DEF PendingSorted
\* While the order is not filled, the one traded is used up.
<1>6. CASE Fill
  <2> DEFINE top == Head(pending)
             v   == Lesser(order.volume, top.volume)
             rest == [top EXCEPT !.volume = @ - v]
  <2>1. /\ pc = "fill" /\ pc' = pc /\ pending # <<>> /\ pending' = Tail(pending)
        /\ order' = [order EXCEPT !.volume = @ - v]
        /\ heap' = IF top.volume = v THEN heap ELSE WithOrder(heap, rest)
    BY <1>6 DEF Fill
  <2>2. /\ top \in Order /\ top = pending[1]
        /\ \A i \in DOMAIN pending' : i + 1 \in DOMAIN pending /\ pending'[i] = pending[i + 1]
    BY <1>a, <2>1, TailOfPending
  <2>3. v \in Nat /\ v <= order.volume
    BY <1>a, <2>2, LesserVolume
  <2>4. order'.direction = order.direction /\ order'.volume = order.volume - v
    BY <1>a, <2>1, <2>3, LeftOver
  <2>5. CASE order'.volume > 0
    <3>1. order.volume > 0 /\ v = top.volume
      BY <1>a, <2>2, <2>3, <2>4, <2>5, OrderFields DEF Lesser
    <3>2. heap' = heap
      BY <2>1, <3>1
    <3> HIDE DEF top, v, rest
    <3>3. \A i \in DOMAIN pending' : i \in Nat
      BY <1>a, <2>1, TailOfPending
    <3>4. ASSUME NEW i \in DOMAIN pending'
          PROVE  /\ \A j \in DOMAIN pending' :
                      i < j => ~Before(pending'[i].direction, pending'[j], pending'[i])
                 /\ \A o \in heap'[Opposite(order'.direction)] :
                      ~Before(pending'[i].direction, o, pending'[i])
      <4>1. i + 1 \in DOMAIN pending /\ pending'[i] = pending[i + 1]
        BY <2>2
      <4>2. ASSUME NEW j \in DOMAIN pending', i < j
            PROVE  ~Before(pending'[i].direction, pending'[j], pending'[i])
        <5>1. j + 1 \in DOMAIN pending /\ pending'[j] = pending[j + 1] /\ i + 1 < j + 1
          BY <2>2, <3>3, <4>2
        <5>2. QED BY <4>1, <5>1, <2>1, <3>1 DEF PendingSorted
      <4>3. ASSUME NEW o \in heap'[Opposite(order'.direction)]
            PROVE  ~Before(pending'[i].direction, o, pending'[i])
        BY <4>1, <4>3, <2>1, <2>4, <3>1, <3>2 DEF PendingSorted
      <4>4. QED BY <4>2, <4>3
    <3>5. QED BY <3>4 DEF PendingSorted
  <2>6. QED BY <2>5 DEF PendingSorted
<1>7. CASE Cancel
  <2>1. pc' = "cancel"
    BY <1>7 DEF Cancel
  <2>2. QED BY <2>1, <1>b
<1>8. CASE AllOrNothingDone
  <2>1. pc' = "idle"
    BY <1>8 DEF AllOrNothingDone, Return
  <2>2. QED BY <2>1, <1>b
<1>9. CASE Terminated \/ UNCHANGED vars
  <2>1. UNCHANGED <<heap, order, pending, pc>>
    BY <1>9 DEF Terminated, vars, aon
  <2>2. QED BY <2>1 DEF PendingSorted
<1>10. QED
  BY <1>2, <1>3, <1>4, <1>5, <1>6, <1>7, <1>8, <1>9 DEF Next, Environment, Engine

-----------------------------------------------------------------------------
(* What a step does to the orders at rest, in the heap or in the queue.    *)

\* An order taken from the book is the only one that may leave it.
LEMMA TakenLeaves ==
  ASSUME NEW h \in Book, NEW o \in Order, NEW v \in Nat, NEW direction \in Directions
  PROVE  /\ h[direction] \ {o} \subseteq Taken(h, o, v)[direction]
         /\ direction # o.direction => Taken(h, o, v)[direction] = h[direction]
BY OrderFields DEF Taken, Book

LEMMA WithOrderAtLeast ==
  ASSUME NEW h \in Book, NEW o \in Order, NEW direction \in Directions
  PROVE  h[direction] \subseteq WithOrder(h, o)[direction]
<1>1. CASE direction = o.direction
  BY <1>1, WithOrderFrom
<1>2. CASE direction # o.direction
  BY <1>2, WithOrderFrom
<1>3. QED BY <1>1, <1>2

\* What the priority of an order means for a top of the heap.
LEMMA TopHasPriority ==
  ASSUME heap \in Book, NEW direction \in Directions, NEW top \in Tops(direction),
         NEW p \in heap[direction]
  PROVE  ~HasPriority(p, top)
<1>1. top \in Order /\ top.direction = direction /\ p \in Order
  BY TopsType DEF Book
<1>2. QED BY <1>1, PriorityPrecedes DEF Tops

\* Outside AllOrNothing the orders at rest are those of the heap.
LEMMA RestingIsHeap ==
  ASSUME pending = <<>>, NEW direction \in Directions
  PROVE  Resting(direction) = heap[direction]
BY DEF Resting, Collected

\* Collecting an order moves it, and giving up moves it back.
LEMMA CollectRests ==
  ASSUME TypeInv, Collect, NEW direction \in Directions
  PROVE  Resting(direction)' = Resting(direction)
<1>a. heap \in Book /\ pending \in Seq(Order) /\ Opposite(order.direction) \in Directions
  BY OrderFields DEF TypeInv, TypeOK
<1>1. PICK top \in Tops(Opposite(order.direction)) :
        /\ heap' = [heap EXCEPT ![top.direction] = @ \ {top}]
        /\ pending' = Append(pending, top)
  BY DEF Collect
<1>2. top \in Order /\ top \in heap[top.direction] /\ top.direction \in Directions
  BY <1>a, TopsType
<1>3. Collected' = Collected \cup {top}
  <2>1. /\ DOMAIN pending' = DOMAIN pending \cup {Len(pending) + 1}
        /\ pending'[Len(pending) + 1] = top
        /\ \A i \in DOMAIN pending : pending'[i] = pending[i]
    BY <1>a, <1>1, <1>2
  <2>2. QED BY <2>1 DEF Collected
<1>4. heap'[direction] = IF direction = top.direction THEN heap[direction] \ {top}
                                                      ELSE heap[direction]
  BY <1>a, <1>1, <1>2 DEF Book
<1>5. QED BY <1>2, <1>3, <1>4 DEF Resting

\* The queue without its head and the orders the head becomes.
LEMMA QueueSplit ==
  ASSUME TypeInv, pending # <<>>, pending' = Tail(pending)
  PROVE  Collected = Collected' \cup {Head(pending)}
<1>1. pending \in Seq(Order)
  BY DEF TypeInv, TypeOK
<1>2. /\ 1 \in DOMAIN pending /\ Head(pending) = pending[1]
      /\ \A i \in DOMAIN pending' : i + 1 \in DOMAIN pending /\ pending'[i] = pending[i + 1]
      /\ \A i \in DOMAIN pending : i = 1 \/ i - 1 \in DOMAIN pending'
      /\ \A i \in DOMAIN pending : i \in Nat
  BY <1>1
<1>3. \A i \in DOMAIN pending : i # 1 => pending[i] = pending'[i - 1]
  BY <1>2
<1>4. QED BY <1>2, <1>3 DEF Collected

LEMMA CancelRests ==
  ASSUME TypeInv, Cancel, NEW direction \in Directions
  PROVE  Resting(direction)' = Resting(direction)
<1>a. heap \in Book /\ pending \in Seq(Order)
  BY DEF TypeInv, TypeOK
<1>1. heap' = WithOrder(heap, Head(pending)) /\ pending # <<>> /\ pending' = Tail(pending)
  BY DEF Cancel
<1>2. Head(pending) \in Order
  BY <1>a, <1>1, TailOfPending
<1>3. heap'[direction] = IF direction = Head(pending).direction
                           THEN heap[direction] \cup {Head(pending)} ELSE heap[direction]
  BY <1>a, <1>1, <1>2, WithOrderFrom
<1>4. QED BY <1>1, <1>3, QueueSplit DEF Resting

\* The orders of the queue are at rest on the side the order in hand takes from.
LEMMA FillPriority ==
  ASSUME TypeInv, PendingSorted, Fill, NEW direction \in Directions,
         NEW o \in Resting(direction), o \notin Resting(direction)',
         NEW p \in Resting(direction), p \in Resting(direction)'
  PROVE  ~HasPriority(p, o)
<1> DEFINE top == Head(pending)
           v   == Lesser(order.volume, top.volume)
           rest == [top EXCEPT !.volume = @ - v]
<1>a. /\ heap \in Book /\ order \in Order /\ pending \in Seq(Order)
      /\ \A i \in DOMAIN pending :
           pending[i].volume > 0 /\ pending[i].direction = Opposite(order.direction)
  BY DEF TypeInv, TypeOK
<1>1. /\ pc = "fill" /\ pending # <<>> /\ pending' = Tail(pending)
      /\ heap' = IF top.volume = v THEN heap ELSE WithOrder(heap, rest)
  BY DEF Fill
<1>2. /\ top \in Order /\ top = pending[1] /\ 1 \in DOMAIN pending
      /\ top.volume > 0 /\ top.direction = Opposite(order.direction)
  BY <1>a, <1>1, TailOfPending
<1>3. v \in Nat /\ v <= top.volume
  BY <1>a, <1>2, LesserVolume
<1>4. rest \in Order /\ rest.direction = top.direction
  BY <1>2, <1>3, LeftOver
<1>5. heap[direction] \subseteq heap'[direction]
  <2> HIDE DEF rest, v, top
  <2>1. CASE heap' = heap
    BY <2>1
  <2>2. CASE heap' = WithOrder(heap, rest)
    BY <2>2, <1>a, <1>4, WithOrderAtLeast
  <2>3. QED BY <1>1, <2>1, <2>2
<1>6. o = top /\ direction = top.direction
  BY <1>1, <1>5, QueueSplit DEF Resting
\* To take nothing from it is to put it back as it was.
<1>7. order.volume > 0
  <2> SUFFICES ASSUME order.volume = 0 PROVE FALSE
    BY <1>a, OrderFields
  <2>1. v = 0 /\ top.volume # v
    BY <1>2, OrderFields DEF Lesser
  <2>2. rest = top
    BY <2>1, <1>2 DEF Order
  <2> HIDE DEF rest, v, top
  <2>3. heap'[direction] = heap[direction] \cup {top}
    BY <2>1, <2>2, <1>a, <1>1, <1>4, <1>6, WithOrderFrom
  <2>4. QED BY <2>3, <1>6 DEF Resting
<1>8. p # top
  BY <1>6
<1>9. ~Before(direction, p, top)
  <2>1. CASE p \in heap[direction]
    BY <2>1, <1>1, <1>2, <1>6, <1>7 DEF PendingSorted
  <2>2. CASE p \in Collected
    <3>1. PICK i \in DOMAIN pending : p = pending[i]
      BY <2>2 DEF Collected
    <3>2. 1 < i
      BY <3>1, <1>a, <1>2, <1>8
    <3>3. QED BY <3>1, <3>2, <1>1, <1>2, <1>6, <1>7 DEF PendingSorted
  <2>3. QED BY <2>1, <2>2 DEF Resting
<1>10. p \in Order
  BY <1>a DEF Resting, Collected, Book
<1>11. QED BY <1>2, <1>6, <1>9, <1>10, PriorityPrecedes

LEMMA StepPriority ==
  ASSUME TypeInv, PendingSorted, [Next]_vars, NEW direction \in Directions,
         NEW o \in Resting(direction), o \notin Resting(direction)',
         NEW p \in Resting(direction), p \in Resting(direction)'
  PROVE  ~HasPriority(p, o)
<1>a. /\ heap \in Book /\ order \in Order /\ pending \in Seq(Order)
      /\ order.direction \in Directions /\ Opposite(order.direction) \in Directions
      /\ PendingOnlyInAon
  BY OrderFields DEF TypeInv, TypeOK
\* Steps that take no order from those at rest.
<1>1. ~(UNCHANGED <<heap, pending>>)
  BY DEF Resting, Collected
<1>2. ~(InsertAlpha \/ InsertOrderLog \/ OnComplete \/ CloseDone \/ Terminated \/ UNCHANGED vars)
  BY <1>1 DEF InsertAlpha, InsertOrderLog, OnComplete, CloseDone, Terminated, vars, aon
<1>3. /\ ~(MatchDone \/ StartSweep \/ SweepDone)
      /\ ~(StartAllOrNothing \/ CollectDone \/ AllOrNothingDone)
  BY <1>1 DEF MatchDone, StartSweep, SweepDone, StartAllOrNothing, CollectDone,
              AllOrNothingDone, aon
<1>4. ~Collect /\ ~Cancel
  BY CollectRests, CancelRests
<1>5. ~(heap[direction] \subseteq heap'[direction] /\ pending' = pending)
  BY DEF Resting, Collected
<1>6. ASSUME NEW q \in Order, heap' = heap \/ heap' = WithOrder(heap, q), pending' = pending
      PROVE  FALSE
  <2>1. heap[direction] \subseteq heap'[direction]
    BY <1>a, <1>6, WithOrderAtLeast
  <2>2. QED BY <2>1, <1>6, <1>5
<1>7. ~PlacePriceLimit
  <2> SUFFICES ASSUME PlacePriceLimit PROVE FALSE
    OBVIOUS
  <2>1. pending' = pending
    BY DEF PlacePriceLimit, ThenMatch, aon
  <2>2. PICK basePrice \in BasePrice(order.direction) :
          \/ heap' = heap
          \/ heap' = WithOrder(heap, [order EXCEPT !.price = basePrice + order.price])
    BY DEF PlacePriceLimit
  <2>3. basePrice + order.price \in Int
    BY <1>a, BasePriceType, OrderFields DEF TypeInv, TypeOK
  <2>4. [order EXCEPT !.price = basePrice + order.price] \in Order
    BY <1>a, <2>3, Repriced
  <2>5. QED BY <2>1, <2>2, <2>4, <1>6
<1>8. ~PlaceAtBest
  <2> SUFFICES ASSUME PlaceAtBest PROVE FALSE
    OBVIOUS
  <2> DEFINE side == IF order.type = OurBestPrice THEN order.direction
                                                  ELSE Opposite(order.direction)
  <2>1. pending' = pending
    BY DEF PlaceAtBest, ThenMatch, aon
  <2>2. \/ heap' = heap
        \/ \E top \in Tops(side) : heap' = WithOrder(heap, [order EXCEPT !.price = top.price])
    BY DEF PlaceAtBest
  <2>3. ASSUME NEW top \in Tops(side) PROVE [order EXCEPT !.price = top.price] \in Order
    BY <1>a, TopsType, OrderFields, Repriced
  <2> HIDE DEF side
  <2>4. QED BY <1>a, <2>1, <2>2, <2>3, <1>6
<1>9. ~ProcessTwapOrder
  <2> SUFFICES ASSUME ProcessTwapOrder PROVE FALSE
    OBVIOUS
  <2>1. pending' = pending /\ twapOrders[twapHead + 1] \in Order
    BY DEF ProcessTwapOrder, TwapDue, aon, TypeInv, TypeOK
  <2>2. PICK basePrice \in BasePrice(twapOrders[twapHead + 1].direction) :
          LET slice == [twapOrders[twapHead + 1] EXCEPT !.price = basePrice]
          IN  heap' = IF slice.volume = 0 THEN heap ELSE WithOrder(heap, slice)
    BY DEF ProcessTwapOrder
  <2>3. basePrice \in Int
    BY <1>a, <2>1, BasePriceType, OrderFields DEF TypeInv, TypeOK
  <2>4. [twapOrders[twapHead + 1] EXCEPT !.price = basePrice] \in Order
    BY <2>1, <2>3, Repriced
  <2>5. QED BY <2>1, <2>2, <2>4, <1>6
\* Trades take the tops of the heaps.
<1>10. CASE MatchTrade
  <2>1. PICK sale \in Tops(Sale), buy \in Tops(Buy) :
          heap' = Taken(Taken(heap, sale, TradeVolume(sale, buy)), buy, TradeVolume(sale, buy))
    BY <1>10 DEF MatchTrade
  <2> DEFINE v == TradeVolume(sale, buy)
  <2>2. /\ sale \in Order /\ sale.direction = Sale
        /\ buy \in Order /\ buy.direction = Buy
    BY <1>a, TopsType DEF Directions
  <2>3. v \in Nat /\ v <= sale.volume
    BY <2>2, LesserVolume DEF TradeVolume
  <2>4. Taken(heap, sale, v) \in Book
    BY <1>a, <2>2, <2>3, TakenType
  <2>5. Resting(direction) = heap[direction] /\ Resting(direction)' = heap'[direction]
    <3>1. pending = <<>> /\ pending' = <<>>
      BY <1>a, <1>10 DEF MatchTrade, PendingOnlyInAon, aon
    <3>2. QED BY <3>1 DEF Resting, Collected
  <2> HIDE DEF v
  <2>6. /\ heap[direction] \ {sale} \subseteq Taken(heap, sale, v)[direction]
        /\ direction # Sale => Taken(heap, sale, v)[direction] = heap[direction]
    BY <1>a, <2>2, <2>3, TakenLeaves
  <2>7. /\ Taken(heap, sale, v)[direction] \ {buy} \subseteq heap'[direction]
        /\ direction # Buy => heap'[direction] = Taken(heap, sale, v)[direction]
    BY <2>1, <2>2, <2>3, <2>4, TakenLeaves DEF v
  <2>8. \/ o = sale /\ direction = Sale
        \/ o = buy /\ direction = Buy
    BY <2>5, <2>6, <2>7 DEF Directions
  <2>9. QED BY <1>a, <2>5, <2>8, TopHasPriority
<1>11. CASE SweepTrade
  <2>1. PICK top \in Tops(Opposite(order.direction)) :
          heap' = Taken(heap, top, Lesser(order.volume, top.volume))
    BY <1>11 DEF SweepTrade
  <2>2. top \in Order /\ top.direction = Opposite(order.direction)
    BY <1>a, TopsType
  <2>3. Lesser(order.volume, top.volume) \in Nat
    BY <1>a, <2>2, LesserVolume
  <2>4. Resting(direction) = heap[direction] /\ Resting(direction)' = heap'[direction]
    <3>1. pending = <<>> /\ pending' = <<>>
      BY <1>a, <1>11 DEF SweepTrade, PendingOnlyInAon, aon
    <3>2. QED BY <3>1 DEF Resting, Collected
  <2>5. o = top /\ direction = top.direction
    BY <1>a, <2>1, <2>2, <2>3, <2>4, TakenLeaves
  <2>6. QED BY <1>a, <2>2, <2>4, <2>5, TopHasPriority
<1>12. CASE Fill
  BY <1>12, FillPriority
<1>13. QED
  BY <1>2, <1>3, <1>4, <1>7, <1>8, <1>9, <1>10, <1>11, <1>12 DEF Next, Environment, Engine

\* Price-time priority, with our own orders last among equals (common.h:125):
\* no order trades while one of its side that has priority over it stays
\* untouched, on any path: the matching loop (contract_engine.cpp:288), the sweeps
\* (:125, :151) and the queue of AllOrNothing (:170).
THEOREM PriorityKept == Spec => PriorityRespected
<1>1. ASSUME TypeInv, PendingSorted, [Next]_vars
      PROVE  [\A direction \in Directions :
                \A o \in Resting(direction) \ Resting(direction)' :
                  \A p \in Resting(direction) \cap Resting(direction)' : ~HasPriority(p, o)]_vars
  BY <1>1, StepPriority
<1>2. QED BY TypeCorrectStrong, SortedInit, SortedStep, <1>1, PTL DEF Spec, PriorityRespected

-----------------------------------------------------------------------------
(* An AllOrNothing order that cannot be filled.                            *)

\* Only these four steps start in the two phases.
LEMMA LookingSteps ==
  ASSUME [Next]_vars, pc \in {"collect", "cancel"}
  PROVE  \/ Collect \/ CollectDone \/ Cancel \/ AllOrNothingDone
         \/ UNCHANGED vars
<1>1. ~(InsertAlpha \/ InsertOrderLog \/ OnComplete)
  BY DEF InsertAlpha, InsertOrderLog, OnComplete
<1>2. ~(ProcessTwapOrder \/ CloseDone \/ PlacePriceLimit \/ PlaceAtBest)
  BY DEF ProcessTwapOrder, CloseDone, PlacePriceLimit, PlaceAtBest, Placing
<1>3. ~(MatchTrade \/ MatchDone \/ StartSweep \/ SweepTrade \/ SweepDone)
  BY DEF MatchTrade, MatchDone, StartSweep, SweepTrade, SweepDone, Placing
<1>4. ~(StartAllOrNothing \/ Fill)
  BY DEF StartAllOrNothing, Fill, Placing
<1>5. QED BY <1>1, <1>2, <1>3, <1>4 DEF Next, Environment, Engine, Terminated

\* Looking for volume and giving up (contract_engine.cpp:168-195) leave the resting
\* orders, each with its volume, and the money as they were.
THEOREM CancelledWithoutTrace == Spec => NothingOnCancel
<1>1. ASSUME TypeInv, [Next]_vars, pc \in {"collect", "cancel"}
      PROVE  /\ \A direction \in Directions : Resting(direction)' = Resting(direction)
             /\ money' = money
  <2>1. CASE Collect
    BY <2>1, <1>1, CollectRests DEF Collect, money
  <2>2. CASE Cancel
    BY <2>2, <1>1, CancelRests DEF Cancel, money
  <2>3. CASE CollectDone \/ AllOrNothingDone \/ UNCHANGED vars
    <3>1. UNCHANGED <<heap, pending>> /\ money' = money
      BY <2>3 DEF CollectDone, AllOrNothingDone, vars, money, aon
    <3>2. QED BY <3>1 DEF Resting, Collected
  <2>4. QED BY <1>1, <2>1, <2>2, <2>3, LookingSteps
<1>2. TypeInv /\ [Next]_vars =>
        [\/ pc \notin {"collect", "cancel"}
         \/ /\ \A direction \in Directions : Resting(direction)' = Resting(direction)
            /\ money' = money]_vars
  BY <1>1
<1>3. QED BY TypeCorrectStrong, <1>2, PTL DEF Spec, NothingOnCancel

-----------------------------------------------------------------------------
(* An AllOrNothing order that can be filled.                               *)

\* t[i] is the volume in the queue from place i on.
Remaining(q, t) ==
  /\ t \in [1..Len(q) + 1 -> Nat] /\ t[Len(q) + 1] = 0
  /\ \A i \in 1..Len(q) : t[i] = t[i + 1] + q[i].volume

QueueCovers ==
  /\ pc = "collect" => \E t : Remaining(pending, t) /\ t[1] = volumeSum
  /\ pc = "fill"    => \E t : Remaining(pending, t) /\ t[1] >= order.volume

LEMMA RemainingAppend ==
  ASSUME NEW q \in Seq(Order), NEW t, Remaining(q, t), NEW o \in Order
  PROVE  \E u : Remaining(Append(q, o), u) /\ u[1] = t[1] + o.volume
<1> DEFINE n == Len(q)
           u == [i \in 1..n + 2 |-> IF i = n + 2 THEN 0 ELSE t[i] + o.volume]
<1>1. n \in Nat /\ Len(Append(q, o)) = n + 1 /\ o.volume \in Nat
  BY OrderFields
<1>2. t \in [1..n + 1 -> Nat] /\ t[n + 1] = 0 /\ \A i \in 1..n : t[i] = t[i + 1] + q[i].volume
  BY DEF Remaining
<1>a. \A i \in 1..n : q[i].volume \in Nat
  BY OrderFields
<1>3. \A i \in 1..n : Append(q, o)[i] = q[i]
  OBVIOUS
<1>4. Append(q, o)[n + 1] = o
  OBVIOUS
<1> HIDE DEF n
<1>5. u \in [1..n + 2 -> Nat] /\ u[n + 2] = 0 /\ u[n + 1] = u[n + 2] + o.volume
  BY <1>1, <1>2
<1>6. ASSUME NEW i \in 1..n PROVE u[i] = u[i + 1] + q[i].volume
  <2>1. /\ i + 1 \in 1..n + 1 /\ i \in 1..n + 2 /\ i + 1 \in 1..n + 2 /\ i # n + 2 /\ i + 1 # n + 2
    BY <1>1
  <2>2. u[i] = t[i] + o.volume /\ u[i + 1] = t[i + 1] + o.volume
    BY <2>1
  <2>3. t[i] = t[i + 1] + q[i].volume /\ t[i] \in Nat /\ t[i + 1] \in Nat
    BY <1>1, <1>2, <2>1
  <2>4. QED BY <1>1, <1>a, <2>2, <2>3
<1>7. u[1] = t[1] + o.volume
  BY <1>1
<1> HIDE DEF u
<1>8. Remaining(Append(q, o), u)
  BY <1>1, <1>3, <1>4, <1>5, <1>6 DEF Remaining
<1>9. QED BY <1>7, <1>8

LEMMA RemainingTail ==
  ASSUME NEW q \in Seq(Order), q # <<>>, NEW t, Remaining(q, t)
  PROVE  \E u : Remaining(Tail(q), u) /\ u[1] + Head(q).volume = t[1] /\ u[1] \in Nat
<1> DEFINE u == [i \in 1..Len(q) |-> t[i + 1]]
<1>1. /\ Len(q) \in Nat \ {0} /\ Len(Tail(q)) = Len(q) - 1 /\ Head(q) = q[1]
      /\ \A i \in 1..Len(q) - 1 : Tail(q)[i] = q[i + 1]
  OBVIOUS
<1>2. u \in [1..Len(q) -> Nat] /\ u[Len(q)] = 0
  BY <1>1 DEF Remaining
<1>3. \A i \in 1..Len(q) - 1 : u[i] = u[i + 1] + q[i + 1].volume
  BY <1>1 DEF Remaining
<1>4. u[1] + q[1].volume = t[1] /\ u[1] \in Nat
  BY <1>1 DEF Remaining
<1> HIDE DEF u
<1>5. Remaining(Tail(q), u)
  BY <1>1, <1>2, <1>3 DEF Remaining
<1>6. QED BY <1>1, <1>4, <1>5

LEMMA CoversInit == Init => QueueCovers
BY DEF Init, QueueCovers

LEMMA CoversStep == TypeInv /\ QueueCovers /\ [Next]_vars => QueueCovers'
<1> SUFFICES ASSUME TypeInv, QueueCovers, [Next]_vars PROVE QueueCovers'
  OBVIOUS
<1>a. /\ heap \in Book /\ order \in Order /\ pending \in Seq(Order) /\ volumeSum \in Nat
      /\ Opposite(order.direction) \in Directions /\ PendingOnlyInAon
  BY OrderFields DEF TypeInv, TypeOK
<1>b. ASSUME pc' \notin {"collect", "fill"} PROVE QueueCovers'
  BY <1>b DEF QueueCovers
<1>1. CASE InsertAlpha \/ InsertOrderLog \/ OnComplete \/ ProcessTwapOrder \/ CloseDone
  BY <1>1, <1>b DEF InsertAlpha, InsertOrderLog, OnComplete, ProcessTwapOrder, CloseDone
<1>2. CASE \/ PlacePriceLimit \/ PlaceAtBest \/ MatchTrade
           \/ StartSweep \/ SweepTrade \/ SweepDone
  BY <1>2, <1>b DEF PlacePriceLimit, PlaceAtBest, ThenMatch, MatchTrade, StartSweep,
                    SweepTrade, SweepDone, Return
<1>3. CASE MatchDone
  BY <1>3, <1>b DEF MatchDone, TypeInv, TypeOK
<1>4. CASE Cancel \/ AllOrNothingDone
  BY <1>4, <1>b DEF Cancel, AllOrNothingDone, Return
<1>5. CASE StartAllOrNothing
  <2>1. pc' = "collect" /\ volumeSum' = 0 /\ pending' = <<>>
    BY <1>5, <1>a DEF StartAllOrNothing, Placing, PendingOnlyInAon
  <2>2. Remaining(<<>>, [i \in 1..1 |-> 0])
    BY DEF Remaining
  <2>3. QED BY <2>1, <2>2 DEF QueueCovers
<1>6. CASE Collect
  <2>1. PICK top \in Tops(Opposite(order.direction)) :
          pending' = Append(pending, top) /\ volumeSum' = volumeSum + top.volume
    BY <1>6 DEF Collect
  <2>2. top \in Order
    BY <1>a, TopsType
  <2>3. PICK t : Remaining(pending, t) /\ t[1] = volumeSum
    BY <1>6 DEF Collect, QueueCovers
  <2>4. PICK u : Remaining(Append(pending, top), u) /\ u[1] = t[1] + top.volume
    BY <1>a, <2>2, <2>3, RemainingAppend
  <2>5. pc' = "collect"
    BY <1>6 DEF Collect
  <2>6. QED BY <2>1, <2>3, <2>4, <2>5 DEF QueueCovers
<1>7. CASE CollectDone
  <2>1. /\ UNCHANGED <<pending, order>>
        /\ pc = "collect"
        /\ (pc' = "fill" /\ volumeSum >= order.volume) \/ pc' = "cancel"
    BY <1>7 DEF CollectDone, aon
  <2>2. QED BY <2>1 DEF QueueCovers
<1>8. CASE Fill
  <2> DEFINE v == Lesser(order.volume, Head(pending).volume)
  <2>1. /\ pc = "fill" /\ pc' = pc /\ pending # <<>> /\ pending' = Tail(pending)
        /\ order' = [order EXCEPT !.volume = @ - v]
    BY <1>8 DEF Fill
  <2>2. PICK t : Remaining(pending, t) /\ t[1] >= order.volume
    BY <2>1 DEF QueueCovers
  <2>3. PICK u : Remaining(Tail(pending), u) /\ u[1] + Head(pending).volume = t[1]
                 /\ u[1] \in Nat
    BY <1>a, <2>1, <2>2, RemainingTail
  <2>4. Head(pending) \in Order
    BY <1>a, <2>1, TailOfPending
  <2>5. order'.volume = order.volume - v
    BY <1>a, <2>1, <2>4, LesserVolume, LeftOver
  <2>6. u[1] >= order'.volume
    BY <1>a, <2>2, <2>3, <2>4, <2>5, OrderFields DEF Lesser
  <2>7. QED BY <2>1, <2>3, <2>6 DEF QueueCovers
<1>9. CASE Terminated \/ UNCHANGED vars
  <2>1. UNCHANGED <<pc, pending, order, volumeSum>>
    BY <1>9 DEF Terminated, vars, aon
  <2>2. QED BY <2>1 DEF QueueCovers
<1>10. QED
  BY <1>1, <1>2, <1>3, <1>4, <1>5, <1>6, <1>7, <1>8, <1>9 DEF Next, Environment, Engine

\* An AllOrNothing order that trades at all trades in full
\* (contract_engine.cpp:175-188): the queue is not empty before the order is.
THEOREM FilledInFull == Spec => []AllOrNothingFilled
<1>1. TypeInv /\ QueueCovers => AllOrNothingFilled
  <2> SUFFICES ASSUME TypeInv, QueueCovers, pc = "fill", pending = <<>>
               PROVE  order.volume = 0
    BY DEF AllOrNothingFilled
  <2>1. PICK t : Remaining(<<>>, t) /\ t[1] >= order.volume
    BY DEF QueueCovers
  <2>2. t[1] = 0
    BY <2>1 DEF Remaining
  <2>3. order.volume \in Nat
    BY OrderFields DEF TypeInv, TypeOK
  <2>4. QED BY <2>1, <2>2, <2>3
<1>2. QED BY TypeCorrectStrong, CoversInit, CoversStep, <1>1, PTL DEF Spec

-----------------------------------------------------------------------------
(* Rule 3.3.13: no price leaves the daily limits, provided no two order    *)
(* logs of an instrument have the same timestamp.  Without the proviso the *)
(* rule is broken: a sale of a type without a price of its own, as early   *)
(* as the resting purchase it meets, trades at its price_off.              *)

InLimits(price) == price \in downLimit..upLimit

\* An order log is between its arrival and the end of its own execution.
InHand == \/ pc \in {"order", "sweep", "collect", "fill", "cancel"}
          \/ pc = "match" /\ resume = "order"

Idle == pc = "idle" \/ (pc = "match" /\ resume = "idle")

\* Everything at rest is older than the order in hand, which is the newest.
RestingOlder ==
  /\ InHand => /\ logs > 0 /\ order.timestamp = logTime
               /\ \A direction \in Directions : \A o \in heap[direction] :
                    o.timestamp < logTime
               /\ \A i \in DOMAIN pending : pending[i].timestamp < logTime
  /\ Idle => \A direction \in Directions : \A o \in heap[direction] :
               logs > 0 /\ o.timestamp <= logTime

PriceInv == PricesInLimits /\ RestingOlder

-----------------------------------------------------------------------------
(* The rules on prices.                                                    *)

LEMMA LimitsAroundClose ==
  /\ downLimit \in Nat /\ upLimit \in Nat /\ prevClosePrice \in downLimit..upLimit
<1>1. prevClosePrice \in Nat /\ prevClosePrice > 0
  BY SessionAssumption
<1>2. downLimit = (90 * prevClosePrice + 50) \div 100
  BY <1>1 DEF downLimit, Round2
<1>3. upLimit = (110 * prevClosePrice + 50) \div 100
  BY <1>1 DEF upLimit, Round2
<1>4. QED BY <1>1, <1>2, <1>3

\* Rounding to cents is monotone and leaves whole cents alone.
LEMMA Round2Monotone ==
  ASSUME NEW x \in Int, NEW y \in Int, x <= y
  PROVE  Round2(x) \in Int /\ Round2(x) <= Round2(y)
BY DEF Round2

LEMMA Round2Whole ==
  ASSUME NEW x \in Int
  PROVE  x >= 0 => Round2(100 * x) = x
BY DEF Round2

\* A limit order that passes the checks is within the daily limits.
LEMMA InBandInLimits ==
  ASSUME NEW direction \in Directions, NEW basePrice \in Int, NEW price \in Int,
         InBand(direction, basePrice, price)
  PROVE  InLimits(price)
<1>1. CASE direction = Buy
  <2> DEFINE bound == Lesser(Greater(102 * basePrice, 100 * basePrice + 1000), 100 * upLimit)
  <2>1. bound \in Int /\ 100 * upLimit \in Int /\ bound <= 100 * upLimit
    BY LimitsAroundClose DEF Lesser, Greater
  <2>2. price >= downLimit /\ price <= Round2(bound)
    BY <1>1 DEF InBand
  <2> HIDE DEF bound
  <2>3. Round2(bound) \in Int /\ Round2(bound) <= upLimit
    BY <2>1, LimitsAroundClose, Round2Monotone, Round2Whole
  <2>4. QED BY <2>2, <2>3, LimitsAroundClose DEF InLimits
<1>2. CASE direction = Sale
  <2> DEFINE bound == Greater(Lesser(98 * basePrice, 100 * basePrice - 1000), 100 * downLimit)
  <2>1. bound \in Int /\ 100 * downLimit \in Int /\ bound >= 100 * downLimit
    BY LimitsAroundClose DEF Lesser, Greater
  <2>2. price <= upLimit /\ price >= Round2(bound)
    BY <1>2 DEF InBand, Buy, Sale
  <2> HIDE DEF bound
  <2>3. Round2(bound) \in Int /\ Round2(bound) >= downLimit
    BY <2>1, LimitsAroundClose, Round2Monotone, Round2Whole
  <2>4. QED BY <2>2, <2>3, LimitsAroundClose DEF InLimits
<1>3. QED BY <1>1, <1>2 DEF Directions

\* The book keeps the limits if the trades do: what PricesInLimits says of it.
BookInLimits(h) == \A direction \in Directions : \A o \in h[direction] : InLimits(o.price)

LEMMA BasePriceInLimits ==
  ASSUME heap \in Book, BookInLimits(heap), InLimits(lastPrice),
         NEW direction \in Directions, NEW basePrice \in BasePrice(direction)
  PROVE  InLimits(basePrice)
BY TopsType DEF BasePrice, BookInLimits, Opposite, Directions

\* The price of the older order of a trade.
LEMMA TradePriceOlder ==
  ASSUME NEW sale \in Order, NEW buy \in Order, TradeOrder(sale, buy)
  PROVE  /\ lastPrice' \in {sale.price, buy.price}
         /\ sale.timestamp > buy.timestamp => lastPrice' = buy.price
         /\ sale.timestamp < buy.timestamp => lastPrice' = sale.price
BY OrderFields DEF TradeOrder, TradePrice

\* The order in hand trades at the prices of the book.
LEMMA ExecuteAtRestingPrice ==
  ASSUME order \in Order, NEW top \in Order, Execute(top),
         top.timestamp < order.timestamp
  PROVE  lastPrice' = top.price
<1>1. CASE order.direction = Sale
  BY <1>1, TradePriceOlder, OrderFields DEF Execute
<1>2. CASE order.direction # Sale
  BY <1>2, TradePriceOlder, OrderFields DEF Execute
<1>3. QED BY <1>1, <1>2

-----------------------------------------------------------------------------

LEMMA PriceInit == Init => PriceInv
<1> SUFFICES ASSUME Init PROVE PriceInv
  OBVIOUS
<1>1. lastPrice \in downLimit..upLimit
  BY LimitsAroundClose DEF Init
<1>2. QED
  BY <1>1 DEF Init, PriceInv, PricesInLimits, RestingOlder, InHand, Idle, Directions

LEMMA PriceStep ==
  ASSUME LogGap > 0
  PROVE  TypeInv /\ PriceInv /\ [Next]_vars => PriceInv'
<1> SUFFICES ASSUME TypeInv, PriceInv, [Next]_vars PROVE PriceInv'
  OBVIOUS
<1> DEFINE Waiting == \A i \in DOMAIN pending : InLimits(pending[i].price)
           Sent    == \A j \in 1..twapHead : InLimits(twapOrders[j].price)
           Older(h, limit) == \A direction \in Directions : \A o \in h[direction] :
                                o.timestamp < limit
           AtMost(h, limit) == \A direction \in Directions : \A o \in h[direction] :
                                 logs > 0 /\ o.timestamp <= limit
           PendingOlder == \A i \in DOMAIN pending : pending[i].timestamp < logTime
<1>a. /\ heap \in Book /\ order \in Order /\ pending \in Seq(Order)
      /\ order.direction \in Directions /\ Opposite(order.direction) \in Directions
      /\ lastPrice \in Int /\ logs \in Nat /\ logTime \in Int /\ PendingOnlyInAon /\ CallStack
      /\ twapOrders \in Seq(Order) /\ twapHead \in 0..Len(twapOrders)
  BY OrderFields DEF TypeInv, TypeOK
<1>b. InLimits(lastPrice) /\ BookInLimits(heap) /\ Waiting /\ Sent
  BY DEF PriceInv, PricesInLimits, InLimits, BookInLimits
<1>c. /\ InHand => logs > 0 /\ order.timestamp = logTime /\ Older(heap, logTime) /\ PendingOlder
      /\ Idle => AtMost(heap, logTime)
  BY DEF PriceInv, RestingOlder
<1>d. ASSUME InLimits(lastPrice)', BookInLimits(heap'), Waiting', Sent',
             InHand' => logs' > 0 /\ order'.timestamp = logTime' /\ Older(heap', logTime')
                        /\ PendingOlder',
             Idle' => AtMost(heap, logTime)'
      PROVE  PriceInv'
  BY <1>d DEF PriceInv, PricesInLimits, InLimits, BookInLimits, RestingOlder
<1>e. ASSUME UNCHANGED <<lastPrice, heap, pending, twap>>
      PROVE  InLimits(lastPrice)' /\ BookInLimits(heap') /\ Waiting' /\ Sent'
  BY <1>b, <1>e DEF InLimits, upLimit, downLimit, twap
<1>f. pending = <<>> => PendingOlder /\ Waiting
  OBVIOUS
<1> HIDE DEF Waiting, Sent, Older, AtMost, PendingOlder
<1>1. CASE InsertAlpha
  <2>1. /\ UNCHANGED <<lastPrice, heap, pending, twapHead, logs, logTime>>
        /\ pc = "idle" /\ pc' = "idle"
    BY <1>1 DEF InsertAlpha, money, aon
  <2>2. PICK timestamp \in AlphaTimes, target \in Targets :
          twapOrders' = IF target = targetVolume THEN twapOrders
                        ELSE twapOrders \o Slices(timestamp, target - targetVolume)
    BY <1>1 DEF InsertAlpha
  <2>3. Slices(timestamp, target - targetVolume) \in Seq(Order)
    BY SlicesType, DataAssumption DEF TypeInv, TypeOK
  <2>4. \A j \in 1..twapHead : twapOrders'[j] = twapOrders[j]
    BY <1>a, <2>2, <2>3
  <2>5. Sent'
    BY <1>b, <2>1, <2>4 DEF Sent, InLimits
  <2>6. QED
    BY <1>b, <1>c, <1>d, <2>1, <2>5
    DEF Waiting, InHand, Idle, AtMost, InLimits, upLimit, downLimit
<1>2. CASE InsertOrderLog
  <2>1. /\ UNCHANGED <<lastPrice, heap, pending, twap>>
        /\ pc = "idle" /\ pc' = "order" /\ logs' = logs + 1
    BY <1>2 DEF InsertOrderLog, money, aon
  <2>2. /\ order'.timestamp = logTime' /\ logTime' \in Int
        /\ logs > 0 => logTime' >= logTime + LogGap
    BY <1>2, DataAssumption DEF InsertOrderLog
  <2>3. LogGap \in Nat /\ resume = "idle" /\ pending = <<>>
    BY <1>a, <2>1, DataAssumption DEF PendingOnlyInAon, CallStack
  <2>4. AtMost(heap, logTime)
    BY <1>c, <2>1 DEF Idle
  <2>5. Older(heap', logTime')
    <3>1. ASSUME NEW direction \in Directions, NEW o \in heap[direction]
          PROVE  o.timestamp < logTime'
      <4>1. o.timestamp \in Int
        BY <1>a, OrderFields DEF Book
      <4>2. QED BY <1>a, <2>2, <2>3, <2>4, <3>1, <4>1 DEF AtMost
    <3>2. QED BY <2>1, <3>1 DEF Older
  <2>6. PendingOlder' /\ ~Idle'
    BY <2>1, <2>3 DEF PendingOlder, Idle
  <2>7. QED BY <1>a, <1>d, <1>e, <2>1, <2>2, <2>5, <2>6
<1>3. CASE OnComplete \/ CloseDone
  <2>1. UNCHANGED <<lastPrice, heap, pending, twap>> /\ pc' \in {"close", "done"}
    BY <1>3 DEF OnComplete, CloseDone, money, aon
  <2>2. ~InHand' /\ ~Idle'
    BY <2>1 DEF InHand, Idle
  <2>3. QED BY <1>d, <1>e, <2>1, <2>2
<1>4. CASE ProcessTwapOrder
  <2> DEFINE head == twapOrders[twapHead + 1]
  <2>1. /\ pc \in {"order", "close"} /\ twapHead < Len(twapOrders)
        /\ head.timestamp < CurrentTime
        /\ twapHead' = twapHead + 1 /\ pc' = "match" /\ resume' = pc
        /\ UNCHANGED <<lastPrice, order, pending, logs, logTime>>
    BY <1>4 DEF ProcessTwapOrder, TwapDue, money, aon, input
  <2>2. twapHead + 1 \in 1..Len(twapOrders) /\ head \in Order
    <3>1. twapHead + 1 \in 1..Len(twapOrders)
      BY <1>a, <2>1
    <3>2. QED BY <1>a, <3>1
  <2>3. PICK basePrice \in BasePrice(head.direction) :
          /\ twapOrders' = [twapOrders EXCEPT ![twapHead + 1] = [head EXCEPT !.price = basePrice]]
          /\ heap' = IF [head EXCEPT !.price = basePrice].volume = 0 THEN heap
                     ELSE WithOrder(heap, [head EXCEPT !.price = basePrice])
    BY <1>4 DEF ProcessTwapOrder
  <2>4. InLimits(basePrice) /\ basePrice \in Int
    BY <1>a, <1>b, <2>2, OrderFields, BasePriceInLimits, BasePriceType
  <2> DEFINE slice == [head EXCEPT !.price = basePrice]
  <2>5. /\ slice \in Order /\ slice.price = basePrice
        /\ slice.timestamp = head.timestamp /\ slice.direction \in Directions
    BY <2>2, <2>4, Repriced, OrderFields
  <2>6. /\ twapOrders' = [twapOrders EXCEPT ![twapHead + 1] = slice]
        /\ heap' = heap \/ heap' = WithOrder(heap, slice)
    BY <2>3
  <2> HIDE DEF slice
  <2>7. \A direction \in Directions : heap'[direction] \subseteq heap[direction] \cup {slice}
    BY <1>a, <2>5, <2>6, WithOrderAtMost
  <2>8. Sent'
    BY <1>a, <1>b, <2>1, <2>2, <2>4, <2>5, <2>6 DEF Sent, InLimits, upLimit, downLimit
  <2>9. BookInLimits(heap')
    BY <1>b, <2>4, <2>5, <2>7 DEF BookInLimits
  <2>10. InHand' => logs' > 0 /\ order'.timestamp = logTime' /\ Older(heap', logTime')
    <3>1. CASE pc = "order"
      <4>1. InHand /\ CurrentTime = order.timestamp
        BY <3>1 DEF InHand, CurrentTime
      <4>2. QED BY <1>c, <2>1, <2>5, <2>7, <4>1 DEF Older
    <3>2. CASE pc = "close"
      BY <2>1, <3>2 DEF InHand
    <3>3. QED BY <2>1, <3>1, <3>2
  <2>11. PendingOlder' /\ Waiting'
    BY <1>a, <2>1 DEF PendingOnlyInAon, PendingOlder, Waiting
  <2>12. ~Idle'
    BY <2>1 DEF Idle
  <2>13. InLimits(lastPrice)'
    BY <1>b, <2>1 DEF InLimits, upLimit, downLimit
  <2>14. QED BY <1>d, <2>8, <2>9, <2>10, <2>11, <2>12, <2>13
\* Placing an order of a resting type.
<1>5. ASSUME NEW price \in Int, InLimits(price), Placing(LogTypes), ThenMatch,
             heap' = heap \/ heap' = WithOrder(heap, [order EXCEPT !.price = price])
      PROVE  PriceInv'
  <2>1. /\ pc = "order" /\ pc' = "match" /\ resume' = "idle"
        /\ UNCHANGED <<lastPrice, pending, twap, logs, logTime>>
    BY <1>5 DEF Placing, ThenMatch, money, aon, input
  <2> DEFINE placed == [order EXCEPT !.price = price]
  <2>2. /\ placed \in Order /\ placed.price = price /\ placed.timestamp = order.timestamp
        /\ placed.direction \in Directions
    BY <1>a, <1>5, Repriced
  <2>3. heap' = heap \/ heap' = WithOrder(heap, placed)
    BY <1>5
  <2> HIDE DEF placed
  <2>4. \A direction \in Directions : heap'[direction] \subseteq heap[direction] \cup {placed}
    BY <1>a, <2>2, <2>3, WithOrderAtMost
  <2>5. BookInLimits(heap')
    BY <1>b, <1>5, <2>2, <2>4 DEF BookInLimits
  <2>6. AtMost(heap, logTime)'
    <3>1. InHand
      BY <2>1 DEF InHand
    <3>2. ASSUME NEW direction \in Directions, NEW o \in heap'[direction]
          PROVE  o.timestamp <= logTime
      <4>1. o \in heap[direction] => o.timestamp \in Int
        BY <1>a, OrderFields DEF Book
      <4>2. QED BY <1>a, <1>c, <2>2, <2>4, <3>1, <4>1 DEF Older
    <3>3. QED BY <1>c, <2>1, <3>1, <3>2 DEF AtMost
  <2>7. ~InHand'
    BY <2>1 DEF InHand
  <2>8. QED BY <1>b, <1>d, <2>1, <2>5, <2>6, <2>7
        DEF Waiting, Sent, twap, InLimits, upLimit, downLimit
<1>6. CASE PlacePriceLimit
  <2>1. PICK basePrice \in BasePrice(order.direction) :
          heap' = IF InBand(order.direction, basePrice, basePrice + order.price)
                    THEN WithOrder(heap, [order EXCEPT !.price = basePrice + order.price])
                    ELSE heap
    BY <1>6 DEF PlacePriceLimit
  <2>2. basePrice \in Int /\ order.price \in Int
    BY <1>a, BasePriceType, OrderFields
  <2>3. Placing(LogTypes) /\ ThenMatch
    BY <1>6 DEF PlacePriceLimit, Placing, LogTypes, PriceLimit, AllOrNothing
  <2>4. CASE InBand(order.direction, basePrice, basePrice + order.price)
    <3>1. InLimits(basePrice + order.price)
      BY <1>a, <2>2, <2>4, InBandInLimits
    <3>2. QED BY <1>5, <2>1, <2>2, <2>3, <2>4, <3>1
  <2>5. CASE ~InBand(order.direction, basePrice, basePrice + order.price)
    BY <1>a, <1>b, <1>5, <2>1, <2>3, <2>5
  <2>6. QED BY <2>4, <2>5
<1>7. CASE PlaceAtBest
  <2> DEFINE side == IF order.type = OurBestPrice THEN order.direction
                                                 ELSE Opposite(order.direction)
  <2>1. side \in Directions
    BY <1>a
  <2>2. Placing(LogTypes) /\ ThenMatch
    BY <1>7 DEF PlaceAtBest, Placing, LogTypes, PriceLimit, OppositeBestPrice, OurBestPrice,
                AllOrNothing
  <2>3. CASE heap' = heap
    BY <1>a, <1>b, <1>5, <2>2, <2>3
  <2>4. CASE heap[side] # {}
    <3>1. PICK top \in Tops(side) : heap' = WithOrder(heap, [order EXCEPT !.price = top.price])
      BY <1>7, <2>4 DEF PlaceAtBest
    <3>2. top.price \in Int /\ InLimits(top.price)
      BY <1>a, <1>b, <2>1, TopsType, OrderFields DEF BookInLimits
    <3>3. QED BY <1>5, <2>2, <3>1, <3>2
  <2>5. QED BY <1>7, <2>3, <2>4 DEF PlaceAtBest
<1>8. CASE MatchTrade
  <2>1. /\ UNCHANGED <<pc, resume, order, pending, twap, logs, logTime>> /\ pc = "match"
    BY <1>8 DEF MatchTrade, aon, input
  <2>2. PICK sale \in Tops(Sale), buy \in Tops(Buy) :
          /\ TradeOrder(sale, buy)
          /\ heap' = Taken(Taken(heap, sale, TradeVolume(sale, buy)), buy, TradeVolume(sale, buy))
    BY <1>8 DEF MatchTrade
  <2>3. /\ sale \in Order /\ sale \in heap[Sale]
        /\ buy \in Order /\ buy \in heap[Buy]
    BY <1>a, TopsType DEF Directions
  <2>4. InLimits(lastPrice)'
    BY <1>b, <2>2, <2>3, TradePriceOlder
    DEF BookInLimits, Directions, InLimits, upLimit, downLimit
  <2>5. ASSUME NEW direction \in Directions, NEW x \in heap'[direction]
        PROVE  \E y \in heap[direction] : y.price = x.price /\ y.timestamp = x.timestamp
    BY <1>a, <2>2, BothTakenFrom
  <2>6. BookInLimits(heap')
    BY <1>b, <2>5 DEF BookInLimits
  <2>7. InHand' => logs' > 0 /\ order'.timestamp = logTime' /\ Older(heap', logTime')
                   /\ PendingOlder'
    BY <1>c, <2>1, <2>5 DEF InHand, Older, PendingOlder
  <2>8. Idle' => AtMost(heap, logTime)'
    BY <1>c, <2>1, <2>5 DEF Idle, AtMost
  <2>9. QED BY <1>b, <1>d, <2>1, <2>4, <2>6, <2>7, <2>8
        DEF Waiting, Sent, twap, InLimits, upLimit, downLimit
<1>9. CASE MatchDone
  <2>1. /\ UNCHANGED <<lastPrice, heap, pending, twap, order, logs, logTime>>
        /\ pc = "match" /\ pc' = resume
    BY <1>9 DEF MatchDone, money, aon, input
  <2>2. resume \in {"idle", "order", "close"}
    BY DEF TypeInv, TypeOK
  <2>3. InHand' => InHand
    BY <2>1, <2>2 DEF InHand
  <2>4. Idle' => Idle
    BY <2>1, <2>2 DEF Idle
  <2>5. QED BY <1>c, <1>d, <1>e, <2>1, <2>3, <2>4 DEF Older, AtMost, PendingOlder
\* Steps of an executing order that leave book and queue alone.
<1>10. ASSUME UNCHANGED <<lastPrice, heap, pending, twap, order, logs, logTime>>,
              InHand, InHand', ~Idle'
       PROVE  PriceInv'
  BY <1>c, <1>d, <1>e, <1>10 DEF Older, PendingOlder
<1>11. CASE StartSweep \/ StartAllOrNothing \/ CollectDone
  <2>1. /\ UNCHANGED <<lastPrice, heap, pending, twap, order, logs, logTime>>
        /\ pc \in {"order", "collect"} /\ pc' \in {"sweep", "collect", "fill", "cancel"}
    BY <1>11 DEF StartSweep, StartAllOrNothing, CollectDone, Placing, money, aon, input
  <2>2. InHand /\ InHand' /\ ~Idle'
    BY <2>1 DEF InHand, Idle
  <2>3. QED BY <1>10, <2>1, <2>2
<1>12. CASE SweepTrade
  <2>1. /\ UNCHANGED <<pc, pending, twap, logs, logTime>> /\ pc = "sweep"
    BY <1>12 DEF SweepTrade, aon, input
  <2>2. PICK top \in Tops(Opposite(order.direction)) :
          /\ Execute(top)
          /\ order' = [order EXCEPT !.volume = @ - Lesser(order.volume, top.volume)]
          /\ heap' = Taken(heap, top, Lesser(order.volume, top.volume))
    BY <1>12 DEF SweepTrade
  <2>3. /\ top \in Order /\ top \in heap[top.direction]
        /\ top \in heap[Opposite(order.direction)]
    BY <1>a, TopsType
  <2>4. InHand /\ InHand' /\ ~Idle'
    BY <2>1 DEF InHand, Idle
  <2>5. top.timestamp < order.timestamp /\ InLimits(top.price)
    BY <1>a, <1>b, <1>c, <2>3, <2>4 DEF Older, BookInLimits
  <2>6. InLimits(lastPrice)'
    BY <1>a, <2>2, <2>3, <2>5, ExecuteAtRestingPrice DEF InLimits, upLimit, downLimit
  <2>7. ASSUME NEW direction \in Directions, NEW x \in heap'[direction]
        PROVE  \E y \in heap[direction] : y.price = x.price /\ y.timestamp = x.timestamp
    BY <1>a, <2>2, <2>3, LesserVolume, TakenFrom
  <2>8. BookInLimits(heap') /\ Older(heap', logTime')
    BY <1>b, <1>c, <2>1, <2>4, <2>7 DEF BookInLimits, Older
  <2>9. order'.timestamp = order.timestamp
    BY <1>a, <2>2, <2>3, LesserVolume, LeftOver
  <2>10. QED BY <1>b, <1>c, <1>d, <2>1, <2>4, <2>6, <2>8, <2>9
         DEF Waiting, Sent, PendingOlder, twap, InLimits, upLimit, downLimit
<1>13. CASE Collect
  <2>1. /\ UNCHANGED <<lastPrice, pc, order, twap, logs, logTime>> /\ pc = "collect"
    BY <1>13 DEF Collect, money, input
  <2>2. PICK top \in Tops(Opposite(order.direction)) :
          /\ heap' = [heap EXCEPT ![top.direction] = @ \ {top}]
          /\ pending' = Append(pending, top)
    BY <1>13 DEF Collect
  <2>3. top \in Order /\ top \in heap[Opposite(order.direction)]
    BY <1>a, TopsType
  <2>4. InHand /\ InHand' /\ ~Idle'
    BY <2>1 DEF InHand, Idle
  <2>5. top.timestamp < logTime /\ InLimits(top.price)
    BY <1>a, <1>b, <1>c, <2>3, <2>4 DEF Older, BookInLimits
  <2>6. \A direction \in Directions : heap'[direction] \subseteq heap[direction]
    BY <1>a, <2>2 DEF Book
  <2>7. BookInLimits(heap') /\ Older(heap', logTime')
    BY <1>b, <1>c, <2>1, <2>4, <2>6 DEF BookInLimits, Older
  <2>8. \A i \in DOMAIN pending' :
          pending'[i] = top \/ (i \in DOMAIN pending /\ pending'[i] = pending[i])
    BY <1>a, <2>2, <2>3
  <2>9. Waiting' /\ PendingOlder'
    BY <1>b, <1>c, <2>1, <2>4, <2>5, <2>8
    DEF Waiting, PendingOlder, InLimits, upLimit, downLimit
  <2>10. QED BY <1>b, <1>c, <1>d, <2>1, <2>4, <2>7, <2>9
         DEF Sent, twap, InLimits, upLimit, downLimit
\* An order leaves the queue, and goes back into the book in whole, in part or
\* not at all.
<1>14. ASSUME NEW o \in Order, pending # <<>>, o.price = Head(pending).price,
              o.timestamp = Head(pending).timestamp,
              heap' = heap \/ heap' = WithOrder(heap, o), pending' = Tail(pending),
              UNCHANGED <<pc, twap, logs, logTime>>, pc \in {"fill", "cancel"},
              order'.timestamp = order.timestamp, InLimits(lastPrice')
       PROVE  PriceInv'
  <2>1. /\ 1 \in DOMAIN pending /\ Head(pending) = pending[1]
        /\ \A i \in DOMAIN pending' : i + 1 \in DOMAIN pending /\ pending'[i] = pending[i + 1]
    BY <1>a, <1>14, TailOfPending
  <2>2. InHand /\ InHand' /\ ~Idle'
    BY <1>14 DEF InHand, Idle
  <2>3. InLimits(o.price) /\ o.timestamp < logTime
    BY <1>b, <1>c, <1>14, <2>1, <2>2 DEF Waiting, PendingOlder
  <2>4. \A direction \in Directions : heap'[direction] \subseteq heap[direction] \cup {o}
    BY <1>a, <1>14, WithOrderAtMost
  <2>5. BookInLimits(heap') /\ Older(heap', logTime')
    BY <1>b, <1>c, <1>14, <2>2, <2>3, <2>4 DEF BookInLimits, Older
  <2>6. Waiting' /\ PendingOlder'
    BY <1>b, <1>c, <1>14, <2>1, <2>2 DEF Waiting, PendingOlder, InLimits, upLimit, downLimit
  <2>7. QED BY <1>b, <1>c, <1>d, <1>14, <2>2, <2>5, <2>6
        DEF Sent, twap, InLimits, upLimit, downLimit
<1>15. CASE Fill
  <2> DEFINE top == Head(pending)
             v   == Lesser(order.volume, top.volume)
             rest == [top EXCEPT !.volume = @ - v]
  <2>1. /\ pending # <<>> /\ pending' = Tail(pending) /\ pc = "fill"
        /\ UNCHANGED <<pc, twap, logs, logTime>> /\ Execute(top)
        /\ order' = [order EXCEPT !.volume = @ - v]
        /\ heap' = IF top.volume = v THEN heap ELSE WithOrder(heap, rest)
    BY <1>15 DEF Fill, input
  <2>2. top \in Order /\ 1 \in DOMAIN pending /\ top = pending[1]
    BY <1>a, <2>1, TailOfPending
  <2>3. v \in Nat /\ v <= order.volume /\ v <= top.volume
    BY <1>a, <2>2, LesserVolume
  <2>4. rest \in Order /\ rest.price = top.price /\ rest.timestamp = top.timestamp
    BY <2>2, <2>3, LeftOver
  <2>5. order'.timestamp = order.timestamp
    BY <1>a, <2>1, <2>3, LeftOver
  <2>6. InLimits(top.price) /\ top.timestamp < order.timestamp
    BY <1>b, <1>c, <2>1, <2>2 DEF InHand, Waiting, PendingOlder
  <2>7. InLimits(lastPrice')
    BY <1>a, <2>1, <2>2, <2>6, ExecuteAtRestingPrice
  <2> HIDE DEF rest, v
  <2>8. QED BY <2>1, <2>4, <2>5, <2>7, <1>14
<1>16. CASE Cancel
  <2>1. /\ pending # <<>> /\ pending' = Tail(pending) /\ pc = "cancel"
        /\ UNCHANGED <<pc, twap, logs, logTime, order, lastPrice>>
        /\ heap' = WithOrder(heap, Head(pending))
    BY <1>16 DEF Cancel, input, money
  <2>2. Head(pending) \in Order
    BY <1>a, <2>1, TailOfPending
  <2>3. QED BY <1>b, <2>1, <2>2, <1>14
<1>17. CASE SweepDone \/ AllOrNothingDone
  <2>1. /\ UNCHANGED <<lastPrice, heap, pending, twap, logs, logTime>>
        /\ pc \in {"sweep", "fill", "cancel"} /\ pc' = "idle"
    BY <1>17 DEF SweepDone, AllOrNothingDone, Return, money, aon, input
  <2>2. InHand /\ ~InHand'
    BY <2>1 DEF InHand
  <2>3. AtMost(heap, logTime)'
    <3>1. \A direction \in Directions : \A o \in heap[direction] : o.timestamp \in Int
      BY <1>a, OrderFields DEF Book
    <3>2. QED BY <1>a, <1>c, <2>1, <2>2, <3>1 DEF Older, AtMost
  <2>4. QED BY <1>d, <1>e, <2>1, <2>2, <2>3
<1>18. CASE Terminated \/ UNCHANGED vars
  <2>1. UNCHANGED <<lastPrice, heap, pending, twap, pc, resume, order, logs, logTime>>
    BY <1>18 DEF Terminated, vars, money, aon, input
  <2>2. QED BY <1>c, <1>d, <1>e, <2>1 DEF InHand, Idle, Older, AtMost, PendingOlder
<1>19. QED
  BY <1>1, <1>2, <1>3, <1>4, <1>6, <1>7, <1>8, <1>9, <1>11, <1>12, <1>13, <1>15,
     <1>16, <1>17, <1>18
  DEF Next, Environment, Engine

\* Rule 3.3.13 (contract_engine.h:31) holds of every price of a trade, of a
\* resting order and of a TWAP slice sent to the book, if the order logs of the
\* instrument have different timestamps.
THEOREM WithinLimits ==
  ASSUME LogGap > 0
  PROVE  Spec => []PricesInLimits
<1>1. PriceInv => PricesInLimits
  BY DEF PriceInv
<1>2. TypeInv /\ PriceInv /\ [Next]_vars => PriceInv'
  BY PriceStep
<1>3. QED BY TypeCorrectStrong, PriceInit, <1>1, <1>2, PTL DEF Spec

-----------------------------------------------------------------------------
(* The prices of one order, from the best level outwards.  In processTrade *)
(* only one order of the book can cross the other side: the one that was   *)
(* placed last, which trades until it crosses no more.                     *)

\* Price p is at least as good as q for an order of this direction.
AsGood(direction, p, q) == IF direction = Sale THEN p >= q ELSE p <= q

Crosses(x, o) == AsGood(x.direction, o.price, x.price)

Worsening(direction, prices) ==
  \A i, j \in 1..Len(prices) : i < j => AsGood(direction, prices[i], prices[j])

\* No price of these is worse than that of an order of the set.
BeforeAll(direction, prices, orders) ==
  \A i \in 1..Len(prices) : \A o \in orders : AsGood(direction, prices[i], o.price)

\* x is the order placed last.  A slice has the best price of the other side and
\* meets nothing else there; an order log is younger than all that it meets.
Incoming(x) ==
  LET other == heap[Opposite(x.direction)]
  IN  /\ \A p \in heap[x.direction] \ {x} : \A o \in other : ~Crosses(p, o)
      /\ \A o \in other : Crosses(x, o) =>
           o.price = x.price \/ (resume = "idle" /\ o.timestamp < x.timestamp)
      /\ Worsening(x.direction, tape) /\ BeforeAll(x.direction, tape, other)
      /\ resume # "idle" => \A i \in 1..Len(tape) : tape[i] = x.price

Queue == [i \in 1..Len(pending) |-> pending[i].price]

WorsenInv ==
  /\ pc \notin {"match", "sweep", "fill"} => tape = <<>>
  /\ pc = "match" => \E x \in Order : Incoming(x)
  /\ pc = "sweep" => /\ Worsening(order.direction, tape)
                     /\ BeforeAll(order.direction, tape, heap[Opposite(order.direction)])
  /\ pc = "collect" => /\ Worsening(order.direction, Queue)
                       /\ BeforeAll(order.direction, Queue, heap[Opposite(order.direction)])
  /\ pc = "fill" => /\ Worsening(order.direction, Queue)
                    /\ Worsening(order.direction, tape)
                    /\ BeforeAll(order.direction, tape, {pending[i] : i \in 1..Len(pending)})

LEMMA NothingWorsens ==
  ASSUME NEW direction, NEW orders
  PROVE  Worsening(direction, <<>>) /\ BeforeAll(direction, <<>>, orders)
<1>1. 1..Len(<<>>) = {}
  OBVIOUS
<1>2. QED BY <1>1 DEF Worsening, BeforeAll

\* One more price.
LEMMA WorseningAppend ==
  ASSUME NEW direction, NEW prices \in Seq(Int), NEW price \in Int,
         Worsening(direction, prices),
         \A i \in 1..Len(prices) : AsGood(direction, prices[i], price)
  PROVE  Worsening(direction, Append(prices, price))
<1> DEFINE longer == Append(prices, price)
<1>1. /\ Len(longer) = Len(prices) + 1 /\ longer[Len(prices) + 1] = price
      /\ \A i \in 1..Len(prices) : longer[i] = prices[i]
  OBVIOUS
<1>2. Len(prices) \in Nat
  OBVIOUS
<1> HIDE DEF longer
<1> SUFFICES ASSUME NEW i \in 1..Len(longer), NEW j \in 1..Len(longer), i < j
             PROVE  AsGood(direction, longer[i], longer[j])
  BY DEF Worsening, longer
<1>3. i \in 1..Len(prices)
  BY <1>1, <1>2
<1>4. CASE j = Len(prices) + 1
  BY <1>1, <1>3, <1>4
<1>5. CASE j \in 1..Len(prices)
  BY <1>1, <1>3, <1>5 DEF Worsening
<1>6. QED BY <1>1, <1>2, <1>4, <1>5

LEMMA BeforeAllAppend ==
  ASSUME NEW direction, NEW prices \in Seq(Int), NEW price \in Int, NEW orders, NEW more,
         BeforeAll(direction, prices, orders),
         \A o \in more : \E p \in orders : p.price = o.price,
         \A o \in more : AsGood(direction, price, o.price)
  PROVE  BeforeAll(direction, Append(prices, price), more)
<1> DEFINE longer == Append(prices, price)
<1>1. /\ Len(longer) = Len(prices) + 1 /\ longer[Len(prices) + 1] = price
      /\ \A i \in 1..Len(prices) : longer[i] = prices[i]
  OBVIOUS
<1>2. Len(prices) \in Nat
  OBVIOUS
<1> HIDE DEF longer
<1> SUFFICES ASSUME NEW i \in 1..Len(longer), NEW o \in more
             PROVE  AsGood(direction, longer[i], o.price)
  BY DEF BeforeAll, longer
<1>3. CASE i \in 1..Len(prices)
  BY <1>1, <1>3 DEF BeforeAll
<1>4. CASE i = Len(prices) + 1
  BY <1>1, <1>4
<1>5. QED BY <1>1, <1>2, <1>3, <1>4

\* A top is as good for an order of the other side as any order of its side.
LEMMA TopsAsGood ==
  ASSUME heap \in Book, NEW direction \in Directions,
         NEW top \in Tops(Opposite(direction)), NEW o \in heap[Opposite(direction)]
  PROVE  AsGood(direction, top.price, o.price)
<1>1. Opposite(direction) \in Directions /\ (Opposite(direction) = Sale <=> direction # Sale)
  BY DEF Opposite, Directions, Sale, Buy
<1>2. top.price \in Int /\ o.price \in Int
  BY <1>1, TopsType, OrderFields DEF Book
<1>3. QED BY <1>1, <1>2, TopsBest DEF AsGood

\* A slice crosses nothing but orders at its own price.
LEMMA SliceMeets ==
  ASSUME heap \in Book, lastPrice \in Int, NEW direction \in Directions,
         NEW basePrice \in BasePrice(direction), NEW o \in heap[Opposite(direction)],
         AsGood(direction, o.price, basePrice)
  PROVE  o.price = basePrice
<1>1. PICK top \in Tops(Opposite(direction)) : basePrice = top.price
  BY DEF BasePrice
<1>2. AsGood(direction, basePrice, o.price)
  BY <1>1, TopsAsGood
<1>3. basePrice \in Int /\ o.price \in Int
  BY BasePriceType, OrderFields DEF Book, Opposite, Directions
<1>4. QED BY <1>2, <1>3 DEF AsGood

\* What a trade appends.
LEMMA TapeGrows ==
  ASSUME NEW sale, NEW buy, TradeOrder(sale, buy)
  PROVE  tape' = Append(tape, lastPrice')
BY DEF TradeOrder

LEMMA ExecuteGrows ==
  ASSUME NEW top, Execute(top)
  PROVE  tape' = Append(tape, lastPrice')
BY TapeGrows DEF Execute

\* What is taken from an order is taken from its side.
LEMMA TakenSide ==
  ASSUME NEW h \in Book, NEW o \in Order, NEW v, NEW direction \in Directions
  PROVE  /\ direction = o.direction => Taken(h, o, v)[direction] \subseteq
              (h[direction] \ {o}) \cup {[o EXCEPT !.volume = @ - v]}
         /\ direction # o.direction => Taken(h, o, v)[direction] = h[direction]
BY OrderFields DEF Taken, Book

\* The order in the book before processTrade is called, with the one placed.
LEMMA MatchStarts ==
  ASSUME heap \in Book, Uncrossed(heap), tape = <<>>, tape' = tape,
         NEW x \in Order, heap' = heap \/ heap' = WithOrder(heap, x),
         \A o \in heap[Opposite(x.direction)] : Crosses(x, o) =>
           o.price = x.price \/ (resume' = "idle" /\ o.timestamp < x.timestamp)
  PROVE  Incoming(x)'
<1>1. /\ x.direction \in Directions /\ Opposite(x.direction) \in Directions
      /\ x.direction # Opposite(x.direction)
  BY OrderFields DEF Opposite, Directions, Sale, Buy
<1>2. /\ heap'[x.direction] \ {x} \subseteq heap[x.direction]
      /\ heap'[Opposite(x.direction)] = heap[Opposite(x.direction)]
  <2>1. WithOrder(heap, x)[x.direction] = heap[x.direction] \cup {x}
    BY <1>1, WithOrderFrom
  <2>a. WithOrder(heap, x)[Opposite(x.direction)] = heap[Opposite(x.direction)]
    <3> DEFINE side == Opposite(x.direction)
    <3>1. side \in Directions /\ side # x.direction
      BY <1>1
    <3> HIDE DEF side
    <3>2. WithOrder(heap, x)[side] = heap[side]
      BY <3>1, WithOrderFrom
    <3>3. QED BY <3>2 DEF side
  <2>2. QED BY <2>1, <2>a
<1>3. ASSUME NEW p \in heap[x.direction], NEW o \in heap[Opposite(x.direction)]
      PROVE  ~Crosses(p, o)
  <2>1. p \in Order /\ o \in Order /\ p.direction = x.direction
    BY <1>1 DEF Book
  <2>2. p.price \in Int /\ o.price \in Int
    BY <2>1, OrderFields
  <2>3. CASE x.direction = Sale
    <3>1. p.price > o.price
      BY <2>3 DEF Uncrossed, Opposite
    <3>2. QED BY <2>1, <2>2, <2>3, <3>1 DEF Crosses, AsGood
  <2>4. CASE x.direction = Buy
    <3>1. o.price > p.price
      BY <2>4 DEF Uncrossed, Opposite, Sale, Buy
    <3>2. QED BY <2>1, <2>2, <2>4, <3>1 DEF Crosses, AsGood, Sale, Buy
  <2>5. QED BY <1>1, <2>3, <2>4 DEF Directions
<1>4. 1..Len(<<>>) = {}
  OBVIOUS
<1>5. QED BY <1>2, <1>3, <1>4, NothingWorsens DEF Incoming, Crosses

\* A trade of processTrade is one of the order placed last.
LEMMA MatchGoesOn ==
  ASSUME heap \in Book, tape \in Seq(Int), NEW x \in Order, Incoming(x),
         MatchTrade
  PROVE  \E y \in Order : Incoming(y)'
<1> DEFINE d == x.direction
           other == heap[Opposite(x.direction)]
<1>1. PICK sale \in Tops(Sale), buy \in Tops(Buy) :
        /\ sale.price <= buy.price /\ TradeOrder(sale, buy)
        /\ heap' = Taken(Taken(heap, sale, TradeVolume(sale, buy)), buy, TradeVolume(sale, buy))
  BY DEF MatchTrade
<1>2. resume' = resume
  BY DEF MatchTrade
<1> DEFINE v == TradeVolume(sale, buy)
<1>3. /\ sale \in Order /\ sale.direction = Sale /\ sale \in heap[Sale]
      /\ buy \in Order /\ buy.direction = Buy /\ buy \in heap[Buy]
  BY TopsType DEF Directions
<1>4. v \in Nat /\ v <= sale.volume /\ v <= buy.volume
  BY <1>3, LesserVolume DEF TradeVolume
<1>5. /\ sale.price \in Int /\ buy.price \in Int /\ x.price \in Int /\ d \in Directions
      /\ sale.timestamp \in Int /\ buy.timestamp \in Int /\ x.timestamp \in Int
  BY <1>3, OrderFields
<1>6. Taken(heap, sale, v) \in Book
  BY <1>3, <1>4, TakenType
<1>7. /\ Taken(heap, sale, v)[Buy] = heap[Buy]
      /\ Taken(heap, sale, v)[Sale] \subseteq (heap[Sale] \ {sale}) \cup {[sale EXCEPT !.volume = @ - v]}
      /\ heap'[Sale] = Taken(heap, sale, v)[Sale]
      /\ heap'[Buy] \subseteq (heap[Buy] \ {buy}) \cup {[buy EXCEPT !.volume = @ - v]}
  <2>1. heap' = Taken(Taken(heap, sale, v), buy, v)
    BY <1>1
  <2> HIDE DEF v
  <2>2. Sale # Buy /\ Sale \in Directions /\ Buy \in Directions
    BY DEF Sale, Buy, Directions
  <2>3. /\ Taken(heap, sale, v)[Sale] \subseteq (heap[Sale] \ {sale}) \cup {[sale EXCEPT !.volume = @ - v]}
        /\ Taken(heap, sale, v)[Buy] = heap[Buy]
    BY <1>3, <2>2, TakenSide
  <2>4. /\ heap'[Buy] \subseteq (Taken(heap, sale, v)[Buy] \ {buy}) \cup {[buy EXCEPT !.volume = @ - v]}
        /\ heap'[Sale] = Taken(heap, sale, v)[Sale]
    BY <1>3, <1>6, <2>1, <2>2, TakenSide
  <2>5. QED BY <2>3, <2>4
\* Which of the two it is, and who made the price.
<1> DEFINE maker == IF d = Sale THEN buy ELSE sale
           y == [x EXCEPT !.volume = @ - v]
<1>8. x = IF d = Sale THEN sale ELSE buy
  <2>1. CASE d = Sale
    <3>1. Crosses(sale, buy)
      BY <1>1, <1>3, <1>5 DEF Crosses, AsGood
    <3>2. QED BY <1>3, <2>1, <3>1 DEF Incoming, Opposite
  <2>2. CASE d = Buy
    <3>1. Crosses(buy, sale)
      BY <1>1, <1>3, <1>5 DEF Crosses, AsGood, Sale, Buy
    <3>2. QED BY <1>3, <2>2, <3>1 DEF Incoming, Opposite, Sale, Buy
  <2>3. QED BY <1>5, <2>1, <2>2 DEF Directions
<1>9. /\ maker \in Tops(Opposite(d)) /\ maker \in other
      /\ maker.price \in Int /\ maker.timestamp \in Int
  BY <1>3, <1>5 DEF Opposite, Directions
<1>10. Crosses(x, maker)
  BY <1>1, <1>3, <1>5, <1>8 DEF Crosses, AsGood
<1>11. maker.price = x.price \/ (resume = "idle" /\ maker.timestamp < x.timestamp)
  BY <1>9, <1>10 DEF Incoming
<1>12. lastPrice' = maker.price
  <2>1. /\ lastPrice' \in {sale.price, buy.price}
        /\ sale.timestamp > buy.timestamp => lastPrice' = buy.price
        /\ sale.timestamp < buy.timestamp => lastPrice' = sale.price
    BY <1>1, <1>3, TradePriceOlder
  <2>2. CASE d = Sale
    BY <1>5, <1>8, <1>11, <2>1, <2>2
  <2>3. CASE d # Sale
    BY <1>5, <1>8, <1>11, <2>1, <2>3
  <2>4. QED BY <2>2, <2>3
<1>13. tape' = Append(tape, maker.price)
  BY <1>1, <1>12, TapeGrows
<1>14. /\ y \in Order /\ y.price = x.price /\ y.timestamp = x.timestamp /\ y.direction = d
  BY <1>4, <1>8, LeftOver
<1>15. heap'[d] \subseteq (heap[d] \ {x}) \cup {y}
  <2>1. CASE d = Sale
    BY <1>7, <1>8, <2>1
  <2>2. CASE d = Buy
    BY <1>7, <1>8, <2>2 DEF Sale, Buy
  <2>3. QED BY <1>5, <2>1, <2>2 DEF Directions
<1>16. \A o \in heap'[Opposite(d)] : \E p \in other : p.price = o.price /\ p.timestamp = o.timestamp
  <2>1. Opposite(d) \in Directions
    BY <1>3, <1>5 DEF Opposite, Directions
  <2>2. QED BY <1>1, <2>1, BothTakenFrom
<1>17. \A o \in other : AsGood(d, maker.price, o.price)
  BY <1>5, <1>9, TopsAsGood
<1> HIDE DEF v, maker, y
<1>18. Worsening(d, tape')
  <2>1. Worsening(d, tape) /\ \A i \in 1..Len(tape) : AsGood(d, tape[i], maker.price)
    BY <1>9 DEF Incoming, BeforeAll
  <2>2. QED BY <1>9, <1>13, <2>1, WorseningAppend
<1>19. BeforeAll(d, tape', heap'[Opposite(d)])
  <2>1. BeforeAll(d, tape, other)
    BY DEF Incoming
  <2>2. \A o \in heap'[Opposite(d)] : AsGood(d, maker.price, o.price)
    BY <1>16, <1>17
  <2>3. \A o \in heap'[Opposite(d)] : \E p \in other : p.price = o.price
    BY <1>16
  <2> HIDE DEF d, other
  <2>4. QED BY <1>9, <1>13, <2>1, <2>2, <2>3, BeforeAllAppend
<1>20. \A p \in heap'[d] \ {y} : \A o \in heap'[Opposite(d)] : ~Crosses(p, o)
  BY <1>15, <1>16 DEF Incoming, Crosses
<1>21. \A o \in heap'[Opposite(d)] : Crosses(y, o) =>
         o.price = y.price \/ (resume' = "idle" /\ o.timestamp < y.timestamp)
  BY <1>2, <1>14, <1>16 DEF Incoming, Crosses
<1>22. resume' # "idle" => \A i \in 1..Len(tape') : tape'[i] = y.price
  <2>1. ASSUME resume # "idle", NEW i \in 1..Len(tape') PROVE tape'[i] = x.price
    <3>1. maker.price = x.price
      BY <1>11, <2>1
    <3>2. \A j \in 1..Len(tape) : tape[j] = x.price
      BY <2>1 DEF Incoming
    <3>3. Len(tape') = Len(tape) + 1 /\ tape'[Len(tape) + 1] = maker.price
          /\ Len(tape) \in Nat /\ \A j \in 1..Len(tape) : tape'[j] = tape[j]
      BY <1>9, <1>13
    <3>4. i \in 1..Len(tape) \/ i = Len(tape) + 1
      BY <3>3
    <3>5. QED BY <3>1, <3>2, <3>3, <3>4
  <2>2. QED BY <1>2, <1>14, <2>1
<1>23. QED BY <1>14, <1>18, <1>19, <1>20, <1>21, <1>22 DEF Incoming

\* The order in hand trades at the price of a resting order, which is older.
LEMMA WorsenInit == Init => WorsenInv
BY DEF Init, WorsenInv

LEMMA WorsenStep ==
  TypeInv /\ BookInv /\ PriceInv /\ WorsenInv /\ [Next]_vars => WorsenInv'
<1> SUFFICES ASSUME TypeInv, BookInv, PriceInv, WorsenInv, [Next]_vars PROVE WorsenInv'
  OBVIOUS
<1>a. /\ heap \in Book /\ order \in Order /\ pending \in Seq(Order) /\ tape \in Seq(Int)
      /\ order.direction \in Directions /\ Opposite(order.direction) \in Directions
      /\ lastPrice \in Int /\ logs \in Nat /\ logTime \in Int /\ PendingOnlyInAon /\ CallStack
      /\ twapOrders \in Seq(Order) /\ twapHead \in 0..Len(twapOrders)
  BY OrderFields DEF TypeInv, TypeOK
<1>b. pc # "match" => Uncrossed(heap)
  BY DEF BookInv, BookUncrossed, Uncrossed
<1>c. ASSUME InHand
      PROVE  /\ \A direction \in Directions : \A o \in heap[direction] : o.timestamp < order.timestamp
             /\ \A i \in 1..Len(pending) : pending[i].timestamp < order.timestamp
  <2>1. DOMAIN pending = 1..Len(pending)
    BY <1>a
  <2>2. QED BY <1>c, <2>1 DEF PriceInv, RestingOlder
<1>d. ASSUME pc' \notin {"match", "sweep", "collect", "fill"}, tape' = <<>> PROVE WorsenInv'
  BY <1>d DEF WorsenInv
\* Steps outside trading.
<1>1. CASE InsertAlpha \/ InsertOrderLog \/ OnComplete \/ CloseDone \/ Terminated
  <2>1. /\ pc \in {"idle", "close", "done"} /\ tape' = tape
        /\ pc' \in {"idle", "order", "close", "done"}
    BY <1>1 DEF InsertAlpha, InsertOrderLog, OnComplete, CloseDone, Terminated, vars
  <2>2. QED BY <1>d, <2>1 DEF WorsenInv
<1>2. CASE ProcessTwapOrder
  <2> DEFINE head == twapOrders[twapHead + 1]
  <2>1. /\ pc \in {"order", "close"} /\ twapHead < Len(twapOrders) /\ pc' = "match" /\ tape' = tape
    BY <1>2 DEF ProcessTwapOrder, TwapDue
  <2>2. head \in Order
    <3>1. twapHead + 1 \in 1..Len(twapOrders)
      BY <1>a, <2>1
    <3>2. QED BY <1>a, <3>1
  <2>3. PICK basePrice \in BasePrice(head.direction) :
          LET slice == [head EXCEPT !.price = basePrice]
          IN  heap' = IF slice.volume = 0 THEN heap ELSE WithOrder(heap, slice)
    BY <1>2 DEF ProcessTwapOrder
  <2>4. basePrice \in Int /\ head.direction \in Directions
    BY <1>a, <2>2, OrderFields, BasePriceType
  <2> DEFINE slice == [head EXCEPT !.price = basePrice]
  <2>5. /\ slice \in Order /\ slice.price = basePrice /\ slice.direction = head.direction
        /\ heap' = heap \/ heap' = WithOrder(heap, slice)
    BY <2>2, <2>3, <2>4, Repriced
  <2> HIDE DEF slice, head
  <2>6. PICK x \in Order : /\ x.price = basePrice /\ x.direction = head.direction
                           /\ heap' = heap \/ heap' = WithOrder(heap, x)
    BY <2>5
  <2>7. \A o \in heap[Opposite(x.direction)] : Crosses(x, o) => o.price = x.price
    <3>1. ASSUME NEW o \in heap[Opposite(x.direction)], Crosses(x, o) PROVE o.price = x.price
      <4>1. /\ heap \in Book /\ lastPrice \in Int /\ head.direction \in Directions
            /\ basePrice \in BasePrice(head.direction) /\ o \in heap[Opposite(head.direction)]
        BY <1>a, <2>3, <2>4, <2>6, <3>1
      <4>2. AsGood(head.direction, o.price, basePrice)
        BY <2>6, <3>1 DEF Crosses
      <4>3. o.price = basePrice
        BY <4>1, <4>2, SliceMeets
      <4>4. QED BY <2>6, <4>3
    <3>2. QED BY <3>1
  <2>8. tape = <<>> /\ Uncrossed(heap)
    BY <1>b, <2>1 DEF WorsenInv
  <2>9. Incoming(x)'
    BY <1>a, <2>1, <2>6, <2>7, <2>8, MatchStarts
  <2>10. QED BY <2>1, <2>9 DEF WorsenInv
\* An order log is placed at a price, or dropped.
<1>3. ASSUME NEW x \in Order, x.timestamp = order.timestamp, pc = "order", ThenMatch,
             heap' = heap \/ heap' = WithOrder(heap, x)
      PROVE  WorsenInv'
  <2>1. pc' = "match" /\ resume' = "idle" /\ tape' = tape /\ InHand
    BY <1>3 DEF ThenMatch, InHand
  <2>2. tape = <<>> /\ Uncrossed(heap)
    BY <1>3, <1>b DEF WorsenInv
  <2>3. Opposite(x.direction) \in Directions
    BY OrderFields
  <2>4. \A o \in heap[Opposite(x.direction)] : o.timestamp < x.timestamp
    BY <1>3, <1>c, <2>1, <2>3
  <2>5. Incoming(x)'
    BY <1>3, <1>a, <2>1, <2>2, <2>4, MatchStarts
  <2>6. QED BY <2>1, <2>5 DEF WorsenInv
<1>4. CASE PlacePriceLimit
  <2>1. PICK basePrice \in BasePrice(order.direction) :
          \/ heap' = heap
          \/ heap' = WithOrder(heap, [order EXCEPT !.price = basePrice + order.price])
    BY <1>4 DEF PlacePriceLimit
  <2>2. basePrice + order.price \in Int
    BY <1>a, BasePriceType, OrderFields
  <2> DEFINE x == [order EXCEPT !.price = basePrice + order.price]
  <2>3. x \in Order /\ x.timestamp = order.timestamp
    BY <1>a, <2>2, Repriced
  <2>4. pc = "order" /\ ThenMatch
    BY <1>4 DEF PlacePriceLimit, Placing
  <2>5. heap' = heap \/ heap' = WithOrder(heap, x)
    BY <2>1
  <2> HIDE DEF x
  <2>6. QED BY <1>3, <2>3, <2>4, <2>5
<1>5. CASE PlaceAtBest
  <2> DEFINE side == IF order.type = OurBestPrice THEN order.direction
                                                 ELSE Opposite(order.direction)
  <2>1. side \in Directions /\ pc = "order" /\ ThenMatch
    BY <1>a, <1>5 DEF PlaceAtBest, Placing
  <2>2. CASE heap' = heap
    BY <1>3, <1>a, <2>1, <2>2
  <2>3. CASE heap[side] # {}
    <3>1. PICK top \in Tops(side) : heap' = WithOrder(heap, [order EXCEPT !.price = top.price])
      BY <1>5, <2>3 DEF PlaceAtBest
    <3>2. top.price \in Int
      BY <1>a, <2>1, TopsType, OrderFields
    <3> DEFINE x == [order EXCEPT !.price = top.price]
    <3>3. x \in Order /\ x.timestamp = order.timestamp
      BY <1>a, <3>2, Repriced
    <3>4. heap' = WithOrder(heap, x)
      BY <3>1
    <3> HIDE DEF x
    <3>5. QED BY <1>3, <2>1, <3>3, <3>4
  <2>4. QED BY <1>5, <2>2, <2>3 DEF PlaceAtBest
<1>6. CASE MatchTrade
  <2>1. pc = "match" /\ pc' = "match"
    BY <1>6 DEF MatchTrade
  <2>2. PICK x \in Order : Incoming(x)
    BY <2>1 DEF WorsenInv
  <2>3. \E y \in Order : Incoming(y)'
    BY <1>6, <1>a, <2>2, MatchGoesOn
  <2>4. QED BY <2>1, <2>3 DEF WorsenInv
<1>7. CASE MatchDone
  <2>1. pc' = resume /\ tape' = <<>> /\ resume \in {"idle", "order", "close"}
    BY <1>7 DEF MatchDone, TypeInv, TypeOK
  <2>2. QED BY <1>d, <2>1
<1>8. CASE StartSweep
  <2>1. /\ pc = "order" /\ pc' = "sweep" /\ UNCHANGED <<heap, order, tape>>
    BY <1>8 DEF StartSweep, Placing
  <2>2. tape' = <<>>
    BY <2>1 DEF WorsenInv
  <2>3. QED BY <2>1, <2>2, NothingWorsens DEF WorsenInv
\* A trade of the order in hand with a resting one of the price top.price.
<1>9. ASSUME NEW top \in Order, Execute(top), top.timestamp < order.timestamp,
             Worsening(order.direction, tape),
             \A i \in 1..Len(tape) : AsGood(order.direction, tape[i], top.price)
      PROVE  /\ tape' = Append(tape, top.price) /\ Worsening(order.direction, tape')
             /\ top.price \in Int
  <2>1. lastPrice' = top.price /\ top.price \in Int
    BY <1>9, <1>a, ExecuteAtRestingPrice, OrderFields
  <2>2. tape' = Append(tape, top.price)
    BY <1>9, <2>1, ExecuteGrows
  <2>3. QED BY <1>9, <1>a, <2>1, <2>2, WorseningAppend
<1>10. CASE SweepTrade
  <2>1. PICK top \in Tops(Opposite(order.direction)) :
          /\ Execute(top)
          /\ order' = [order EXCEPT !.volume = @ - Lesser(order.volume, top.volume)]
          /\ heap' = Taken(heap, top, Lesser(order.volume, top.volume))
    BY <1>10 DEF SweepTrade
  <2>2. /\ top \in Order /\ top \in heap[top.direction]
        /\ top \in heap[Opposite(order.direction)]
    BY <1>a, TopsType
  <2>3. /\ pc = "sweep" /\ pc' = "sweep" /\ InHand
    BY <1>10 DEF SweepTrade, InHand
  <2>4. order'.direction = order.direction
    BY <1>a, <2>1, <2>2, LesserVolume, LeftOver
  <2>5. /\ Worsening(order.direction, tape)
        /\ BeforeAll(order.direction, tape, heap[Opposite(order.direction)])
    BY <2>3 DEF WorsenInv
  <2>6. \A i \in 1..Len(tape) : AsGood(order.direction, tape[i], top.price)
    BY <2>2, <2>5 DEF BeforeAll
  <2>7. top.timestamp < order.timestamp
    BY <1>a, <1>c, <2>2, <2>3
  <2>8. /\ tape' = Append(tape, top.price) /\ Worsening(order.direction, tape')
        /\ top.price \in Int
    BY <1>9, <2>1, <2>2, <2>5, <2>6, <2>7
  <2>9. \A o \in heap'[Opposite(order.direction)] :
          \E p \in heap[Opposite(order.direction)] : p.price = o.price
    BY <1>a, <2>1, <2>2, LesserVolume, TakenFrom
  <2>10. \A o \in heap'[Opposite(order.direction)] : AsGood(order.direction, top.price, o.price)
    <3>1. ASSUME NEW o \in heap'[Opposite(order.direction)]
          PROVE  AsGood(order.direction, top.price, o.price)
      <4>1. PICK p \in heap[Opposite(order.direction)] : p.price = o.price
        BY <2>9
      <4>2. AsGood(order.direction, top.price, p.price)
        BY <1>a, <2>1, TopsAsGood
      <4>3. QED BY <4>1, <4>2
    <3>2. QED BY <3>1
  <2>11. BeforeAll(order.direction, tape', heap'[Opposite(order.direction)])
    BY <1>a, <2>5, <2>8, <2>9, <2>10, BeforeAllAppend
  <2>12. QED BY <2>3, <2>4, <2>8, <2>11 DEF WorsenInv
<1>11. CASE SweepDone \/ AllOrNothingDone
  <2>1. pc' = "idle" /\ tape' = <<>>
    BY <1>11 DEF SweepDone, AllOrNothingDone, Return
  <2>2. QED BY <1>d, <2>1
<1>12. CASE StartAllOrNothing
  <2>1. /\ pc = "order" /\ pc' = "collect" /\ UNCHANGED <<heap, order, tape, pending>>
    BY <1>12 DEF StartAllOrNothing, Placing
  <2>2. tape' = <<>> /\ pending' = <<>>
    BY <1>a, <2>1 DEF WorsenInv, PendingOnlyInAon
  <2>3. Worsening(order'.direction, Queue') /\ BeforeAll(order'.direction, Queue', heap'[Opposite(order'.direction)])
    <3>1. Queue' = <<>>
      BY <2>2 DEF Queue
    <3>2. QED BY <3>1, NothingWorsens
  <2>4. QED BY <2>1, <2>2, <2>3 DEF WorsenInv
<1>q. Queue \in Seq(Int) /\ Len(Queue) = Len(pending)
  <2>1. \A i \in 1..Len(pending) : pending[i].price \in Int
    BY <1>a, OrderFields
  <2>2. Queue \in [1..Len(pending) -> Int] /\ Len(pending) \in Nat
    BY <1>a, <2>1 DEF Queue
  <2>3. \A n \in Nat : \A t \in [1..n -> Int] : t \in Seq(Int) /\ Len(t) = n
    OBVIOUS
  <2>4. QED BY <2>2, <2>3
<1>13. CASE Collect
  <2>1. PICK top \in Tops(Opposite(order.direction)) :
          /\ heap' = [heap EXCEPT ![top.direction] = @ \ {top}]
          /\ pending' = Append(pending, top)
    BY <1>13 DEF Collect
  <2>2. /\ top \in Order /\ top.direction = Opposite(order.direction)
        /\ top \in heap[Opposite(order.direction)] /\ top.price \in Int
    BY <1>a, TopsType, OrderFields
  <2>3. pc = "collect" /\ pc' = "collect" /\ order' = order /\ tape' = tape
    BY <1>13 DEF Collect
  <2>4. /\ Worsening(order.direction, Queue)
        /\ BeforeAll(order.direction, Queue, heap[Opposite(order.direction)])
    BY <2>3 DEF WorsenInv
  <2>5. \A i \in 1..Len(Queue) : AsGood(order.direction, Queue[i], top.price)
    BY <2>2, <2>4 DEF BeforeAll
  <2>6. Queue' = Append(Queue, top.price)
    <3>1. /\ Len(pending') = Len(pending) + 1 /\ pending'[Len(pending) + 1] = top
          /\ \A i \in 1..Len(pending) : pending'[i] = pending[i]
          /\ Len(pending) \in Nat
      BY <1>a, <2>1, <2>2
    <3>2. \A i \in 1..Len(pending') : pending'[i].price = Append(Queue, top.price)[i]
      <4>1. \A i \in 1..Len(pending) : Queue[i] = pending[i].price
        BY DEF Queue
      <4> HIDE DEF Queue
      <4>2. /\ \A i \in 1..Len(pending) : Append(Queue, top.price)[i] = Queue[i]
            /\ Append(Queue, top.price)[Len(pending) + 1] = top.price
        BY <1>q, <2>2
      <4>3. \A i \in 1..Len(pending') : i \in 1..Len(pending) \/ i = Len(pending) + 1
        BY <3>1
      <4>4. QED BY <3>1, <4>1, <4>2, <4>3
    <3>3. /\ Append(Queue, top.price) \in Seq(Int)
          /\ Len(Append(Queue, top.price)) = Len(pending')
      BY <1>q, <2>2, <3>1
    <3>4. Append(Queue, top.price) = [i \in 1..Len(pending') |-> Append(Queue, top.price)[i]]
      BY <3>3
    <3>5. QED BY <3>2, <3>4 DEF Queue
  <2>7. Worsening(order.direction, Queue')
    BY <1>q, <2>2, <2>4, <2>5, <2>6, WorseningAppend
  <2>8. heap'[Opposite(order.direction)] \subseteq heap[Opposite(order.direction)]
    BY <1>a, <2>1, <2>2 DEF Book
  <2>9. /\ \A o \in heap'[Opposite(order.direction)] : AsGood(order.direction, top.price, o.price)
        /\ \A o \in heap'[Opposite(order.direction)] :
             \E p \in heap[Opposite(order.direction)] : p.price = o.price
    BY <1>a, <2>1, <2>8, TopsAsGood
  <2>10. BeforeAll(order.direction, Queue', heap'[Opposite(order.direction)])
    BY <1>q, <2>2, <2>4, <2>6, <2>9, BeforeAllAppend
  <2>11. QED BY <2>3, <2>7, <2>10 DEF WorsenInv
<1>14. CASE CollectDone
  <2>1. pc = "collect" /\ pc' \in {"fill", "cancel"} /\ UNCHANGED <<order, pending, tape>>
    BY <1>14 DEF CollectDone, aon
  <2>2. tape' = <<>> /\ Worsening(order.direction, Queue)
    BY <2>1 DEF WorsenInv
  <2>3. Queue' = Queue
    BY <2>1 DEF Queue
  <2>4. QED BY <2>1, <2>2, <2>3, NothingWorsens DEF WorsenInv
<1>15. CASE Fill
  <2> DEFINE top == Head(pending)
             v   == Lesser(order.volume, top.volume)
  <2>1. /\ pc = "fill" /\ pc' = "fill" /\ pending # <<>> /\ pending' = Tail(pending)
        /\ Execute(top) /\ order' = [order EXCEPT !.volume = @ - v]
    BY <1>15 DEF Fill
  <2>2. /\ top \in Order /\ 1 \in DOMAIN pending /\ top = pending[1]
        /\ \A i \in DOMAIN pending' : i + 1 \in DOMAIN pending /\ pending'[i] = pending[i + 1]
    BY <1>a, <2>1, TailOfPending
  <2>3. order'.direction = order.direction
    BY <1>a, <2>1, <2>2, LesserVolume, LeftOver
  <2> HIDE DEF top, v
  <2>4. /\ DOMAIN pending = 1..Len(pending) /\ Len(pending) \in Nat
        /\ pending' \in Seq(Order) /\ DOMAIN pending' = 1..Len(pending') /\ Len(pending') \in Nat
    BY <1>a, <2>1
  <2>5. /\ Worsening(order.direction, Queue) /\ Worsening(order.direction, tape)
        /\ BeforeAll(order.direction, tape, {pending[i] : i \in 1..Len(pending)})
    BY <2>1 DEF WorsenInv
  <2>6. \A i \in 1..Len(tape) : AsGood(order.direction, tape[i], top.price)
    BY <2>2, <2>4, <2>5 DEF BeforeAll
  <2>7. top.timestamp < order.timestamp
    <3>1. InHand
      BY <2>1 DEF InHand
    <3>2. QED BY <1>c, <2>2, <2>4, <3>1
  <2>8. /\ tape' = Append(tape, top.price) /\ Worsening(order.direction, tape')
        /\ top.price \in Int
    BY <1>9, <2>1, <2>2, <2>5, <2>6, <2>7
  <2>9. \A i \in 1..Len(pending') : /\ Queue'[i] = Queue[i + 1] /\ i + 1 \in 1..Len(pending)
                                    /\ pending'[i] = pending[i + 1]
    BY <2>2, <2>4 DEF Queue
  <2>10. Len(Queue') = Len(pending')
    <3>1. \A i \in 1..Len(pending') : pending'[i].price \in Int
      BY <2>4, OrderFields
    <3>2. Queue' \in [1..Len(pending') -> Int]
      BY <3>1 DEF Queue
    <3>3. \A n \in Nat : \A t \in [1..n -> Int] : Len(t) = n
      OBVIOUS
    <3>4. QED BY <2>4, <3>2, <3>3
  <2>11. Worsening(order.direction, Queue')
    BY <1>q, <2>4, <2>5, <2>9, <2>10 DEF Worsening
  <2>12. BeforeAll(order.direction, tape', {pending'[i] : i \in 1..Len(pending')})
    <3> DEFINE before == {pending[i] : i \in 1..Len(pending)}
               after  == {pending'[i] : i \in 1..Len(pending')}
    <3>1. \A o \in after : \E i \in 1..Len(pending) : i > 1 /\ o = pending[i]
      BY <2>4, <2>9
    <3>2. \A i \in 1..Len(pending) : i > 1 => AsGood(order.direction, top.price, pending[i].price)
      <4>1. \A i \in 1..Len(pending) : Queue[i] = pending[i].price
        BY DEF Queue
      <4>2. QED BY <1>q, <2>2, <2>4, <2>5, <4>1 DEF Worsening
    <3>3. \A o \in after : AsGood(order.direction, top.price, o.price)
      BY <3>1, <3>2
    <3>4. \A o \in after : \E p \in before : p.price = o.price
      BY <3>1
    <3> HIDE DEF before, after
    <3>5. BeforeAll(order.direction, Append(tape, top.price), after)
      BY <1>a, <2>5, <2>8, <3>3, <3>4, BeforeAllAppend DEF before
    <3>6. QED BY <2>8, <3>5 DEF after
  <2>13. QED BY <2>1, <2>3, <2>8, <2>11, <2>12 DEF WorsenInv
<1>16. CASE Cancel
  <2>1. pc = "cancel" /\ pc' = "cancel" /\ tape' = tape
    BY <1>16 DEF Cancel
  <2>2. QED BY <1>d, <2>1 DEF WorsenInv
<1>17. CASE UNCHANGED vars
  <2>1. /\ UNCHANGED <<heap, order, pending, pc, resume, tape>>
    BY <1>17 DEF vars, aon
  <2>2. Queue' = Queue /\ \A x \in Order : Incoming(x) => Incoming(x)'
    BY <2>1 DEF Queue, Incoming, Crosses
  <2>3. QED BY <2>1, <2>2 DEF WorsenInv
<1>18. QED
  BY <1>1, <1>2, <1>4, <1>5, <1>6, <1>7, <1>8, <1>10, <1>11, <1>12, <1>13, <1>14,
     <1>15, <1>16, <1>17 DEF Next, Environment, Engine

\* The prices of one order never get better again (contract_engine.cpp:163, :209,
\* :288), whether it sweeps the book, takes it from the queue of AllOrNothing or is
\* matched in the book; if the order logs of the instrument have different
\* timestamps, without which some trades are at the price of the newcomer.
THEOREM WorseningPrices ==
  ASSUME LogGap > 0
  PROVE  Spec => []PricesWorsen
<1>1. TypeInv /\ PriceInv /\ [Next]_vars => PriceInv'
  BY PriceStep
<1>2. Spec => [](TypeInv /\ BookInv /\ PriceInv)
  BY TypeCorrectStrong, BookInit, BookStep, PriceInit, <1>1, PTL DEF Spec
<1>3. TypeInv /\ WorsenInv => PricesWorsen
  <2> SUFFICES ASSUME TypeInv, WorsenInv PROVE PricesWorsen
    OBVIOUS
  <2>1. DOMAIN tape = 1..Len(tape)
    BY DEF TypeInv, TypeOK
  <2>2. pc \in {"sweep", "fill"} => Worsening(order.direction, tape)
    BY DEF WorsenInv
  <2>3. pc = "match" => \E x \in Order : Worsening(x.direction, tape)
    BY DEF WorsenInv, Incoming
  <2>4. QED BY <2>1, <2>2, <2>3 DEF PricesWorsen, Worsening, AsGood
<1>4. QED BY <1>2, <1>3, WorsenInit, WorsenStep, PTL DEF Spec

=============================================================================
