------------------------------- MODULE Common -------------------------------
(***************************************************************************)
(* The vocabulary every component shares, from src/common.h: contract      *)
(* types, directions, the rounding of money and the priority of resting    *)
(* orders.                                                                 *)
(*                                                                         *)
(* Money.  The program keeps prices as doubles and compares them with a    *)
(* tolerance of EPS = 1E-6.  All prices of the data are whole cents, so    *)
(* here a price is an integer number of cents and the tolerant comparisons *)
(* are the exact ones.  A product of a price and a percentage is a number  *)
(* of hundredths of a cent until it is rounded.                            *)
(***************************************************************************)
EXTENDS Integers

MAX_INT == 2147483647

\* enum ContractType: the values matter, the comparators order by them.
PriceLimit          == 0
OppositeBestPrice   == 1
OurBestPrice        == 2
BestFivePriceNoLeft == 3
ImmediateDealNoLeft == 4
AllOrNothing        == 5
MyContract          == 6

LogTypes == PriceLimit..AllOrNothing      \* the types an order log may have

\* enum Direction
Sale == 0
Buy  == 1
Directions == {Sale, Buy}

Opposite(direction) == IF direction = Sale THEN Buy ELSE Sale

Lesser(x, y)  == IF x < y THEN x ELSE y   \* _min
Greater(x, y) == IF x > y THEN x ELSE y   \* _max
Abs(x)        == IF x < 0 THEN -x ELSE x  \* _abs

(***************************************************************************)
(* highPrecisionRound2: hundredths of a cent to cents, a half rounded up.  *)
(* The cast to long long truncates towards zero.                           *)
(***************************************************************************)
Round2(x) == IF x + 50 >= 0 THEN (x + 50) \div 100
                            ELSE -((-(x + 50)) \div 100)

(***************************************************************************)
(* MinBinaryHeapCmp (sale side) and MaxBinaryHeapCmp (buy side): o1 is to  *)
(* trade strictly before o2.  Better price first, then the earlier order,  *)
(* then the smaller type, so that MyContract goes last.  Two orders of one *)
(* price, millisecond and type are not ordered.                            *)
(***************************************************************************)
BeforeIgnoringTime(direction, o1, o2) ==  \* mutant: no time priority
  IF direction = Sale THEN o1.price < o2.price ELSE o1.price > o2.price

BeforeIgnoringType(direction, o1, o2) ==  \* mutant: our orders not last
  \/ IF direction = Sale THEN o1.price < o2.price ELSE o1.price > o2.price
  \/ o1.price = o2.price /\ o1.timestamp < o2.timestamp

BeforeLowestPrice(direction, o1, o2) ==   \* mutant: both sides take the lowest price
  \/ o1.price < o2.price
  \/ o1.price = o2.price /\ o1.timestamp < o2.timestamp

Before(direction, o1, o2) ==
  \/ IF direction = Sale THEN o1.price < o2.price ELSE o1.price > o2.price
  \/ /\ o1.price = o2.price
     /\ \/ o1.timestamp < o2.timestamp
        \/ o1.timestamp = o2.timestamp /\ o1.type < o2.type

=============================================================================
