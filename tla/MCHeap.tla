------------------------------- MODULE MCHeap -------------------------------
(***************************************************************************)
(* Values for the constants of BinaryHeap.                                 *)
(***************************************************************************)
EXTENDS BinaryHeap

MCOrder(uid, price, timestamp, type, volume) ==
  [uid |-> uid, price |-> price, timestamp |-> timestamp, type |-> type, volume |-> volume]

\* Better prices, earlier orders, ours after the market's, and two orders (4
\* and 5) that the comparator does not tell apart.
MCOrders == {MCOrder(1, 102, 1, PriceLimit, 1), MCOrder(2, 101, 1, MyContract, 1),
             MCOrder(3, 101, 1, PriceLimit, 1), MCOrder(4, 100, 3, PriceLimit, 1),
             MCOrder(5, 100, 3, PriceLimit, 1), MCOrder(6, 101, 2, PriceLimit, 1),
             MCOrder(7, 103, 2, PriceLimit, 2)}

=============================================================================
