--------------------------- MODULE BinaryHeap_proofs ---------------------------
(***************************************************************************)
(* The array heap of BinaryHeap.tla keeps its order and implements         *)
(* PriorityQueue, for every comparator side, capacity and set of orders.   *)
(*                                                                         *)
(* The order of the array says only that no entry precedes its father; that*)
(* the first entry precedes all others goes by the least entry for which it*)
(* would fail.                                                             *)
(***************************************************************************)
EXTENDS BinaryHeap, TLAPS, WellFoundedInduction

-----------------------------------------------------------------------------
(* Numbers and the comparator.                                             *)

\* Every set of naturals has a least member.
LEMMA LeastNumber ==
  ASSUME NEW T \in SUBSET Nat, T # {}
  PROVE  \E x \in T : \A y \in T : ~(y < x)
<1> DEFINE R == {ss \in Nat \X Nat : ss[1] < ss[2]}
<1>1. IsWellFoundedOn(R, Nat)
  BY NatLessThanWellFounded DEF OpToRel
<1>2. \A x, y \in Nat : y < x => <<y, x>> \in R
  OBVIOUS
<1>3. \E x \in T : \A y \in T : ~(<<y, x>> \in R)
  <2> HIDE DEF R
  <2> QED BY <1>1, WFMin
<1> HIDE DEF R
<1> QED BY <1>2, <1>3

\* The father of an entry is before it, and has the entries 2i and 2i + 1.
LEMMA Fathers ==
  ASSUME NEW i \in Nat, i >= 2
  PROVE  /\ i \div 2 \in 1..i - 1
         /\ i = 2 * (i \div 2) \/ i = 2 * (i \div 2) + 1
OBVIOUS

LEMMA Children ==
  ASSUME NEW i \in Nat \ {0}
  PROVE  (2 * i) \div 2 = i /\ (2 * i + 1) \div 2 = i
OBVIOUS

\* The comparators are strict weak orders.
LEMMA CmpOrder ==
  /\ \A a, b \in Order : cmp(a, b) => ~cmp(b, a)
  /\ \A a, b, c \in Order : cmp(a, b) /\ cmp(b, c) => cmp(a, c)
  /\ \A a, b, c \in Order : ~cmp(a, b) /\ ~cmp(b, c) => ~cmp(a, c)
<1>1. CASE side = Sale
  BY <1>1 DEF cmp, Before, Order
<1>2. CASE side # Sale
  BY <1>2 DEF cmp, Before, Order
<1> QED BY <1>1, <1>2

\* The volume of an order has no part in its priority.
LEMMA CmpVolume ==
  ASSUME NEW o \in Order, NEW v \in Nat
  PROVE  LET r == [o EXCEPT !.volume = v]
         IN  /\ r \in Order /\ r.uid = o.uid
             /\ \A a \in Order : cmp(a, r) <=> cmp(a, o)
             /\ \A a \in Order : cmp(r, a) <=> cmp(o, a)
BY DEF cmp, Before, Order

-----------------------------------------------------------------------------
(* The inductive invariant.                                                *)

TypeInv ==
  /\ capacity \in Nat \ {0} /\ size \in 0..capacity
  /\ heapArray \in [1..capacity -> Order \cup {Uninitialised}]
  /\ pc \in {"idle", "up", "down"}
  /\ pc = "up" => index \in 1..size
  /\ pc = "down" => index \in 1..Greater(size, 1)
  /\ pc # "idle" => held \in Order
  /\ \A i \in 1..size : (pc # "idle" /\ i = index) \/ heapArray[i] \in Order

\* The array is in order but for the hole; the children of the hole do not
\* precede its father, so that they may be moved or left below it.  The order held
\* is on its way up past the children, or down past the father.
OrderInv ==
  /\ \A i \in 2..size :
       pc = "idle" \/ (i # index /\ i \div 2 # index) => ~cmp(heapArray[i], heapArray[i \div 2])
  /\ pc # "idle" /\ index > 1 =>
       \A i \in 2..size : i \div 2 = index => ~cmp(heapArray[i], heapArray[index \div 2])
  /\ pc = "up" => \A i \in 2..size : i \div 2 = index => ~cmp(heapArray[i], held)
  /\ pc = "down" /\ index > 1 => ~cmp(held, heapArray[index \div 2])

\* The entries of the heap, the order held being in the hole.
Entry(i) == IF pc # "idle" /\ i = index THEN held ELSE heapArray[i]

\* No order is in two entries.
Distinct == \A i, j \in 1..size : Entry(i).uid = Entry(j).uid => i = j

HeapInv == TypeInv /\ OrderInv /\ Distinct

LEMMA ContentsAreEntries ==
  TypeInv => Contents = {Entry(i) : i \in 1..size}
BY DEF TypeInv, Contents, Entry, Greater

LEMMA HeapInit == Init => HeapInv
BY HeapAssumption DEF Init, HeapInv, TypeInv, OrderInv, Distinct, Entry

-----------------------------------------------------------------------------
(* One lemma for each action.                                              *)

LEMMA InsertInv ==
  ASSUME HeapInv, NEW value \in Orders, Insert(value)
  PROVE  HeapInv'
<1> USE HeapAssumption
<1>1. value \in Order
  OBVIOUS
<1>2. /\ pc = "idle" /\ pc' = "up" /\ index' = size + 1 /\ held' = value /\ size' = size + 1
      /\ capacity' \in Nat \ {0} /\ size' \in 0..capacity'
      /\ heapArray' \in [1..capacity' -> Order \cup {Uninitialised}]
      /\ \A k \in 1..size : heapArray'[k] = heapArray[k]
  BY DEF HeapInv, TypeInv, Insert, Grown
<1>3. TypeInv'
  BY <1>1, <1>2 DEF HeapInv, TypeInv
<1>4. \A k \in 2..size' : k \div 2 # index' /\ (k # index' => k \in 2..size /\ k \div 2 \in 1..size)
  BY <1>2, Fathers DEF HeapInv, TypeInv
<1>5. OrderInv'
  BY <1>2, <1>4 DEF HeapInv, TypeInv, OrderInv, cmp
<1>6. \A k \in 1..size : Entry(k) \in Contents
  BY ContentsAreEntries DEF HeapInv
<1>7. Distinct'
  BY <1>1, <1>2, <1>6 DEF HeapInv, TypeInv, Insert, Distinct, Entry
<1> QED BY <1>3, <1>5, <1>7 DEF HeapInv

LEMMA SiftUpInv ==
  ASSUME HeapInv, SiftUp
  PROVE  HeapInv'
<1> DEFINE f == father
<1>1. /\ pc = "up" /\ pc' = "up" /\ index > 1 /\ index' = f /\ size' = size /\ held' = held
      /\ cmp(held, heapArray[f]) /\ heapArray' = [heapArray EXCEPT ![index] = heapArray[f]]
      /\ capacity' = capacity /\ index \in 1..size
  BY DEF SiftUp, Rises, HeapInv, TypeInv
<1>2. f \in 1..index - 1 /\ f \in 1..size /\ index \in 2..size
  BY <1>1, Fathers DEF father, HeapInv, TypeInv
<1>3. heapArray[f] \in Order /\ held \in Order
  BY <1>1, <1>2 DEF HeapInv, TypeInv
<1>4. TypeInv'
  BY <1>1, <1>2, <1>3 DEF HeapInv, TypeInv
<1>5. heapArray'[index] = heapArray[f] /\ \A k \in 1..size : k # index => heapArray'[k] = heapArray[k]
  BY <1>1 DEF HeapInv, TypeInv
<1>6. \A k \in 1..size : k # index => heapArray[k] \in Order
  BY <1>1 DEF HeapInv, TypeInv
<1>7. \A k \in 2..size : k \div 2 \in 1..size /\ k \div 2 < k
  BY Fathers DEF HeapInv, TypeInv
<1> HIDE DEF f
<1>8. ASSUME NEW k \in 2..size', k # index', k \div 2 # index'
      PROVE  ~cmp(heapArray[k], heapArray[k \div 2])'
  <2>1. k # index
    BY <1>1, <1>8 DEF f, father
  <2>2. CASE k \div 2 = index
    BY <1>1, <1>2, <1>5, <1>8, <2>1, <2>2 DEF HeapInv, OrderInv, f, father, cmp
  <2>3. CASE k \div 2 # index
    BY <1>1, <1>5, <1>7, <1>8, <2>1, <2>3 DEF HeapInv, OrderInv, cmp
  <2> QED BY <2>2, <2>3
<1>9. ASSUME NEW k \in 2..size', k \div 2 = index'
      PROVE  /\ ~cmp(heapArray[k], held)'
             /\ index' > 1 => ~cmp(heapArray'[k], heapArray'[index' \div 2])
  <2>1. ~cmp(heapArray[f], held)
    BY <1>1, <1>3, CmpOrder
  <2>2. f > 1 => /\ f \in 2..size /\ f # index /\ f \div 2 \in 1..size /\ f \div 2 # index
                 /\ ~cmp(heapArray[f], heapArray[f \div 2])
    BY <1>1, <1>2, <1>7 DEF HeapInv, OrderInv
  <2>3. CASE k = index
    BY <1>1, <1>5, <2>1, <2>2, <2>3 DEF cmp
  <2>4. CASE k # index
    <3>1. k \div 2 = f /\ f # index
      BY <1>1, <1>2, <1>9
    <3>2. ~cmp(heapArray[k], heapArray[f]) /\ heapArray[k] \in Order
      BY <1>1, <1>6, <1>9, <2>4, <3>1 DEF HeapInv, OrderInv
    <3>3. ~cmp(heapArray[k], held)
      BY <1>1, <1>3, <3>2, CmpOrder
    <3>4. f > 1 => ~cmp(heapArray[k], heapArray[f \div 2])
      BY <1>3, <1>6, <2>2, <3>2, CmpOrder
    <3> QED BY <1>1, <1>5, <1>9, <2>2, <2>4, <3>3, <3>4 DEF cmp
  <2> QED BY <2>3, <2>4
<1>10. OrderInv'
  BY <1>1, <1>8, <1>9 DEF OrderInv
<1>11. Distinct'
  BY <1>1, <1>2, <1>5 DEF HeapInv, Distinct, Entry
<1> QED BY <1>4, <1>10, <1>11 DEF HeapInv

\* Filling the hole changes no entry, so the call may return when the order held
\* may stand in the hole.
LEMMA FillInv ==
  ASSUME HeapInv, Fill, pc # "idle",
         index > 1 => ~cmp(held, heapArray[index \div 2]),
         \A k \in 2..size : k \div 2 = index => ~cmp(heapArray[k], held)
  PROVE  HeapInv' /\ Contents' = Contents
<1>1. /\ pc' = "idle" /\ index' = 1 /\ size' = size /\ capacity' = capacity
      /\ heapArray' = [heapArray EXCEPT ![index] = held]
      /\ index \in 1..capacity /\ held \in Order
  BY DEF Fill, HeapInv, TypeInv, Greater
<1>2. heapArray'[index] = held /\ \A k \in 1..size : k # index => heapArray'[k] = heapArray[k]
  BY <1>1 DEF HeapInv, TypeInv
<1>3. TypeInv'
  BY <1>1, <1>2 DEF HeapInv, TypeInv
<1>4. ASSUME NEW k \in 2..size
      PROVE  ~cmp(heapArray'[k], heapArray'[k \div 2])
  <2>1. k \div 2 \in 1..size /\ k \div 2 < k
    BY <1>4, Fathers DEF HeapInv, TypeInv
  <2>2. CASE k = index
    BY <1>2, <2>1, <2>2
  <2>3. CASE k \div 2 = index
    BY <1>2, <2>1, <2>3
  <2>4. CASE k # index /\ k \div 2 # index
    BY <1>2, <2>1, <2>4 DEF HeapInv, OrderInv
  <2> QED BY <2>2, <2>3, <2>4
<1>5. OrderInv'
  BY <1>1, <1>4 DEF OrderInv, cmp
<1>6. \A k \in 1..size : Entry(k)' = Entry(k)
  BY <1>1, <1>2 DEF Entry
<1>7. Distinct'
  BY <1>1, <1>6 DEF HeapInv, Distinct
<1>8. Contents = {Entry(k) : k \in 1..size}
  BY ContentsAreEntries DEF HeapInv
<1>9. Contents' = {heapArray'[k] : k \in 1..size}
  BY <1>1 DEF Contents
<1>10. \A k \in 1..size : Entry(k)' = heapArray'[k]
  BY <1>1 DEF Entry
<1> QED BY <1>3, <1>5, <1>6, <1>7, <1>8, <1>9, <1>10 DEF HeapInv

LEMMA InsertedInv ==
  ASSUME HeapInv, Inserted
  PROVE  HeapInv' /\ Contents' = Contents
<1>1. Fill /\ pc # "idle" /\ \A k \in 2..size : k \div 2 = index => ~cmp(heapArray[k], held)
  BY DEF Inserted, HeapInv, OrderInv
<1>2. index > 1 => ~cmp(held, heapArray[index \div 2])
  BY DEF Inserted, Rises, father
<1> QED BY <1>1, <1>2, FillInv

\* Of the children of the hole, maxChild is one that no other precedes.
LEMMA MaxChild ==
  ASSUME TypeInv, pc = "down", 2 * index <= size
  PROVE  /\ maxChild \in 2..size /\ maxChild \div 2 = index /\ maxChild > index
         /\ heapArray[maxChild] \in Order
         /\ \A k \in 2..size : k \div 2 = index =>
              heapArray[k] \in Order /\ ~cmp(heapArray[k], heapArray[maxChild])
<1>1. index \in Nat \ {0} /\ size \in Nat
  BY DEF TypeInv, Greater
<1>2. \A k \in 2..size : k \div 2 = index => k \in {2 * index, 2 * index + 1}
  BY <1>1, Fathers
<1>3. heapArray[2 * index] \in Order /\ (2 * index < size => heapArray[2 * index + 1] \in Order)
  BY <1>1 DEF TypeInv
<1>4. maxChild \in {2 * index, 2 * index + 1} /\ maxChild \in 2..size /\ maxChild > index
  BY <1>1 DEF maxChild
<1>5. maxChild \div 2 = index
  BY <1>1, <1>4, Children
<1>6. ~cmp(heapArray[2 * index], heapArray[maxChild])
  BY <1>1, <1>3, CmpOrder DEF maxChild
<1>7. 2 * index < size => ~cmp(heapArray[2 * index + 1], heapArray[maxChild])
  BY <1>1, <1>3, CmpOrder DEF maxChild
<1> QED BY <1>1, <1>2, <1>3, <1>4, <1>5, <1>6, <1>7

LEMMA PoppedInv ==
  ASSUME HeapInv, Popped
  PROVE  HeapInv' /\ Contents' = Contents
<1>1. Fill /\ pc = "down" /\ TypeInv /\ held \in Order /\ index \in Nat \ {0} /\ size \in Nat
  BY DEF Popped, HeapInv, TypeInv, Greater
<1>2. index > 1 => ~cmp(held, heapArray[index \div 2])
  BY <1>1 DEF HeapInv, OrderInv
<1>3. \A k \in 2..size : k \div 2 = index => ~cmp(heapArray[k], held)
  <2>1. CASE 2 * index > size
    BY <1>1, <2>1, Fathers
  <2>2. CASE 2 * index <= size
    <3>1. cmp(held, heapArray[maxChild])
      BY <1>1, <2>2 DEF Popped, Sinks
    <3> QED BY <1>1, <2>2, <3>1, MaxChild, CmpOrder
  <2> QED BY <1>1, <2>1, <2>2
<1> QED BY <1>1, <1>2, <1>3, FillInv

LEMMA PopInv ==
  ASSUME HeapInv, Pop
  PROVE  HeapInv'
<1>1. /\ pc = "idle" /\ pc' = "down" /\ index' = 1 /\ held' = heapArray[size] /\ size' = size - 1
      /\ size \in 1..capacity /\ capacity' = capacity
      /\ heapArray' = [heapArray EXCEPT ![size] = Uninitialised]
      /\ heapArray[size] \in Order
  BY DEF Pop, HeapInv, TypeInv
<1>2. \A k \in 1..size - 1 : heapArray'[k] = heapArray[k]
  BY <1>1 DEF HeapInv, TypeInv
<1>3. TypeInv'
  BY <1>1, <1>2 DEF HeapInv, TypeInv, Greater
<1>4. \A k \in 2..size - 1 : k \div 2 \in 1..size - 1
  BY <1>1, Fathers DEF HeapInv, TypeInv
<1>5. OrderInv'
  BY <1>1, <1>2, <1>4 DEF HeapInv, OrderInv, cmp
<1>6. Distinct'
  BY <1>1, <1>2 DEF HeapInv, Distinct, Entry
<1> QED BY <1>3, <1>5, <1>6 DEF HeapInv

LEMMA SiftDownInv ==
  ASSUME HeapInv, SiftDown
  PROVE  HeapInv'
<1> DEFINE m == maxChild
<1>1. /\ pc = "down" /\ pc' = "down" /\ index' = m /\ size' = size /\ held' = held
      /\ ~cmp(held, heapArray[m]) /\ heapArray' = [heapArray EXCEPT ![index] = heapArray[m]]
      /\ capacity' = capacity /\ 2 * index <= size /\ index \in 1..size /\ held \in Order
  BY DEF SiftDown, Sinks, HeapInv, TypeInv, Greater
<1>2. /\ m \in 2..size /\ m \div 2 = index /\ m > index /\ heapArray[m] \in Order
      /\ \A k \in 2..size : k \div 2 = index =>
           heapArray[k] \in Order /\ ~cmp(heapArray[k], heapArray[m])
  BY <1>1, MaxChild DEF HeapInv
<1> HIDE DEF m
<1>3. heapArray'[index] = heapArray[m] /\ \A k \in 1..size : k # index => heapArray'[k] = heapArray[k]
  BY <1>1 DEF HeapInv, TypeInv
<1>4. TypeInv'
  BY <1>1, <1>2, <1>3 DEF HeapInv, TypeInv, Greater
<1>5. \A k \in 2..size : k \div 2 \in 1..size /\ k \div 2 < k
  BY Fathers DEF HeapInv, TypeInv
<1>6. ASSUME NEW k \in 2..size', k # index', k \div 2 # index'
      PROVE  ~cmp(heapArray'[k], heapArray'[k \div 2])
  <2>1. CASE k = index
    BY <1>1, <1>2, <1>3, <1>5, <2>1 DEF HeapInv, OrderInv
  <2>2. CASE k \div 2 = index
    BY <1>1, <1>2, <1>3, <1>5, <1>6, <2>2
  <2>3. CASE k # index /\ k \div 2 # index
    BY <1>1, <1>3, <1>5, <1>6, <2>3 DEF HeapInv, OrderInv
  <2> QED BY <2>1, <2>2, <2>3
<1>7. ASSUME NEW k \in 2..size', k \div 2 = index'
      PROVE  ~cmp(heapArray'[k], heapArray'[index' \div 2])
  <2>1. k > m /\ k # index /\ k \div 2 # index
    BY <1>1, <1>2, <1>5, <1>7
  <2>2. ~cmp(heapArray[k], heapArray[m])
    BY <1>1, <1>7, <2>1 DEF HeapInv, OrderInv
  <2> QED BY <1>1, <1>2, <1>3, <2>1, <2>2
<1>8. OrderInv'
  BY <1>1, <1>2, <1>3, <1>6, <1>7 DEF OrderInv, cmp
<1>9. Distinct'
  BY <1>1, <1>2, <1>3 DEF HeapInv, Distinct, Entry
<1> QED BY <1>4, <1>8, <1>9 DEF HeapInv

LEMMA ReduceTopInv ==
  ASSUME HeapInv, NEW v \in 1..MaxReduction, ReduceTop(v)
  PROVE  HeapInv'
<1> DEFINE r == [heapArray[1] EXCEPT !.volume = @ - v]
<1>1. /\ pc = "idle" /\ size \in 1..capacity /\ 1 \in DOMAIN heapArray /\ heapArray[1] \in Order
      /\ heapArray' = [heapArray EXCEPT ![1] = r]
      /\ UNCHANGED <<capacity, size, pc, index, held>>
  BY DEF ReduceTop, HeapInv, TypeInv
<1>2. heapArray[1].volume - v \in Nat
  BY <1>1, HeapAssumption DEF ReduceTop, Order
<1>3. /\ r \in Order /\ r.uid = heapArray[1].uid
      /\ \A a \in Order : cmp(a, r) <=> cmp(a, heapArray[1])
  BY <1>1, <1>2, CmpVolume
<1> HIDE DEF r
<1>4. heapArray'[1] = r /\ \A k \in 2..size : heapArray'[k] = heapArray[k] /\ heapArray[k] \in Order
  BY <1>1 DEF HeapInv, TypeInv
<1>5. TypeInv'
  BY <1>1, <1>3, <1>4 DEF HeapInv, TypeInv
<1>6. OrderInv'
  BY <1>1, <1>3, <1>4, Fathers DEF HeapInv, TypeInv, OrderInv, cmp
<1>7. Distinct'
  BY <1>1, <1>3, <1>4 DEF HeapInv, Distinct, Entry
<1> QED BY <1>5, <1>6, <1>7 DEF HeapInv

-----------------------------------------------------------------------------
(* The invariant and what follows from it.                                 *)

LEMMA HeapStep ==
  HeapInv /\ [Next]_vars => HeapInv'
<1> SUFFICES ASSUME HeapInv, [Next]_vars PROVE HeapInv'
  OBVIOUS
<1>1. CASE \E value \in Orders : Insert(value)
  BY <1>1, InsertInv
<1>2. CASE Pop
  BY <1>2, PopInv
<1>3. CASE \E v \in 1..MaxReduction : ReduceTop(v)
  BY <1>3, ReduceTopInv
<1>4. CASE SiftUp
  BY <1>4, SiftUpInv
<1>5. CASE SiftDown
  BY <1>5, SiftDownInv
<1>6. CASE Inserted
  BY <1>6, InsertedInv
<1>7. CASE Popped
  BY <1>7, PoppedInv
<1>8. CASE UNCHANGED vars
  BY <1>8 DEF vars, HeapInv, TypeInv, OrderInv, Distinct, Entry, cmp
<1> QED BY <1>1, <1>2, <1>3, <1>4, <1>5, <1>6, <1>7, <1>8 DEF Next, Caller, Loop

LEMMA Invariant == Spec => []HeapInv
<1> QED BY HeapInit, HeapStep, PTL DEF Spec

\* The heap's calls stay inside the array, and between calls no order precedes its
\* father (binary_heap.h:34-79).
THEOREM HeapTypeCorrect == Spec => []TypeOK
<1>1. HeapInv => TypeOK
  BY HeapAssumption DEF HeapInv, TypeInv, TypeOK
<1> QED BY <1>1, Invariant, PTL

\* Between calls no order precedes its father, whatever was inserted, popped and
\* reduced before (binary_heap.h:34-79).
THEOREM InOrder == Spec => []HeapOrder
<1>1. HeapInv => HeapOrder
  BY DEF HeapInv, OrderInv, HeapOrder
<1> QED BY <1>1, Invariant, PTL

-----------------------------------------------------------------------------
(* The refinement of PriorityQueue.                                        *)

\* Between calls no order precedes that in the first entry: take the least entry
\* that does; its father does not, and does not come behind it.
LEMMA RootIsFirst ==
  ASSUME HeapInv, pc = "idle", size > 0
  PROVE  /\ heapArray[1] \in Order
         /\ \A k \in 1..size : heapArray[k] \in Order /\ ~cmp(heapArray[k], heapArray[1])
<1> DEFINE T == {k \in 1..size : cmp(heapArray[k], heapArray[1])}
<1>1. size \in Nat /\ \A k \in 1..size : heapArray[k] \in Order
  BY DEF HeapInv, TypeInv
<1>2. ASSUME T # {} PROVE FALSE
  <2>1. PICK k \in T : \A j \in T : ~(j < k)
    <3>1. T \in SUBSET Nat
      BY <1>1
    <3> HIDE DEF T
    <3> QED BY <1>2, <3>1, LeastNumber
  <2>2. k \in 2..size /\ cmp(heapArray[k], heapArray[1])
    BY <1>1, <2>1, CmpOrder
  <2>3. k \div 2 \in 1..size /\ k \div 2 < k
    BY <1>1, <2>2, Fathers
  <2>4. ~cmp(heapArray[k \div 2], heapArray[1])
    BY <2>1, <2>3
  <2>5. ~cmp(heapArray[k], heapArray[k \div 2])
    BY <2>2 DEF HeapInv, OrderInv
  <2> QED BY <1>1, <2>2, <2>3, <2>4, <2>5, CmpOrder
<1> QED BY <1>1, <1>2

LEMMA FirstEntry ==
  ASSUME HeapInv, pc = "idle", size > 0
  PROVE  Abstract!First(heapArray[1]) /\ Contents = {heapArray[k] : k \in 1..size}
<1>1. Contents = {heapArray[k] : k \in 1..size}
  BY ContentsAreEntries DEF HeapInv, Entry
<1>2. size \in Nat
  BY DEF HeapInv, TypeInv
<1>3. heapArray[1] \in Contents
  BY <1>1, <1>2
<1>4. \A o \in Contents : ~Abstract!Before(side, o, heapArray[1])
  BY <1>1, RootIsFirst DEF cmp, Before, Abstract!Before, Sale, Abstract!Sale
<1> QED BY <1>1, <1>3, <1>4 DEF Abstract!First

LEMMA InsertRefines ==
  ASSUME HeapInv, HeapInv', NEW value \in Orders, Insert(value)
  PROVE  Abstract!Insert(value)
<1>1. /\ pc = "idle" /\ pc' = "up" /\ index' = size + 1 /\ held' = value /\ size' = size + 1
      /\ size \in Nat /\ \A k \in 1..size : heapArray'[k] = heapArray[k]
  BY DEF HeapInv, TypeInv, Insert, Grown
<1>2. Contents = {heapArray[k] : k \in 1..size}
  BY <1>1 DEF Contents
<1>3. Contents' = {heapArray[k] : k \in 1..size} \cup {value}
  BY <1>1 DEF Contents
<1> QED BY <1>2, <1>3 DEF Insert, Abstract!Insert

LEMMA PopRefines ==
  ASSUME HeapInv, HeapInv', Pop
  PROVE  Abstract!Pop
<1>1. /\ pc = "idle" /\ pc' = "down" /\ index' = 1 /\ held' = heapArray[size] /\ size' = size - 1
      /\ size \in Nat \ {0}
      /\ \A k \in 1..size - 1 : heapArray'[k] = heapArray[k]
  BY DEF HeapInv, TypeInv, Pop
<1>2. Abstract!First(heapArray[1]) /\ Contents = {heapArray[k] : k \in 1..size}
  BY <1>1, FirstEntry
<1>3. \A k \in 2..size : heapArray[k] # heapArray[1]
  BY <1>1 DEF HeapInv, Distinct, Entry
<1>4. Contents' = {heapArray[k] : k \in 2..size}
  <2>1. CASE size = 1
    BY <1>1, <2>1 DEF Contents
  <2>2. CASE size > 1
    <3>1. Contents' = {heapArray'[k] : k \in 2..size - 1} \cup {heapArray[size]}
      BY <1>1, <2>2 DEF Contents
    <3> QED BY <1>1, <2>2, <3>1
  <2> QED BY <1>1, <2>1, <2>2
<1>5. Contents' = Contents \ {heapArray[1]}
  BY <1>1, <1>2, <1>3, <1>4
<1>6. popped' = heapArray[1]
  BY DEF Pop
<1>7. heapArray[1] \in Contents
  BY <1>1, <1>2
<1> HIDE DEF Contents
<1> QED BY <1>2, <1>5, <1>6, <1>7 DEF Abstract!Pop

LEMMA ReduceTopRefines ==
  ASSUME HeapInv, HeapInv', NEW v \in 1..MaxReduction, ReduceTop(v)
  PROVE  Abstract!ReduceTop(v)
<1> DEFINE r == [heapArray[1] EXCEPT !.volume = @ - v]
<1>1. /\ pc = "idle" /\ pc' = "idle" /\ size' = size /\ size \in Nat \ {0} /\ 1 \in DOMAIN heapArray
      /\ heapArray' = [heapArray EXCEPT ![1] = r]
  BY DEF HeapInv, TypeInv, ReduceTop
<1> HIDE DEF r
<1>2. heapArray'[1] = r /\ \A k \in 2..size : heapArray'[k] = heapArray[k]
  BY <1>1 DEF HeapInv, TypeInv
<1>3. Abstract!First(heapArray[1]) /\ Contents = {heapArray[k] : k \in 1..size}
  BY <1>1, FirstEntry
<1>4. \A k \in 2..size : heapArray[k] # heapArray[1]
  BY <1>1 DEF HeapInv, Distinct, Entry
<1>5. Contents' = {heapArray'[k] : k \in 1..size}
  BY <1>1 DEF Contents
<1>6. Contents' = (Contents \ {heapArray[1]}) \cup {r}
  BY <1>1, <1>2, <1>3, <1>4, <1>5
<1>7. v <= heapArray[1].volume /\ popped' = Uninitialised
  BY DEF ReduceTop
<1>8. heapArray[1] \in Contents
  BY <1>1, <1>3
<1> QED BY <1>3, <1>6, <1>7, <1>8 DEF Abstract!ReduceTop, r

\* A step of a sift loop exchanges what is in the hole with another entry.
LEMMA SiftRefines ==
  ASSUME HeapInv, HeapInv', SiftUp \/ SiftDown
  PROVE  Contents' = Contents
<1> DEFINE j == index'
<1>1. /\ pc # "idle" /\ pc' = pc /\ size' = size /\ held' = held /\ size \in Nat
      /\ index \in 1..size /\ j \in 1..size /\ j # index
      /\ heapArray' = [heapArray EXCEPT ![index] = heapArray[j]]
  <2>1. CASE SiftUp
    BY <2>1, Fathers DEF SiftUp, Rises, father, HeapInv, TypeInv
  <2>2. CASE SiftDown
    BY <2>2, MaxChild DEF SiftDown, Sinks, HeapInv, TypeInv, Greater
  <2> QED BY <2>1, <2>2
<1>2. heapArray'[index] = heapArray[j] /\ \A k \in 1..size : k # index => heapArray'[k] = heapArray[k]
  BY <1>1 DEF HeapInv, TypeInv
<1>3. Contents = {heapArray[k] : k \in (1..size) \ {index}} \cup {held}
  BY <1>1 DEF Contents
<1>4. Contents' = {heapArray'[k] : k \in (1..size) \ {j}} \cup {held}
  BY <1>1 DEF Contents
<1> HIDE DEF j
<1>5. {heapArray'[k] : k \in (1..size) \ {j}} = {heapArray[k] : k \in (1..size) \ {index}}
  BY <1>1, <1>2
<1> QED BY <1>3, <1>4, <1>5

\* The array heap is a priority queue: every call of insert, pop and topPtr has the
\* effect that ContractEngine takes it to have, and pop returns an order that no
\* other in the heap precedes (binary_heap.h:34-79).
THEOREM HeapIsQueue == Spec => Implements
<1>1. Init => Abstract!Init
  BY DEF Init, Contents, Abstract!Init
<1>2. HeapInv /\ HeapInv' /\ [Next]_vars => [Abstract!Next]_<<Contents, popped>>
  <2> SUFFICES ASSUME HeapInv, HeapInv', [Next]_vars
               PROVE  [Abstract!Next]_<<Contents, popped>>
    OBVIOUS
  <2>1. CASE \E value \in Orders : Insert(value)
    BY <2>1, InsertRefines DEF Abstract!Next
  <2>2. CASE Pop
    BY <2>2, PopRefines DEF Abstract!Next
  <2>3. CASE \E v \in 1..MaxReduction : ReduceTop(v)
    BY <2>3, ReduceTopRefines DEF Abstract!Next
  <2>4. CASE SiftUp \/ SiftDown
    BY <2>4, SiftRefines DEF SiftUp, SiftDown
  <2>5. CASE Inserted
    BY <2>5, InsertedInv DEF Inserted, Fill
  <2>6. CASE Popped
    BY <2>6, PoppedInv DEF Popped, Fill
  <2>7. CASE UNCHANGED vars
    BY <2>7 DEF vars, Contents
  <2> QED BY <2>1, <2>2, <2>3, <2>4, <2>5, <2>6, <2>7 DEF Next, Caller, Loop
<1> QED BY <1>1, <1>2, Invariant, PTL DEF Spec, Implements, Abstract!Spec

=============================================================================
