------------------------------ MODULE BinaryHeap ------------------------------
(***************************************************************************)
(* struct BinaryHeap (src/binary_heap.h): the orders of one side in an     *)
(* array whose entry i comes no later than its children 2i and 2i + 1.     *)
(*                                                                         *)
(* Every iteration of the two sift loops is a step.  While they run, entry *)
(* "index" is a hole, and the order that will fill it is "held": the       *)
(* argument of insert, or the last order of the array in pop.              *)
(***************************************************************************)
EXTENDS Common

CONSTANTS
  side,              \* which comparator the heap was made with
  Orders,            \* the orders the engine may insert
  MaxReduction,      \* most volume a single trade takes
  InitialCapacity,
  Uninitialised      \* an array entry nothing was written to

Order == [uid : Int, timestamp : Int, price : Int, type : Int, volume : Nat]

ASSUME HeapAssumption ==
  /\ side \in Directions /\ InitialCapacity \in Nat \ {0} /\ MaxReduction \in Nat
  /\ Orders \subseteq Order /\ Uninitialised \notin Order

VARIABLES heapArray, capacity, size,
          pc, index, held,     \* the loop running and its locals
          popped               \* what the last call returned, if it was a pop

vars == <<heapArray, capacity, size, pc, index, held, popped>>

cmp(o1, o2) == Before(side, o1, o2)

\* The orders in the heap: the array without the hole, and the order held.
Contents == {heapArray[i] : i \in (1..size) \ (IF pc = "idle" THEN {} ELSE {index})}
              \cup (IF pc = "idle" \/ size = 0 THEN {} ELSE {held})

Init ==
  /\ capacity = InitialCapacity /\ size = 0
  /\ heapArray = [i \in 1..capacity |-> Uninitialised]
  /\ pc = "idle" /\ index = 1 /\ held = Uninitialised
  /\ popped = Uninitialised

-----------------------------------------------------------------------------
(* insert                                                                  *)

\* mutant: memcpy of _size entries forgets that entry 0 is not used
GrownShort == [i \in 1..2 * capacity |-> IF i < size THEN heapArray[i] ELSE Uninitialised]

Grown == [i \in 1..2 * capacity |-> IF i <= size THEN heapArray[i] ELSE Uninitialised]

Insert(value) ==
  /\ pc = "idle" /\ \A o \in Contents : o.uid # value.uid
  /\ IF size = capacity THEN capacity' = 2 * capacity /\ heapArray' = Grown
                        ELSE UNCHANGED <<capacity, heapArray>>
  /\ size' = size + 1
  /\ index' = size + 1 /\ held' = value
  /\ pc' = "up"
  /\ popped' = Uninitialised

father == index \div 2

Rises == index > 1 /\ cmp(held, heapArray[father])

SiftUpInPlace ==                          \* mutant: father is not moved on
  /\ pc = "up" /\ Rises
  /\ heapArray' = [heapArray EXCEPT ![index] = heapArray[father]]
  /\ UNCHANGED <<capacity, size, pc, index, held, popped>>

SiftUp ==
  /\ pc = "up" /\ Rises
  /\ heapArray' = [heapArray EXCEPT ![index] = heapArray[father]]
  /\ index' = father
  /\ UNCHANGED <<capacity, size, pc, held, popped>>

\* The hole is filled and the call returns.
Fill ==
  /\ heapArray' = [heapArray EXCEPT ![index] = held]
  /\ pc' = "idle" /\ index' = 1 /\ held' = Uninitialised
  /\ UNCHANGED <<capacity, size, popped>>

Inserted == pc = "up" /\ ~Rises /\ Fill

-----------------------------------------------------------------------------
(* pop                                                                     *)

\* The engine asks isEmpty() first.  What pop leaves in the entry it gives up is
\* as good as uninitialised.
Pop ==
  /\ pc = "idle" /\ size > 0
  /\ popped' = heapArray[1]
  /\ held' = heapArray[size]
  /\ size' = size - 1
  /\ index' = 1
  /\ heapArray' = [heapArray EXCEPT ![size] = Uninitialised]
  /\ pc' = "down"
  /\ UNCHANGED capacity

maxChildLeft == 2 * index                 \* mutant: the right child is forgotten

maxChild ==
  LET left == 2 * index
  IN  IF left < size /\ cmp(heapArray[left + 1], heapArray[left]) THEN left + 1 ELSE left

Sinks == 2 * index <= size /\ ~cmp(held, heapArray[maxChild])

SiftDown ==
  /\ pc = "down" /\ Sinks
  /\ heapArray' = [heapArray EXCEPT ![index] = heapArray[maxChild]]
  /\ index' = maxChild
  /\ UNCHANGED <<capacity, size, pc, held, popped>>

Popped == pc = "down" /\ ~Sinks /\ Fill

-----------------------------------------------------------------------------

\* A trade takes volume from the order at the top, in place (topPtr).
ReduceTop(v) ==
  /\ pc = "idle" /\ size > 0 /\ v <= heapArray[1].volume
  /\ heapArray' = [heapArray EXCEPT ![1].volume = @ - v]
  /\ popped' = Uninitialised
  /\ UNCHANGED <<capacity, size, pc, index, held>>

Caller == \/ \E value \in Orders : Insert(value)
          \/ Pop
          \/ \E v \in 1..MaxReduction : ReduceTop(v)

Loop == SiftUp \/ Inserted \/ SiftDown \/ Popped

Next == Caller \/ Loop

Spec == Init /\ [][Next]_vars /\ WF_vars(Loop)

-----------------------------------------------------------------------------
(* Properties.                                                             *)

\* Entries 1.._size, all but the hole, hold orders; a sift loop stays inside
\* the array.
TypeOK ==
  /\ size \in 0..capacity /\ DOMAIN heapArray = 1..capacity
  /\ pc \in {"idle", "up", "down"}
  /\ \A i \in 1..size : (pc # "idle" /\ i = index) \/ heapArray[i] # Uninitialised
  /\ pc = "up" => index \in 1..size
  /\ pc = "down" => index \in 1..Greater(size, 1)

\* Between calls no order precedes its father in the array, so the first entry
\* is an order with the highest priority.
HeapOrder == pc = "idle" => \A i \in 2..size : ~cmp(heapArray[i], heapArray[i \div 2])

\* The array behaves as a priority queue: nothing is lost or doubled by the
\* sift loops or when the array grows, and pop returns a first order.
Abstract == INSTANCE PriorityQueue WITH queue <- Contents
Implements == Abstract!Spec

\* insert and pop return.
EveryCallReturns == pc # "idle" ~> pc = "idle"

=============================================================================
