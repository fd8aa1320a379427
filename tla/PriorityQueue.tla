---------------------------- MODULE PriorityQueue ----------------------------
(***************************************************************************)
(* What a heap of resting orders promises the contract engine: it holds a  *)
(* set of orders, and top() and pop() give one that no other precedes.     *)
(* ContractEngine uses its heaps through nothing but this.                 *)
(***************************************************************************)
EXTENDS Common

CONSTANTS
  side,      \* Sale: MinBinaryHeapCmp; Buy: MaxBinaryHeapCmp
  Orders,    \* the orders the engine may insert
  MaxReduction,   \* most volume a single trade takes
  Uninitialised   \* what popped is when it was not

VARIABLES
  queue,     \* the orders at rest
  popped     \* the order the last call returned, if it was pop()

First(top) == top \in queue /\ \A o \in queue : ~Before(side, o, top)

Insert(value) ==
  /\ \A o \in queue : o.uid # value.uid
  /\ queue' = queue \cup {value}
  /\ popped' = Uninitialised

Pop ==
  \E top \in queue :
    /\ First(top)
    /\ queue' = queue \ {top}
    /\ popped' = top

\* topPtr()->volume -= v
ReduceTop(v) ==
  \E top \in queue :
    /\ First(top) /\ v <= top.volume
    /\ queue' = (queue \ {top}) \cup {[top EXCEPT !.volume = @ - v]}
    /\ popped' = Uninitialised

Init == queue = {} /\ popped = Uninitialised

Next ==
  \/ \E value \in Orders : Insert(value)
  \/ Pop
  \/ \E v \in 1..MaxReduction : ReduceTop(v)

Spec == Init /\ [][Next]_<<queue, popped>>

=============================================================================
