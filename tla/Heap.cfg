\* Seven orders in a heap that starts with room for one (binary_heap.h:31 grows
\* it to 2, 4 and 8): two full levels below the top.
CONSTANTS
  side = 0
  Orders <- MCOrders
  MaxReduction = 1
  InitialCapacity = 1
  Uninitialised = Uninitialised
SPECIFICATION Spec
INVARIANTS
  HeapOrder
PROPERTIES
  Implements
  EveryCallReturns
