\* One order is enough to miss the index entry.
CONSTANTS
  OrderIds = {o1, o2}
  Prices = {p1, p2}
  MaxTime = 1
  MaxOrders = 3
SPECIFICATION Spec
SYMMETRY Symmetry
CHECK_DEADLOCK FALSE
INVARIANTS FoundById
