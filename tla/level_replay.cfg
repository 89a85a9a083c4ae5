\* Two commands may be on their way; the clocks differ by at most one.
CONSTANTS
  OrderIds = {o1, o2}
  Nodes = {n1, n2}
  None = None
  MaxQty = 1
  MaxTime = 1
  MaxBacklog = 2
SPECIFICATION ReplaySpec
SYMMETRY Symmetry
INVARIANTS ConsistentUntilFilled 
