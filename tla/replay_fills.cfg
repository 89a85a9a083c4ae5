\* One complete fill of the original, which no command tells the replica.
CONSTANTS
  OrderIds = {o1, o2}
  Nodes = {n1, n2}
  None = None
  MaxQty = 1
  MaxTime = 1
  MaxBacklog = 2
SPECIFICATION ReplaySpec
SYMMETRY Symmetry
INVARIANTS ReplicaConsistent
