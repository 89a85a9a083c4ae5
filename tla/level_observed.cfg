\* Three orders at most; a quantity of 2 can be filled in two steps.
CONSTANTS
  OrderIds = {o1, o2, o3}
  Nodes = {n1, n2, n3}
  None = None
  MaxQty = 2
  MaxTime = 1
SPECIFICATION ObservedSpec
SYMMETRY Symmetry
INVARIANTS MirrorExact QuantityConserved BoxesArePeak
PROPERTIES ImplementsQueue NoOvertaking
