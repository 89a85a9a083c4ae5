\* A complete fill is enough.
CONSTANTS
  OrderIds = {o1, o2, o3}
  Nodes = {n1, n2, n3}
  None = None
  MaxQty = 1
  MaxTime = 1
SPECIFICATION Spec
SYMMETRY Symmetry
PROPERTIES EveryChangeTimed
