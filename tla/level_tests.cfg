\* Three orders and one more after a removal; two orders may precede a test.
CONSTANTS
  OrderIds <- Ids
  Earlier = {11, 12}
  Nodes = {n1, n2, n3, n4}
  None = None
  MaxQty = 100
  MaxTime = 0
SPECIFICATION TestSpec
CHECK_DEADLOCK FALSE
INVARIANTS TestsPass
