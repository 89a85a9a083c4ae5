\* The loop that prepares the cancels inserts one id only.
CONSTANTS
  N = 1000
  OrderIds <- Ids
  MaxQty = 100
  MaxTime = 0
SPECIFICATION BenchSpec
CHECK_DEADLOCK FALSE
INVARIANTS CancelsRemove
