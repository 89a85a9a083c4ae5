\* The real loop length; the loops end, and then nothing moves.
CONSTANTS
  N = 1000
  OrderIds <- Ids
  MaxQty = 100
  MaxTime = 0
SPECIFICATION BenchSpec
CHECK_DEADLOCK FALSE
INVARIANTS MiddleHasNeighbours InsertsAccepted OneOrderToCancel
