----------------------------- MODULE MCOrderBook -----------------------------
(***************************************************************************)
(* Small instances of OrderBook.                                           *)
(***************************************************************************)
EXTENDS OrderBook, TLC

(* Ids and prices are only compared for equality.                          *)
Symmetry == Permutations(OrderIds) \cup Permutations(Prices)
=============================================================================
