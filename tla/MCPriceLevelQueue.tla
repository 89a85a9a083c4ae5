------------------------- MODULE MCPriceLevelQueue -------------------------
(***************************************************************************)
(* Small instances of PriceLevelQueue.                                     *)
(***************************************************************************)
EXTENDS PriceLevelQueue, TLC

(* Addresses and ids are only compared for equality: any renaming of       *)
(* either maps behaviours to behaviours.                                   *)
Symmetry == Permutations(Nodes) \cup Permutations(OrderIds)
=============================================================================
